--------------------------- MODULE DictFileProofs ---------------------------
(***************************************************************************)
(* Proofs about DictFile for every number of columns, every set of values, *)
(* batches of every size, every limit of the index types and every hash    *)
(* function of the sketches: in each dictionary mode, what a dictionary    *)
(* and its indices give back, merged dictionaries included.                *)
(***************************************************************************)
EXTENDS DictFile, SequenceLemmas, FiniteSetTheorems

(* Positions of the values of a sequence.                                  *)
LEMMA InToSet ==
  ASSUME NEW T, NEW s \in Seq(T)
  PROVE  /\ Len(s) \in Nat /\ DOMAIN s = 1 .. Len(s)
         /\ \A i \in 1 .. Len(s) : s[i] \in T /\ s[i] \in ToSet(s)
         /\ \A x \in ToSet(s) : \E i \in 1 .. Len(s) : s[i] = x
  BY DEF ToSet

LEMMA AppendIs ==
  ASSUME NEW T, NEW s \in Seq(T), NEW x \in T
  PROVE  /\ Append(s, x) \in Seq(T) /\ Len(Append(s, x)) = Len(s) + 1 /\ Len(s) \in Nat
         /\ Append(s, x)[Len(s) + 1] = x
         /\ \A i \in 1 .. Len(s) : Append(s, x)[i] = s[i] /\ s[i] \in T
  OBVIOUS

-----------------------------------------------------------------------------
(***************************************************************************)
(* Dictionaries.  submit_values takes one value after the other.           *)
(***************************************************************************)
Submitted(d, v) == IF v = Null \/ v \in ToSet(d) THEN d ELSE Append(d, v)

LEMMA SubmitFold ==
  ASSUME NEW V, NEW d \in Seq(V), NEW values \in Seq(V \cup {Null})
  PROVE  \E h : /\ h[0] = d
                /\ \A k \in 1 .. Len(values) : h[k] = Submitted(h[k - 1], values[k])
                /\ Submit(d, values) = h[Len(values)]
<1> DEFINE n == Len(values)
           X == V \cup {Null}
           D == Seq(V)
           F == [p \in D \X X |-> Submitted(p[1], p[2])]
<1>1. n \in Nat /\ DOMAIN values = 1 .. n /\ \A i \in 1 .. n : values[i] \in X
  OBVIOUS
<1>2. \A e \in D : \A v \in X : Submitted(e, v) \in D
  <2> SUFFICES ASSUME NEW e \in D, NEW v \in X PROVE Submitted(e, v) \in D
    OBVIOUS
  <2>1. CASE v = Null \/ v \in ToSet(e)
    BY <2>1 DEF Submitted
  <2>2. CASE ~(v = Null \/ v \in ToSet(e))
    <3>1. v \in V
      BY <2>2
    <3>2. Append(e, v) \in Seq(V)
      BY <3>1
    <3>3. QED
      BY <2>2, <3>2 DEF Submitted
  <2>3. QED
    BY <2>1, <2>2
<1> HIDE DEF n, X, D
<1>3. F \in [D \X X -> D] /\ \A e \in D, v \in X : F[<<e, v>>] = Submitted(e, v)
  BY <1>2
<1> HIDE DEF F
<1>4. PICK g : Iterates(g, F, d, values, n)
  BY <1>1, IterateExists
<1>5. \A s \in SUBSET (1 .. n) : g[s] \in D
  BY <1>1, <1>3, <1>4, IterateType DEF D
<1> DEFINE Is(f) == f = [s \in SUBSET DOMAIN values |->
                          IF s = {} THEN d ELSE Submitted(f[s \ {Max(s)}], values[Max(s)])]
<1>6. Is(g)
  <2>1. ASSUME NEW s \in SUBSET (1 .. n), s # {}
        PROVE  F[<<g[s \ {Max(s)}], values[Max(s)]>>] = Submitted(g[s \ {Max(s)}], values[Max(s)])
    <3>1. Max(s) \in 1 .. n
      BY <1>1, <2>1, MaxOf
    <3>2. s \ {Max(s)} \in SUBSET (1 .. n)
      OBVIOUS
    <3>3. g[s \ {Max(s)}] \in D /\ values[Max(s)] \in X
      BY <1>1, <1>5, <3>1, <3>2
    <3>4. QED
      BY <1>3, <3>3
  <2>2. g = [s \in SUBSET (1 .. n) |->
               IF s = {} THEN d ELSE F[<<g[s \ {Max(s)}], values[Max(s)]>>]]
    BY <1>4 DEF Iterates
  <2>3. g = [s \in SUBSET (1 .. n) |->
               IF s = {} THEN d ELSE Submitted(g[s \ {Max(s)}], values[Max(s)])]
    BY <2>1, <2>2
  <2>4. QED
    BY <1>1, <2>3
<1> DEFINE c == CHOOSE f : Is(f)
<1>7. Is(c)
  BY <1>6
<1>8. Submit(d, values) = c[DOMAIN values]
  BY Zenon DEF Submit, FoldLeft, MapThenFoldSet, Submitted
<1> HIDE DEF c
<1>9. \A s \in SUBSET (1 .. n) :
        c[s] = IF s = {} THEN d ELSE Submitted(c[s \ {Max(s)}], values[Max(s)])
  BY <1>1, <1>7
<1> DEFINE h == [k \in 0 .. n |-> c[1 .. k]]
<1>10. h[0] = d /\ h[n] = Submit(d, values)
  <2>1. 1 .. 0 = {} /\ {} \in SUBSET (1 .. n) /\ 0 \in 0 .. n /\ n \in 0 .. n
    BY <1>1
  <2>2. QED
    BY <1>1, <1>8, <1>9, <2>1
<1>11. ASSUME NEW k \in 1 .. n
       PROVE  h[k] = Submitted(h[k - 1], values[k])
  <2>1. k \in Nat /\ k # 0 /\ k \in 0 .. n /\ k - 1 \in 0 .. n /\ 1 .. k \in SUBSET (1 .. n)
    BY <1>1
  <2>2. 1 .. k # {} /\ Max(1 .. k) = k /\ (1 .. k) \ {k} = 1 .. k - 1
    BY <2>1, MaxPrefix
  <2>3. c[1 .. k] = Submitted(c[1 .. k - 1], values[k])
    BY <1>9, <2>1, <2>2
  <2>4. QED
    BY <2>1, <2>3
<1> HIDE DEF h
<1>12. QED
  BY <1>10, <1>11 DEF n

(* The sequence e starts with d.                                           *)
Begins(e, d) == Len(d) <= Len(e) /\ \A i \in 1 .. Len(d) : e[i] = d[i]

(* Values keep the index they have, new ones go behind, none comes twice.  *)
LEMMA SubmitIs ==
  ASSUME NEW V, NEW d \in Seq(V), IsInjective(d), NEW values \in Seq(V \cup {Null})
  PROVE  /\ Submit(d, values) \in Seq(V) /\ IsInjective(Submit(d, values))
         /\ Len(Submit(d, values)) <= Len(d) + Len(values)
         /\ Begins(Submit(d, values), d)
         /\ \A i \in 1 .. Len(values) :
              values[i] # Null => values[i] \in ToSet(Submit(d, values))
<1> DEFINE n == Len(values)
<1>1. n \in Nat /\ \A i \in 1 .. n : values[i] \in V \cup {Null}
  OBVIOUS
<1>2. PICK h : /\ h[0] = d
               /\ \A k \in 1 .. n : h[k] = Submitted(h[k - 1], values[k])
               /\ Submit(d, values) = h[n]
  BY SubmitFold
<1> HIDE DEF n
<1> DEFINE Good(k) == /\ h[k] \in Seq(V) /\ IsInjective(h[k])
                      /\ Len(h[k]) <= Len(d) + k /\ Begins(h[k], d)
                      /\ \A i \in 1 .. k : values[i] # Null => values[i] \in ToSet(h[k])
           S == {k \in Nat : k <= n => Good(k)}
<1>3. 0 \in S
  BY <1>2 DEF Begins
<1>4. ASSUME NEW k \in Nat, k \in S
      PROVE  k + 1 \in S
  <2> SUFFICES ASSUME k + 1 <= n PROVE Good(k + 1)
    OBVIOUS
  <2>1. Good(k) /\ k + 1 \in 1 .. n /\ k + 1 - 1 = k
    BY <1>1, <1>4
  <2> DEFINE e == h[k]
             v == values[k + 1]
  <2>2. h[k + 1] = Submitted(e, v) /\ v \in V \cup {Null}
    BY <1>1, <1>2, <2>1
  <2>3. e \in Seq(V) /\ IsInjective(e) /\ Len(e) <= Len(d) + k /\ Len(d) \in Nat /\ Begins(e, d)
    BY <2>1
  <2>4. \A i \in 1 .. k : values[i] # Null => values[i] \in ToSet(e)
    BY <2>1
  <2>5. \A i \in 1 .. k + 1 : i \in 1 .. k \/ i = k + 1
    OBVIOUS
  <2>6. CASE v = Null \/ v \in ToSet(e)
    <3>1. h[k + 1] = e
      BY <2>2, <2>6 DEF Submitted
    <3>2. Len(e) <= Len(d) + (k + 1)
      BY <2>3
    <3>3. \A i \in 1 .. k + 1 : values[i] # Null => values[i] \in ToSet(e)
      BY <2>4, <2>5, <2>6
    <3>4. QED
      BY <2>3, <3>1, <3>2, <3>3
  <2>7. CASE ~(v = Null \/ v \in ToSet(e))
    <3> DEFINE a == Append(e, v)
    <3>1. h[k + 1] = a /\ v \in V
      BY <2>2, <2>7 DEF Submitted
    <3>2. /\ a \in Seq(V) /\ Len(a) = Len(e) + 1 /\ Len(e) \in Nat /\ a[Len(e) + 1] = v
          /\ \A i \in 1 .. Len(e) : a[i] = e[i]
      BY <2>3, <3>1, AppendIs
    <3>3. \A i \in 1 .. Len(e) : e[i] # v
      BY <2>3, <2>7, InToSet
    <3> HIDE DEF a, e, v
    <3>4. IsInjective(a)
      <4> SUFFICES ASSUME NEW x \in 1 .. Len(e) + 1, NEW y \in 1 .. Len(e) + 1, a[x] = a[y]
                   PROVE  x = y
        BY <3>2 DEF IsInjective
      <4>0. DOMAIN e = 1 .. Len(e)
        BY <2>3
      <4>1. CASE x \in 1 .. Len(e) /\ y \in 1 .. Len(e)
        BY <2>3, <3>2, <4>0, <4>1 DEF IsInjective
      <4>2. CASE x = Len(e) + 1 \/ y = Len(e) + 1
        BY <3>2, <3>3, <4>2, SMTT(30)
      <4>3. QED
        BY <3>2, <4>1, <4>2
    <3>5. ToSet(e) \subseteq ToSet(a) /\ v \in ToSet(a)
      <4>1. \A x \in ToSet(e) : \E i \in 1 .. Len(e) : e[i] = x
        BY <2>3, InToSet
      <4>2. \A i \in 1 .. Len(a) : a[i] \in ToSet(a)
        BY <3>2, InToSet
      <4>3. QED
        BY <3>2, <4>1, <4>2
    <3>6. \A i \in 1 .. k + 1 : values[i] # Null => values[i] \in ToSet(a)
      BY <2>4, <2>5, <3>5 DEF v
    <3>7. Len(a) <= Len(d) + (k + 1) /\ Begins(a, d)
      BY <2>3, <3>2 DEF Begins
    <3>8. QED
      BY <3>1, <3>2, <3>4, <3>6, <3>7
  <2>8. QED
    BY <2>6, <2>7
<1> HIDE DEF S
<1>5. \A k \in Nat : k \in S
  BY <1>3, <1>4, AllNaturals
<1>6. Good(n)
  BY <1>1, <1>5 DEF S
<1>7. QED
  BY <1>2, <1>6 DEF n

(* Indices that give rows of a dictionary d.                               *)
Maps(d, indices, rows) ==
  /\ DOMAIN indices = DOMAIN rows
  /\ \A x \in DOMAIN rows :
       IF rows[x] = Null THEN indices[x] = Null
       ELSE /\ indices[x] \in Nat /\ indices[x] < Len(d)
            /\ d[indices[x] + 1] = rows[x]

(* extend: every row has an index that gives it back.                      *)
LEMMA ExtendIs ==
  ASSUME NEW V, NEW d \in Seq(V), IsInjective(d), NEW values \in Seq(V \cup {Null})
  PROVE  LET e == Extend(d, values)
         IN /\ e.dictionary \in Seq(V) /\ IsInjective(e.dictionary)
            /\ Len(e.dictionary) <= Len(d) + Len(values) /\ Begins(e.dictionary, d)
            /\ e.indices \in Seq(Nat \cup {Null}) /\ Len(e.indices) = Len(values)
            /\ Maps(e.dictionary, e.indices, values)
<1> DEFINE e == Submit(d, values)
           ind == [k \in DOMAIN values |-> IF values[k] = Null THEN Null ELSE IndexOf(e, values[k])]
<1>1. /\ e \in Seq(V) /\ IsInjective(e) /\ Len(e) <= Len(d) + Len(values) /\ Begins(e, d)
      /\ \A i \in 1 .. Len(values) : values[i] # Null => values[i] \in ToSet(e)
  BY SubmitIs
<1>2. Extend(d, values) = [dictionary |-> e, indices |-> ind]
  BY DEF Extend
<1> HIDE DEF e
<1>3. DOMAIN values = 1 .. Len(values) /\ Len(values) \in Nat /\ Len(e) \in Nat
  BY <1>1
<1>4. ASSUME NEW x \in 1 .. Len(values), values[x] # Null
      PROVE  /\ IndexOf(e, values[x]) \in Nat /\ IndexOf(e, values[x]) < Len(e)
             /\ e[IndexOf(e, values[x]) + 1] = values[x]
  <2>1. \E i \in 1 .. Len(e) : e[i] = values[x]
    BY <1>1, <1>4, InToSet
  <2> DEFINE j == CHOOSE i \in 1 .. Len(e) : e[i] = values[x]
  <2>2. j \in 1 .. Len(e) /\ e[j] = values[x]
    BY <2>1
  <2>3. IndexOf(e, values[x]) = j - 1
    BY DEF IndexOf
  <2> HIDE DEF j
  <2>4. j - 1 + 1 = j /\ j - 1 \in Nat /\ j - 1 < Len(e)
    BY <1>3, <2>2
  <2>5. QED
    BY <2>2, <2>3, <2>4
<1>5. \A x \in 1 .. Len(values) : ind[x] \in Nat \cup {Null}
  BY <1>3, <1>4
<1>6. ind \in Seq(Nat \cup {Null}) /\ Len(ind) = Len(values)
  <2>1. ind \in [1 .. Len(values) -> Nat \cup {Null}]
    BY <1>3, <1>5
  <2> HIDE DEF ind
  <2>2. QED
    BY <1>3, <2>1
<1>7. Maps(e, ind, values)
  BY <1>3, <1>4 DEF Maps
<1> HIDE DEF ind
<1>8. QED
  BY <1>1, <1>2, <1>6, <1>7

-----------------------------------------------------------------------------
(***************************************************************************)
(* Indices in the type the length of the dictionary gives.                 *)
(***************************************************************************)
LEMMA WidthsAre ==
  /\ Widths[1] \in Nat /\ Widths[2] \in Nat /\ Widths[3] \in Nat
  /\ 1 < Widths[1] /\ Widths[1] < Widths[2] /\ Widths[2] < Widths[3]
  /\ \A w : w \in ToSet(Widths) <=> w = Widths[1] \/ w = Widths[2] \/ w = Widths[3]
<1>1. Widths[1] \in Nat /\ Widths[2] \in Nat /\ Widths[3] \in Nat /\ DOMAIN Widths = 1 .. 3
  <2>1. Widths \in Seq(Nat) /\ Len(Widths) = 3
    BY WidthsAssumption
  <2>2. DOMAIN Widths = 1 .. 3 /\ \A i \in 1 .. 3 : Widths[i] \in Nat
    BY <2>1, InToSet
  <2>3. 1 \in 1 .. 3 /\ 2 \in 1 .. 3 /\ 3 \in 1 .. 3
    OBVIOUS
  <2>4. QED
    BY <2>2, <2>3
<1>2. \A w : w \in ToSet(Widths) <=> \E i \in 1 .. 3 : w = Widths[i]
  BY <1>1 DEF ToSet
<1>3. \A i \in 1 .. 3 : i = 1 \/ i = 2 \/ i = 3
  OBVIOUS
<1>4. 1 \in 1 .. 3 /\ 2 \in 1 .. 3 /\ 3 \in 1 .. 3
  OBVIOUS
<1>5. QED
  BY <1>1, <1>2, <1>3, <1>4, WidthsAssumption

(* No index of a dictionary is cut: its type holds the dictionary's length.*)
LEMMA TruncatedIs ==
  ASSUME NEW n \in Nat, NEW i, i = Null \/ (i \in Nat /\ i < n)
  PROVE  Truncated(i, n) = i
<1>1. CASE i = Null \/ n >= Widths[3]
  BY <1>1 DEF Truncated
<1>2. CASE ~(i = Null \/ n >= Widths[3])
  <2> DEFINE P(w) == n < w /\ \A x \in ToSet(Widths) : n < x => w <= x
             w0 == CHOOSE w \in ToSet(Widths) : P(w)
  <2>1. \E w \in ToSet(Widths) : P(w)
    <3>1. CASE n < Widths[1]
      BY <3>1, WidthsAre
    <3>2. CASE ~(n < Widths[1]) /\ n < Widths[2]
      BY <3>2, WidthsAre
    <3>3. CASE ~(n < Widths[1]) /\ ~(n < Widths[2])
      BY <1>2, <3>3, WidthsAre
    <3>4. QED
      BY <3>1, <3>2, <3>3
  <2>2. w0 \in ToSet(Widths) /\ n < w0
    BY <2>1
  <2>3. Truncated(i, n) = i % w0
    BY <1>2 DEF Truncated
  <2> HIDE DEF w0
  <2>4. w0 \in Nat /\ i \in Nat /\ i < w0
    BY <1>2, <2>2, WidthsAre
  <2>5. QED
    BY <2>3, <2>4
<1>3. QED
  BY <1>1, <1>2

IndexTypes == {"UInt8", "UInt16", "UInt32", "UInt64"}

LEMMA IndexTypeIs ==
  /\ \A n : IndexType(n) \in IndexTypes
  /\ IndexType(0) = IndexType(1)
  /\ \A n \in Nat : n < Widths[3] => IndexType(n) # "UInt64"
<1>1. 0 < Widths[1] /\ 1 < Widths[1]
  BY WidthsAre
<1>2. QED
  BY <1>1 DEF IndexType, IndexTypes

(* The unit of the indices of an array.                                    *)
LEMMA IndexUnitIs ==
  ASSUME NEW T, NEW d \in Seq(T), NEW indices \in Seq(Nat \cup {Null}), NEW rows,
         Maps(d, indices, rows)
  PROVE  IndexUnit(indices, Len(d)) = Unit(IndexType(Len(d)), indices)
<1>1. \A k \in DOMAIN indices : Truncated(indices[k], Len(d)) = indices[k]
  BY TruncatedIs DEF Maps
<1>2. [k \in DOMAIN indices |-> Truncated(indices[k], Len(d))] = indices
  <2>1. [k \in DOMAIN indices |-> Truncated(indices[k], Len(d))] = [k \in DOMAIN indices |-> indices[k]]
    BY <1>1
  <2>2. [k \in DOMAIN indices |-> indices[k]] = indices
    OBVIOUS
  <2>3. QED
    BY <2>1, <2>2
<1>3. QED
  BY <1>2 DEF IndexUnit

-----------------------------------------------------------------------------
(***************************************************************************)
(* encode_dict_scope: the arrays of a scope against one dictionary.        *)
(***************************************************************************)
Arrays == Seq(cfg.values \cup {Null})
IndexArrays == Seq(Nat \cup {Null})
Dicts == {d \in [datatype : DictTypes, dictionary : Seq(cfg.values)] : IsInjective(d.dictionary)}

LEMMA DictIs ==
  ASSUME NEW d \in Dicts
  PROVE  /\ d \in [datatype : DictTypes, dictionary : Seq(cfg.values)]
         /\ d.datatype \in DictTypes /\ d.dictionary \in Seq(cfg.values)
         /\ IsInjective(d.dictionary) /\ Len(d.dictionary) \in Nat
  BY DEF Dicts

LEMMA NewDictIs ==
  ASSUME NEW t \in DictTypes
  PROVE  NewDict(t) \in Dicts /\ NewDict(t).datatype = t
<1>1. << >> \in Seq(cfg.values) /\ IsInjective(<< >>)
  BY DEF IsInjective
<1>2. QED
  BY <1>1 DEF NewDict, Dicts

LEMMA ExtendAndGetIndexIs ==
  ASSUME NEW d \in Dicts, NEW array \in Arrays
  PROVE  LET x == ExtendAndGetIndex(d, array)
         IN /\ x.dict \in Dicts /\ x.dict.datatype = d.datatype
            /\ Begins(x.dict.dictionary, d.dictionary)
            /\ x.indices \in IndexArrays /\ Maps(x.dict.dictionary, x.indices, array)
<1> DEFINE e == Extend(d.dictionary, array)
           x == ExtendAndGetIndex(d, array)
<1>1. d.datatype \in DictTypes /\ d.dictionary \in Seq(cfg.values) /\ IsInjective(d.dictionary)
  BY DictIs
<1>2. array \in Seq(cfg.values \cup {Null})
  BY DEF Arrays
<1>3. /\ e.dictionary \in Seq(cfg.values) /\ IsInjective(e.dictionary)
      /\ Begins(e.dictionary, d.dictionary) /\ e.indices \in IndexArrays
      /\ Maps(e.dictionary, e.indices, array)
  BY <1>1, <1>2, ExtendIs DEF IndexArrays
<1>4. x.dict = [d EXCEPT !.dictionary = e.dictionary] /\ x.indices = e.indices
  BY DEF ExtendAndGetIndex
<1> HIDE DEF e, x
<1>5. x.dict = [datatype |-> d.datatype, dictionary |-> e.dictionary]
  BY <1>4, DictIs
<1>6. x.dict \in Dicts /\ x.dict.datatype = d.datatype /\ x.dict.dictionary = e.dictionary
  BY <1>1, <1>3, <1>5 DEF Dicts
<1>7. QED
  BY <1>3, <1>4, <1>6 DEF x

ScopeStates == [dict : Dicts, indices : Seq(IndexArrays)]

ScopeStep(acc, array) ==
  LET x == ExtendAndGetIndex(acc.dict, array)
  IN [dict |-> x.dict, indices |-> Append(acc.indices, x.indices)]

ScopeAll(d, arrays) == FoldLeft(ScopeStep, [dict |-> d, indices |-> << >>], arrays)

LEMMA ScopeStepIs ==
  ASSUME NEW s \in ScopeStates, NEW array \in Arrays
  PROVE  LET t == ScopeStep(s, array)
         IN /\ t \in ScopeStates /\ t.dict.datatype = s.dict.datatype
            /\ Begins(t.dict.dictionary, s.dict.dictionary)
            /\ Len(t.indices) = Len(s.indices) + 1 /\ Len(s.indices) \in Nat
            /\ \A k \in 1 .. Len(s.indices) : t.indices[k] = s.indices[k]
            /\ Maps(t.dict.dictionary, t.indices[Len(s.indices) + 1], array)
<1> DEFINE x == ExtendAndGetIndex(s.dict, array)
           t == ScopeStep(s, array)
           a == Append(s.indices, x.indices)
<1>1. s.dict \in Dicts /\ s.indices \in Seq(IndexArrays)
  BY DEF ScopeStates
<1>2. /\ x.dict \in Dicts /\ x.dict.datatype = s.dict.datatype
      /\ Begins(x.dict.dictionary, s.dict.dictionary)
      /\ x.indices \in IndexArrays /\ Maps(x.dict.dictionary, x.indices, array)
  BY <1>1, ExtendAndGetIndexIs
<1>3. t = [dict |-> x.dict, indices |-> a]
  BY DEF ScopeStep
<1> HIDE DEF x, t
<1>4. /\ a \in Seq(IndexArrays) /\ Len(a) = Len(s.indices) + 1 /\ Len(s.indices) \in Nat
      /\ a[Len(s.indices) + 1] = x.indices
      /\ \A k \in 1 .. Len(s.indices) : a[k] = s.indices[k]
  BY <1>1, <1>2, AppendIs
<1> HIDE DEF a
<1>5. t \in ScopeStates /\ t.dict = x.dict /\ t.indices = a
  BY <1>2, <1>3, <1>4 DEF ScopeStates
<1>6. QED
  BY <1>2, <1>4, <1>5 DEF t

LEMMA ScopeFold ==
  ASSUME NEW d \in Dicts, NEW arrays \in Seq(Arrays)
  PROVE  \E h : /\ h[0] = [dict |-> d, indices |-> << >>]
                /\ \A k \in 1 .. Len(arrays) : h[k] = ScopeStep(h[k - 1], arrays[k])
                /\ ScopeAll(d, arrays) = h[Len(arrays)]
<1> DEFINE n == Len(arrays)
           b == [dict |-> d, indices |-> << >>]
           F == [p \in ScopeStates \X Arrays |-> ScopeStep(p[1], p[2])]
<1>1. n \in Nat /\ DOMAIN arrays = 1 .. n /\ \A i \in 1 .. n : arrays[i] \in Arrays
  OBVIOUS
<1>2. \A e \in ScopeStates : \A v \in Arrays : ScopeStep(e, v) \in ScopeStates
  BY ScopeStepIs
<1>b. b \in ScopeStates
  BY DEF ScopeStates
<1> HIDE DEF n, b
<1>3. F \in [ScopeStates \X Arrays -> ScopeStates]
      /\ \A e \in ScopeStates, v \in Arrays : F[<<e, v>>] = ScopeStep(e, v)
  BY <1>2
<1> HIDE DEF F
<1>4. PICK g : Iterates(g, F, b, arrays, n)
  BY <1>1, IterateExists
<1>5. \A s \in SUBSET (1 .. n) : g[s] \in ScopeStates
  BY <1>1, <1>3, <1>4, <1>b, IterateType
<1> DEFINE Is(f) == f = [s \in SUBSET DOMAIN arrays |->
                          IF s = {} THEN b ELSE ScopeStep(f[s \ {Max(s)}], arrays[Max(s)])]
<1>6. Is(g)
  <2>1. ASSUME NEW s \in SUBSET (1 .. n), s # {}
        PROVE  F[<<g[s \ {Max(s)}], arrays[Max(s)]>>] = ScopeStep(g[s \ {Max(s)}], arrays[Max(s)])
    <3>1. Max(s) \in 1 .. n
      BY <1>1, <2>1, MaxOf
    <3>2. s \ {Max(s)} \in SUBSET (1 .. n)
      OBVIOUS
    <3>3. g[s \ {Max(s)}] \in ScopeStates /\ arrays[Max(s)] \in Arrays
      BY <1>1, <1>5, <3>1, <3>2
    <3>4. QED
      BY <1>3, <3>3
  <2>2. g = [s \in SUBSET (1 .. n) |->
               IF s = {} THEN b ELSE F[<<g[s \ {Max(s)}], arrays[Max(s)]>>]]
    BY <1>4 DEF Iterates
  <2>3. g = [s \in SUBSET (1 .. n) |->
               IF s = {} THEN b ELSE ScopeStep(g[s \ {Max(s)}], arrays[Max(s)])]
    BY <2>1, <2>2
  <2>4. QED
    BY <1>1, <2>3
<1> DEFINE c == CHOOSE f : Is(f)
<1>7. Is(c)
  BY <1>6
<1>8. ScopeAll(d, arrays) = c[DOMAIN arrays]
  BY Zenon DEF ScopeAll, FoldLeft, MapThenFoldSet, b
<1> HIDE DEF c
<1>9. \A s \in SUBSET (1 .. n) :
        c[s] = IF s = {} THEN b ELSE ScopeStep(c[s \ {Max(s)}], arrays[Max(s)])
  BY <1>1, <1>7
<1> DEFINE h == [k \in 0 .. n |-> c[1 .. k]]
<1>10. h[0] = b /\ h[n] = ScopeAll(d, arrays)
  <2>1. 1 .. 0 = {} /\ {} \in SUBSET (1 .. n) /\ 0 \in 0 .. n /\ n \in 0 .. n
    BY <1>1
  <2>2. QED
    BY <1>1, <1>8, <1>9, <2>1
<1>11. ASSUME NEW k \in 1 .. n
       PROVE  h[k] = ScopeStep(h[k - 1], arrays[k])
  <2>1. k \in Nat /\ k # 0 /\ k \in 0 .. n /\ k - 1 \in 0 .. n /\ 1 .. k \in SUBSET (1 .. n)
    BY <1>1
  <2>2. 1 .. k # {} /\ Max(1 .. k) = k /\ (1 .. k) \ {k} = 1 .. k - 1
    BY <2>1, MaxPrefix
  <2>3. c[1 .. k] = ScopeStep(c[1 .. k - 1], arrays[k])
    BY <1>9, <2>1, <2>2
  <2>4. QED
    BY <2>1, <2>3
<1> HIDE DEF h
<1>12. QED
  BY <1>10, <1>11 DEF n, b

LEMMA MapsGrow ==
  ASSUME NEW V, NEW d \in Seq(V), NEW e \in Seq(V), Begins(e, d), NEW indices, NEW rows,
         Maps(d, indices, rows)
  PROVE  Maps(e, indices, rows)
<1>1. Len(d) \in Nat /\ Len(e) \in Nat
  OBVIOUS
<1>2. \A x : x \in Nat /\ x < Len(d) => x < Len(e) /\ e[x + 1] = d[x + 1]
  BY <1>1 DEF Begins
<1>3. QED
  BY <1>2 DEF Maps

(* All arrays of a scope map into the dictionary as it is in the end.      *)
LEMMA ScopeAllIs ==
  ASSUME NEW d \in Dicts, NEW arrays \in Seq(Arrays)
  PROVE  LET t == ScopeAll(d, arrays)
         IN /\ t \in ScopeStates /\ t.dict.datatype = d.datatype
            /\ Len(t.indices) = Len(arrays)
            /\ \A k \in 1 .. Len(arrays) : Maps(t.dict.dictionary, t.indices[k], arrays[k])
<1> DEFINE n == Len(arrays)
<1>1. n \in Nat /\ \A i \in 1 .. n : arrays[i] \in Arrays
  OBVIOUS
<1>2. PICK h : /\ h[0] = [dict |-> d, indices |-> << >>]
               /\ \A k \in 1 .. n : h[k] = ScopeStep(h[k - 1], arrays[k])
               /\ ScopeAll(d, arrays) = h[n]
  BY ScopeFold
<1> HIDE DEF n
<1> DEFINE Good(k) == /\ h[k] \in ScopeStates /\ h[k].dict.datatype = d.datatype
                      /\ Len(h[k].indices) = k
                      /\ \A i \in 1 .. k : Maps(h[k].dict.dictionary, h[k].indices[i], arrays[i])
           S == {k \in Nat : k <= n => Good(k)}
<1>3. 0 \in S
  <2>1. h[0].dict = d /\ h[0].indices = << >> /\ h[0] \in ScopeStates
    BY <1>2 DEF ScopeStates
  <2>2. \A i \in 1 .. 0 : FALSE
    OBVIOUS
  <2>3. QED
    BY <2>1, <2>2
<1>4. ASSUME NEW k \in Nat, k \in S
      PROVE  k + 1 \in S
  <2> SUFFICES ASSUME k + 1 <= n PROVE Good(k + 1)
    OBVIOUS
  <2>1. Good(k) /\ k + 1 \in 1 .. n /\ k + 1 - 1 = k
    BY <1>1, <1>4
  <2> DEFINE s == h[k]
             t == h[k + 1]
             a == arrays[k + 1]
  <2>2. t = ScopeStep(s, a) /\ a \in Arrays /\ s \in ScopeStates
    BY <1>1, <1>2, <2>1
  <2>3. /\ s.dict.datatype = d.datatype /\ Len(s.indices) = k
        /\ \A i \in 1 .. k : Maps(s.dict.dictionary, s.indices[i], arrays[i])
    BY <2>1
  <2> HIDE DEF s, a, t
  <2>4. /\ t \in ScopeStates /\ t.dict.datatype = s.dict.datatype
        /\ Begins(t.dict.dictionary, s.dict.dictionary)
        /\ Len(t.indices) = Len(s.indices) + 1
        /\ \A i \in 1 .. Len(s.indices) : t.indices[i] = s.indices[i]
        /\ Maps(t.dict.dictionary, t.indices[Len(s.indices) + 1], a)
    BY <2>2, ScopeStepIs
  <2>5. s.dict \in Dicts /\ t.dict \in Dicts
    BY <2>2, <2>4 DEF ScopeStates
  <2>6. s.dict.dictionary \in Seq(cfg.values) /\ t.dict.dictionary \in Seq(cfg.values)
    BY <2>5, DictIs
  <2>7. ASSUME NEW i \in 1 .. k + 1
        PROVE  Maps(t.dict.dictionary, t.indices[i], arrays[i])
    <3>1. CASE i = k + 1
      BY <2>3, <2>4, <3>1 DEF a
    <3>2. CASE i \in 1 .. k
      BY <2>3, <2>4, <2>6, <3>2, MapsGrow
    <3>3. QED
      BY <3>1, <3>2
  <2>8. QED
    BY <2>3, <2>4, <2>7 DEF t
<1> HIDE DEF S
<1>5. \A k \in Nat : k \in S
  BY <1>3, <1>4, AllNaturals
<1>6. Good(n)
  BY <1>1, <1>5 DEF S
<1>7. QED
  BY <1>2, <1>6 DEF n

-----------------------------------------------------------------------------
(***************************************************************************)
(* Writers, in the modes that merge no dictionaries.                       *)
(***************************************************************************)
Flags == BOOLEAN
Units == [type : DictTypes \cup IndexTypes, rows : Seq(cfg.values \cup {Null} \cup Nat),
          marked : Flags, packed : Flags]
Labels == {"none", "local", "shared"}
Chunks == [label : Labels, dict : Nat, units : Seq(Units)]
EncStates == [acc : Chunks, buffered : Seq(Arrays), submitted : {None}]
Writers == [enc : [Cols -> EncStates], dicts : Seq(Dicts), chunks : [Cols -> Seq(Chunks)]]

LEMMA WriterIs ==
  ASSUME NEW w \in Writers, NEW c \in Cols
  PROVE  /\ w.enc \in [Cols -> EncStates] /\ w.enc[c] \in EncStates
         /\ w.enc[c].acc \in Chunks /\ w.enc[c].buffered \in Seq(Arrays)
         /\ w.enc[c].submitted = None
         /\ w.dicts \in Seq(Dicts) /\ Len(w.dicts) \in Nat
         /\ w.chunks \in [Cols -> Seq(Chunks)] /\ w.chunks[c] \in Seq(Chunks)
         /\ w = [enc |-> w.enc, dicts |-> w.dicts, chunks |-> w.chunks]
<1>1. /\ w.enc \in [Cols -> EncStates] /\ w.dicts \in Seq(Dicts) /\ w.chunks \in [Cols -> Seq(Chunks)]
      /\ w = [enc |-> w.enc, dicts |-> w.dicts, chunks |-> w.chunks]
  BY DEF Writers
<1>2. w.enc[c] \in EncStates /\ w.chunks[c] \in Seq(Chunks) /\ Len(w.dicts) \in Nat
  BY <1>1
<1>3. w.enc[c].acc \in Chunks /\ w.enc[c].buffered \in Seq(Arrays) /\ w.enc[c].submitted = None
  BY <1>2 DEF EncStates
<1>4. QED
  BY <1>1, <1>2, <1>3

(* v differs from w in column c and in dictionaries added.                 *)
OnlyCol(w, v, c) ==
  /\ v \in Writers /\ Begins(v.dicts, w.dicts)
  /\ \A x \in Cols : x # c => v.enc[x] = w.enc[x] /\ v.chunks[x] = w.chunks[x]

(* A writer whose column c has another encoder state, more chunks, and     *)
(* maybe one more dictionary.                                              *)
With(w, c, e, ds, new) ==
  [enc |-> [w.enc EXCEPT ![c] = e], dicts |-> ds,
   chunks |-> [w.chunks EXCEPT ![c] = @ \o new]]

Updated(w, v, c, e, ds, new) ==
  OnlyCol(w, v, c) /\ v.enc[c] = e /\ v.dicts = ds /\ v.chunks[c] = w.chunks[c] \o new

LEMMA WithIs ==
  ASSUME NEW w \in Writers, NEW c \in Cols, NEW e \in EncStates, NEW ds \in Seq(Dicts),
         Begins(ds, w.dicts), NEW new \in Seq(Chunks)
  PROVE  Updated(w, With(w, c, e, ds, new), c, e, ds, new)
<1> DEFINE v == With(w, c, e, ds, new)
<1>1. v.enc = [w.enc EXCEPT ![c] = e] /\ v.dicts = ds /\ v.chunks = [w.chunks EXCEPT ![c] = w.chunks[c] \o new]
  BY DEF With
<1>2. w.enc \in [Cols -> EncStates] /\ w.chunks \in [Cols -> Seq(Chunks)] /\ w.chunks[c] \in Seq(Chunks)
  BY WriterIs
<1>3. w.chunks[c] \o new \in Seq(Chunks)
  BY <1>2
<1>4. v.enc \in [Cols -> EncStates] /\ v.chunks \in [Cols -> Seq(Chunks)]
  BY <1>1, <1>2, <1>3
<1>5. v = [enc |-> v.enc, dicts |-> v.dicts, chunks |-> v.chunks]
  BY DEF With
<1> HIDE DEF v
<1>6. v \in Writers
  BY <1>1, <1>4, <1>5 DEF Writers
<1>7. v.enc[c] = e /\ v.chunks[c] = w.chunks[c] \o new
  BY <1>1, <1>2
<1>8. \A x \in Cols : x # c => v.enc[x] = w.enc[x] /\ v.chunks[x] = w.chunks[x]
  BY <1>1, <1>2
<1>9. QED
  BY <1>1, <1>6, <1>7, <1>8 DEF OnlyCol, Updated, v

(* Records with one field replaced.                                        *)
LEMMA FieldsReplaced ==
  ASSUME NEW e, NEW ds, NEW cs, NEW x
  PROVE  LET w == [enc |-> e, dicts |-> ds, chunks |-> cs]
         IN /\ [w EXCEPT !.enc = x] = [enc |-> x, dicts |-> ds, chunks |-> cs]
            /\ [w EXCEPT !.dicts = x] = [enc |-> e, dicts |-> x, chunks |-> cs]
            /\ [w EXCEPT !.chunks = x] = [enc |-> e, dicts |-> ds, chunks |-> x]
            /\ w.enc = e /\ w.dicts = ds /\ w.chunks = cs
  OBVIOUS

AccOf(w, c, a) == [acc |-> a, buffered |-> w.enc[c].buffered, submitted |-> None]
BufOf(w, c, b) == [acc |-> w.enc[c].acc, buffered |-> b, submitted |-> None]

SetAcc(w, c, a) == [w EXCEPT !.enc[c].acc = a]
SetBuf(w, c, b) == [w EXCEPT !.enc[c].buffered = b]
SetBufDicts(w, c, b, ds) == [w EXCEPT !.enc[c].buffered = b, !.dicts = ds]

(* The updates of the encoders, in that form.                              *)
LEMMA UpdatesAre ==
  ASSUME NEW w \in Writers, NEW c \in Cols, NEW new, NEW a, NEW ds
  PROVE  /\ SetAcc(w, c, a) = With(w, c, AccOf(w, c, a), w.dicts, << >>)
         /\ SetBuf(w, c, a) = With(w, c, BufOf(w, c, a), w.dicts, << >>)
         /\ Emit(SetAcc(w, c, a), c, new) = With(w, c, AccOf(w, c, a), w.dicts, new)
         /\ Emit(SetBuf(w, c, a), c, new) = With(w, c, BufOf(w, c, a), w.dicts, new)
         /\ Emit(SetBufDicts(w, c, a, ds), c, new) = With(w, c, BufOf(w, c, a), ds, new)
<1>1. /\ w.enc[c] \in EncStates /\ w.enc[c].submitted = None
      /\ w.chunks \in [Cols -> Seq(Chunks)] /\ w.chunks[c] \in Seq(Chunks)
      /\ w = [enc |-> w.enc, dicts |-> w.dicts, chunks |-> w.chunks]
  BY WriterIs
<1>2. w.enc[c] = [acc |-> w.enc[c].acc, buffered |-> w.enc[c].buffered, submitted |-> None]
  BY <1>1 DEF EncStates
<1>3. [w.chunks EXCEPT ![c] = w.chunks[c] \o << >>] = w.chunks
  <2>1. w.chunks[c] \o << >> = w.chunks[c]
    BY <1>1
  <2>2. QED
    BY <1>1, <2>1
<1> DEFINE Rec(e, d) == [enc |-> [w.enc EXCEPT ![c] = e], dicts |-> d, chunks |-> w.chunks]
<1>4. ASSUME NEW x PROVE [w EXCEPT !.enc = x] = [enc |-> x, dicts |-> w.dicts, chunks |-> w.chunks]
  <2>1. \A e, d, cs : [[enc |-> e, dicts |-> d, chunks |-> cs] EXCEPT !.enc = x] =
                        [enc |-> x, dicts |-> d, chunks |-> cs]
    BY FieldsReplaced
  <2> DEFINE r == [enc |-> w.enc, dicts |-> w.dicts, chunks |-> w.chunks]
  <2>2. [r EXCEPT !.enc = x] = [enc |-> x, dicts |-> w.dicts, chunks |-> w.chunks]
    BY <2>1, Zenon
  <2>3. w = r
    BY <1>1
  <2> HIDE DEF r
  <2>4. QED
    BY <2>2, <2>3, Zenon
<1>5. ASSUME NEW x, NEW d PROVE [Rec(x, d) EXCEPT !.dicts = ds] = Rec(x, ds)
  <2>1. \A e, cs : [[enc |-> e, dicts |-> d, chunks |-> cs] EXCEPT !.dicts = ds] =
                     [enc |-> e, dicts |-> ds, chunks |-> cs]
    BY FieldsReplaced
  <2>2. QED
    BY <2>1, Zenon
<1>6. [w EXCEPT !.enc[c].acc = a] = Rec([w.enc[c] EXCEPT !.acc = a], w.dicts)
  BY <1>4, Zenon
<1>7. [w EXCEPT !.enc[c].buffered = a] = Rec([w.enc[c] EXCEPT !.buffered = a], w.dicts)
  BY <1>4, Zenon
<1>8. [w EXCEPT !.enc[c].buffered = a, !.dicts = ds] = Rec([w.enc[c] EXCEPT !.buffered = a], ds)
  BY <1>5, <1>7, ZenonT(30)
<1>9. \A e, d : Emit(Rec(e, d), c, new) = With(w, c, e, d, new)
  <2> SUFFICES ASSUME NEW e, NEW d PROVE Emit(Rec(e, d), c, new) = With(w, c, e, d, new)
    OBVIOUS
  <2>1. Rec(e, d).chunks = w.chunks
    BY FieldsReplaced, Zenon
  <2>2. Emit(Rec(e, d), c, new) =
          [Rec(e, d) EXCEPT !.chunks = [Rec(e, d).chunks EXCEPT ![c] = Rec(e, d).chunks[c] \o new]]
    BY Zenon DEF Emit
  <2>3. Emit(Rec(e, d), c, new) = [Rec(e, d) EXCEPT !.chunks = [w.chunks EXCEPT ![c] = w.chunks[c] \o new]]
    BY <2>1, <2>2, Zenon
  <2>4. QED
    BY <2>3, FieldsReplaced, Zenon DEF With
<1>10. \A e, d : Rec(e, d) = With(w, c, e, d, << >>)
  BY <1>3, Zenon DEF With
<1> HIDE DEF Rec
<1>11. [w.enc[c] EXCEPT !.acc = a] = AccOf(w, c, a) /\ [w.enc[c] EXCEPT !.buffered = a] = BufOf(w, c, a)
  BY <1>2 DEF AccOf, BufOf
<1>12. QED
  BY <1>6, <1>7, <1>8, <1>9, <1>10, <1>11, Zenon DEF SetAcc, SetBuf, SetBufDicts

-----------------------------------------------------------------------------
(***************************************************************************)
(* What a unit, a chunk and a column hold.                                 *)
(***************************************************************************)
LEMMA CfgIs ==
  ASSUME cfg \in Configs
  PROVE  /\ cfg.packed \in Flags /\ cfg.rows \in Nat
         /\ cfg.mode \in {"encoder", "local", "glbest"} \cup ScopeModes
         /\ Null \notin cfg.values /\ Null \notin Nat
  BY ConfigsAssumption, Zenon DEF Flags

LEMMA SeqWidens ==
  ASSUME NEW A, NEW B, A \subseteq B, NEW s \in Seq(A)
  PROVE  s \in Seq(B)
  OBVIOUS

(* The bytes of a unit are what its metadata says.                         *)
Unmixed(u) == u.marked = u.packed

LEMMA UnitIs ==
  ASSUME cfg \in Configs, NEW t \in DictTypes \cup IndexTypes,
         NEW rows \in Seq(cfg.values \cup {Null} \cup Nat)
  PROVE  /\ Unit(t, rows) \in Units /\ Unit(t, rows).type = t /\ Unit(t, rows).rows = rows
         /\ Unmixed(Unit(t, rows))
         /\ PlainUnit(t, rows) \in Units /\ PlainUnit(t, rows).type = t
         /\ PlainUnit(t, rows).rows = rows /\ Unmixed(PlainUnit(t, rows))
<1>1. cfg.packed \in Flags /\ FALSE \in Flags
  BY CfgIs, Zenon DEF Flags
<1>2. ASSUME NEW f \in Flags
      PROVE  LET u == [type |-> t, rows |-> rows, marked |-> f, packed |-> f]
             IN u \in Units /\ u.type = t /\ u.rows = rows /\ Unmixed(u)
  <2> DEFINE u == [type |-> t, rows |-> rows, marked |-> f, packed |-> f]
  <2>1. u \in Units
    BY Zenon DEF Units
  <2>2. u.type = t /\ u.rows = rows
    BY Zenon
  <2>3. u.marked = f /\ u.packed = f
    BY Zenon
  <2>4. Unmixed(u)
    BY <2>3, Zenon DEF Unmixed
  <2>5. QED
    BY <2>1, <2>2, <2>4, Zenon
<1>3. QED
  BY <1>1, <1>2, Zenon DEF Unit, PlainUnit

PlainHolds(c, u, a) == u.type = ColType[c] /\ u.rows = a /\ Unmixed(u)
SharedHolds(d, u, a) == u.type = IndexType(Len(d)) /\ Maps(d, u.rows, a) /\ Unmixed(u)

(* Unit u of a chunk of column c, with this label and dictionary, holds    *)
(* the array a.                                                            *)
UnitHolds(ds, c, label, dict, u, a) ==
  \/ label = "none" /\ PlainHolds(c, u, a)
  \/ /\ label = "shared" /\ dict \in 1 .. Len(ds) /\ ds[dict].datatype = ColType[c]
     /\ SharedHolds(ds[dict].dictionary, u, a)

ChunkHolds(ds, c, chunk, part) ==
  /\ Len(chunk.units) = Len(part)
  /\ \A k \in 1 .. Len(part) : UnitHolds(ds, c, chunk.label, chunk.dict, chunk.units[k], part[k])

LEMMA ChunkHoldsStill ==
  ASSUME NEW ds \in Seq(Dicts), NEW es \in Seq(Dicts), Begins(es, ds), NEW c, NEW chunk, NEW part,
         ChunkHolds(ds, c, chunk, part)
  PROVE  ChunkHolds(es, c, chunk, part)
<1>1. Len(ds) \in Nat /\ Len(es) \in Nat
  OBVIOUS
<1>2. \A i \in 1 .. Len(ds) : i \in 1 .. Len(es) /\ es[i] = ds[i]
  BY <1>1 DEF Begins
<1>3. \A l, i, u, a : UnitHolds(ds, c, l, i, u, a) => UnitHolds(es, c, l, i, u, a)
  BY <1>2 DEF UnitHolds
<1>4. QED
  BY <1>3 DEF ChunkHolds

Holding(ds, c) == {p \in Chunks \X Seq(Arrays) : ChunkHolds(ds, c, p[1], p[2])}

LEMMA HoldingIs ==
  ASSUME NEW ds, NEW c, NEW chunk, NEW part
  PROVE  <<chunk, part>> \in Holding(ds, c) <=>
           chunk \in Chunks /\ part \in Seq(Arrays) /\ ChunkHolds(ds, c, chunk, part)
  BY DEF Holding

(* The chunks new hold these arrays.                                       *)
NewHold(ds, c, new, arrays) ==
  \E parts \in Seq(Seq(Arrays)) : FlattenSeq(parts) = arrays /\ Paired(new, parts, Holding(ds, c))

UnitsHold(ds, c, label, dict, units, arrays) ==
  /\ Len(units) = Len(arrays)
  /\ \A k \in 1 .. Len(arrays) : UnitHolds(ds, c, label, dict, units[k], arrays[k])

(* Units in chunks of one or in one chunk.                                 *)
LEMMA InChunksHold ==
  ASSUME NEW ds, NEW c, NEW label \in Labels, NEW dict \in Nat, NEW units \in Seq(Units),
         NEW arrays \in Seq(Arrays), UnitsHold(ds, c, label, dict, units, arrays)
  PROVE  /\ InChunks(label, dict, units) \in Seq(Chunks)
         /\ NewHold(ds, c, InChunks(label, dict, units), arrays)
<1> DEFINE new == InChunks(label, dict, units)
           n == Len(units)
           Ch(us) == [label |-> label, dict |-> dict, units |-> us]
<1>1. /\ n \in Nat /\ DOMAIN units = 1 .. n /\ Len(arrays) = n
      /\ \A k \in 1 .. n : units[k] \in Units /\ arrays[k] \in Arrays
      /\ \A k \in 1 .. n : UnitHolds(ds, c, label, dict, units[k], arrays[k])
  BY DEF UnitsHold
<1>2. \A us \in Seq(Units) : Ch(us) \in Chunks
  BY DEF Chunks
<1>3. \A us : Ch(us).label = label /\ Ch(us).dict = dict /\ Ch(us).units = us
  OBVIOUS
<1>4. CASE cfg.tiny
  <2> DEFINE parts == [k \in 1 .. Len(arrays) |-> <<arrays[k]>>]
  <2>1. new = [k \in 1 .. n |-> Ch(<<units[k]>>)]
    BY <1>1, <1>4 DEF InChunks
  <2>2. parts \in Seq(Seq(Arrays)) /\ Len(parts) = Len(arrays) /\ FlattenSeq(parts) = arrays
    BY FlattenSingletons
  <2> HIDE DEF new, n, Ch
  <2>3. \A u \in Units : <<u>> \in Seq(Units)
    OBVIOUS
  <2>4. \A k \in 1 .. n : Ch(<<units[k]>>) \in Chunks
    BY <1>1, <1>2, <2>3
  <2>5. new \in Seq(Chunks) /\ Len(new) = n /\ \A k \in 1 .. n : new[k] = Ch(<<units[k]>>)
    BY <1>1, <2>1, <2>4
  <2>6. ASSUME NEW k \in 1 .. n
        PROVE  <<new[k], parts[k]>> \in Holding(ds, c)
    <3>1. parts[k] = <<arrays[k]>> /\ UnitHolds(ds, c, label, dict, units[k], arrays[k])
      BY <1>1
    <3> HIDE DEF parts
    <3>2. Len(parts[k]) = 1 /\ parts[k][1] = arrays[k] /\ parts[k] \in Seq(Arrays)
      BY <1>1, <3>1
    <3> DEFINE one == Ch(<<units[k]>>)
    <3>a. one.units = <<units[k]>> /\ one.label = label /\ one.dict = dict
      BY <1>3, Zenon
    <3>b. new[k] = one
      BY <2>5, Zenon
    <3> HIDE DEF one
    <3>3. new[k].units = <<units[k]>> /\ new[k].label = label /\ new[k].dict = dict
      BY <3>a, <3>b, Zenon
    <3>4. Len(new[k].units) = 1 /\ new[k].units[1] = units[k]
      BY <3>3
    <3>5. \A j \in 1 .. 1 : j = 1
      OBVIOUS
    <3>6. ChunkHolds(ds, c, new[k], parts[k])
      BY <3>1, <3>2, <3>3, <3>4, <3>5 DEF ChunkHolds
    <3>7. new[k] \in Chunks
      BY <2>4, <2>5
    <3>8. QED
      BY <3>2, <3>6, <3>7, HoldingIs
  <2> HIDE DEF parts
  <2>7. Paired(new, parts, Holding(ds, c))
    BY <1>1, <2>2, <2>5, <2>6 DEF Paired
  <2>8. QED
    BY <2>2, <2>5, <2>7 DEF new, NewHold
<1>5. CASE ~cfg.tiny /\ units = << >>
  <2>1. new = << >>
    BY <1>5 DEF InChunks
  <2>2. arrays = << >> /\ << >> \in Seq(Seq(Arrays)) /\ << >> \in Seq(Chunks)
    BY <1>1, <1>5
  <2>3. FlattenSeq(<< >>) = arrays
    BY <2>2, FlattenEmpty
  <2>4. Paired(<< >>, << >>, Holding(ds, c))
    BY DEF Paired
  <2> HIDE DEF new
  <2>5. QED
    BY <2>1, <2>2, <2>3, <2>4 DEF new, NewHold
<1>6. CASE ~cfg.tiny /\ units # << >>
  <2>1. new = <<Ch(units)>>
    BY <1>6 DEF InChunks
  <2>2. Ch(units) \in Chunks /\ FlattenSeq(<<arrays>>) = arrays
    BY <1>2, FlattenOne
  <2>3. Ch(units).units = units /\ Ch(units).label = label /\ Ch(units).dict = dict
    BY <1>3
  <2> HIDE DEF Ch, new
  <2>4. ChunkHolds(ds, c, Ch(units), arrays)
    BY <2>3 DEF ChunkHolds, UnitsHold
  <2>5. <<Ch(units), arrays>> \in Holding(ds, c)
    BY <2>2, <2>4, HoldingIs
  <2>6. Paired(<<Ch(units)>>, <<arrays>>, Holding(ds, c))
    BY <2>5, PairedOne
  <2>7. new \in Seq(Chunks) /\ <<arrays>> \in Seq(Seq(Arrays))
    BY <2>1, <2>2
  <2>8. NewHold(ds, c, new, arrays)
    BY <2>1, <2>2, <2>6, <2>7 DEF NewHold
  <2>9. QED
    BY <2>7, <2>8 DEF new
<1>7. QED
  BY <1>4, <1>5, <1>6

(* The chunks of column c hold these arrays; its encoder holds pend.       *)
ChunksHold(w, c, arrays) == NewHold(w.dicts, c, w.chunks[c], arrays)
PendHolds(w, c, pend) ==
  IF cfg.mode = "encoder"
  THEN w.enc[c].acc.label = "none" /\ ChunkHolds(w.dicts, c, w.enc[c].acc, pend)
  ELSE w.enc[c].buffered = pend

(* The arrays of column c, in the order they were written.                 *)
ColHolds(w, c, all) ==
  \E done \in Seq(Arrays), pend \in Seq(Arrays) :
    all = done \o pend /\ ChunksHold(w, c, done) /\ PendHolds(w, c, pend)

LEMMA HoldingStill ==
  ASSUME NEW ds \in Seq(Dicts), NEW es \in Seq(Dicts), Begins(es, ds), NEW c
  PROVE  Holding(ds, c) \subseteq Holding(es, c)
<1>1. \A chunk, part : ChunkHolds(ds, c, chunk, part) => ChunkHolds(es, c, chunk, part)
  BY ChunkHoldsStill
<1>2. QED
  BY <1>1 DEF Holding

LEMMA NewHoldStill ==
  ASSUME NEW ds \in Seq(Dicts), NEW es \in Seq(Dicts), Begins(es, ds), NEW c, NEW new, NEW arrays,
         NewHold(ds, c, new, arrays)
  PROVE  NewHold(es, c, new, arrays)
<1>1. Holding(ds, c) \subseteq Holding(es, c)
  BY HoldingStill
<1>2. \A parts : Paired(new, parts, Holding(ds, c)) => Paired(new, parts, Holding(es, c))
  BY <1>1, PairedWidens
<1>3. QED
  BY <1>2 DEF NewHold

LEMMA NewHoldConcat ==
  ASSUME NEW ds, NEW c, NEW a \in Seq(Chunks), NEW b \in Seq(Chunks), NEW x, NEW y,
         NewHold(ds, c, a, x), NewHold(ds, c, b, y)
  PROVE  NewHold(ds, c, a \o b, x \o y)
<1> DEFINE T == Seq(Arrays)
<1>1. PICK p \in Seq(T) : FlattenSeq(p) = x /\ Paired(a, p, Holding(ds, c))
  BY DEF NewHold
<1>2. PICK q \in Seq(T) : FlattenSeq(q) = y /\ Paired(b, q, Holding(ds, c))
  BY DEF NewHold
<1>3. FlattenSeq(p \o q) = x \o y
  BY <1>1, <1>2, FlattenConcat
<1> HIDE DEF T
<1>4. Paired(a \o b, p \o q, Holding(ds, c))
  BY <1>1, <1>2, PairedConcat
<1>5. p \o q \in Seq(T)
  OBVIOUS
<1>6. QED
  BY <1>3, <1>4, <1>5 DEF NewHold, T

(* Column c hands out chunks that hold new arrays.                         *)
LEMMA ChunksGrow ==
  ASSUME NEW w \in Writers, NEW v, NEW c \in Cols, NEW e, NEW ds, NEW new \in Seq(Chunks),
         Updated(w, v, c, e, ds, new), NEW arrays, NewHold(ds, c, new, arrays),
         NEW done, ChunksHold(w, c, done)
  PROVE  ChunksHold(v, c, done \o arrays)
<1>1. /\ v \in Writers /\ Begins(v.dicts, w.dicts) /\ v.dicts = ds
      /\ v.chunks[c] = w.chunks[c] \o new
  BY DEF OnlyCol, Updated
<1>2. w.dicts \in Seq(Dicts) /\ v.dicts \in Seq(Dicts) /\ w.chunks[c] \in Seq(Chunks)
  BY <1>1, WriterIs
<1>3. NewHold(v.dicts, c, w.chunks[c], done)
  BY <1>1, <1>2, NewHoldStill DEF ChunksHold
<1>4. NewHold(v.dicts, c, w.chunks[c] \o new, done \o arrays)
  BY <1>1, <1>2, <1>3, NewHoldConcat
<1>5. QED
  BY <1>1, <1>4 DEF ChunksHold

(* encode_dict_scope: everything buffered is handed out, in order.         *)
HandsOut(w, v, c, arrays) ==
  OnlyCol(w, v, c) /\ \A done : ChunksHold(w, c, done) => ChunksHold(v, c, done \o arrays)

LEMMA EncodeScopeIs ==
  ASSUME cfg \in Configs, NEW w \in Writers, NEW c \in Cols
  PROVE  /\ HandsOut(w, EncodeScope(w, c), c, w.enc[c].buffered)
         /\ EncodeScope(w, c).enc[c].buffered = << >>
         /\ EncodeScope(w, c).enc[c].acc = w.enc[c].acc
<1> DEFINE v == EncodeScope(w, c)
           arrays == w.enc[c].buffered
           old == Append(w.dicts, NewDict(ColType[c]))
           id == Len(old)
           all == ScopeAll(old[id], arrays)
           units == [k \in DOMAIN all.indices |-> IndexUnit(all.indices[k], DictLen(all.dict))]
           ds == [old EXCEPT ![id] = all.dict]
           new == InChunks("shared", id, units)
           e == BufOf(w, c, << >>)
           oldIf == IF w.enc[c].submitted = None THEN old ELSE w.dicts
           idIf == IF w.enc[c].submitted = None THEN Len(oldIf) ELSE w.enc[c].submitted
           At(o, i) == LET x == ScopeAll(o[i], arrays)
                       IN Emit([w EXCEPT !.enc[c].buffered = << >>, !.dicts = [o EXCEPT ![i] = x.dict]],
                               c, InChunks("shared", i,
                                 [k \in DOMAIN x.indices |-> IndexUnit(x.indices[k], DictLen(x.dict))]))
<1>1. /\ w.enc[c].submitted = None /\ arrays \in Seq(Arrays) /\ w.dicts \in Seq(Dicts)
      /\ w.enc[c].acc \in Chunks /\ Len(w.dicts) \in Nat
  BY WriterIs
<1>2. v = Emit([w EXCEPT !.enc[c].buffered = << >>, !.dicts = ds], c, new)
  <2>1. v = At(oldIf, idIf)
    BY Zenon DEF EncodeScope, ScopeAll, ScopeStep, FoldLeft, MapThenFoldSet
  <2>2. oldIf = old /\ idIf = id
    BY <1>1
  <2>3. At(old, id) = Emit([w EXCEPT !.enc[c].buffered = << >>, !.dicts = ds], c, new)
    BY Zenon
  <2> HIDE DEF v, At, oldIf, idIf
  <2>4. QED
    BY <2>1, <2>2, <2>3, Zenon
<1> HIDE DEF At, oldIf, idIf
<1>3. ColType[c] \in DictTypes
  BY ColumnsAssumption
<1>4. NewDict(ColType[c]) \in Dicts /\ NewDict(ColType[c]).datatype = ColType[c]
  BY <1>3, NewDictIs
<1>5. /\ old \in Seq(Dicts) /\ Len(old) = Len(w.dicts) + 1 /\ old[id] = NewDict(ColType[c])
      /\ \A i \in 1 .. Len(w.dicts) : old[i] = w.dicts[i]
  BY <1>1, <1>4, AppendIs
<1> HIDE DEF old
<1>6. /\ all \in ScopeStates /\ all.dict.datatype = ColType[c]
      /\ Len(all.indices) = Len(arrays)
      /\ \A k \in 1 .. Len(arrays) : Maps(all.dict.dictionary, all.indices[k], arrays[k])
  BY <1>1, <1>4, <1>5, ScopeAllIs
<1>7. all.dict \in Dicts /\ all.indices \in Seq(IndexArrays)
  BY <1>6 DEF ScopeStates
<1> HIDE DEF all
<1>8. /\ ds \in Seq(Dicts) /\ Len(ds) = id /\ ds[id] = all.dict /\ id \in Nat /\ id \in 1 .. Len(ds)
      /\ Begins(ds, w.dicts)
  <2>1. id \in 1 .. Len(old) /\ id \in Nat
    BY <1>1, <1>5
  <2>2. ds \in Seq(Dicts) /\ Len(ds) = Len(old) /\ ds[id] = all.dict
    BY <1>5, <1>7, <2>1
  <2>3. \A i \in 1 .. Len(w.dicts) : ds[i] = old[i]
    BY <1>1, <1>5, <2>1
  <2> HIDE DEF ds
  <2>4. Begins(ds, w.dicts)
    BY <1>1, <1>5, <2>2, <2>3 DEF Begins
  <2>5. QED
    BY <2>1, <2>2, <2>4
<1> DEFINE d == all.dict.dictionary
<1>9. d \in Seq(cfg.values) /\ DictLen(all.dict) = Len(d)
  BY <1>7, DictIs DEF DictLen
<1>10. ASSUME NEW k \in 1 .. Len(arrays)
       PROVE  /\ units[k] = Unit(IndexType(Len(d)), all.indices[k])
              /\ units[k] \in Units /\ SharedHolds(d, units[k], arrays[k])
  <2>1. k \in DOMAIN all.indices /\ all.indices[k] \in IndexArrays
    BY <1>6, <1>7
  <2>2. units[k] = IndexUnit(all.indices[k], Len(d))
    BY <1>9, <2>1
  <2> HIDE DEF units, d
  <2>3. Maps(d, all.indices[k], arrays[k])
    BY <1>6 DEF d
  <2>4. units[k] = Unit(IndexType(Len(d)), all.indices[k])
    BY <1>9, <2>1, <2>2, <2>3, IndexUnitIs DEF IndexArrays
  <2>5. all.indices[k] \in Seq(cfg.values \cup {Null} \cup Nat)
    BY <2>1, SeqWidens DEF IndexArrays
  <2>6. IndexType(Len(d)) \in DictTypes \cup IndexTypes
    BY IndexTypeIs
  <2>7. QED
    BY <2>3, <2>4, <2>5, <2>6, UnitIs DEF SharedHolds
<1>11. units \in Seq(Units) /\ Len(units) = Len(arrays)
  <2>1. DOMAIN all.indices = 1 .. Len(arrays) /\ Len(arrays) \in Nat
    BY <1>1, <1>6, <1>7
  <2>2. units \in [1 .. Len(arrays) -> Units]
    BY <1>10, <2>1
  <2> HIDE DEF units
  <2>3. QED
    BY <2>1, <2>2
<1> HIDE DEF units, d, arrays
<1>12. UnitsHold(ds, c, "shared", id, units, arrays)
  <2>1. \A k \in 1 .. Len(arrays) : UnitHolds(ds, c, "shared", id, units[k], arrays[k])
    BY <1>6, <1>8, <1>10 DEF UnitHolds, d
  <2> HIDE DEF ds, id
  <2>2. QED
    BY <1>11, <2>1 DEF UnitsHold
<1>13. "shared" \in Labels
  BY DEF Labels
<1> HIDE DEF ds, id
<1>14. new \in Seq(Chunks) /\ NewHold(ds, c, new, arrays)
  BY <1>1, <1>8, <1>11, <1>12, <1>13, InChunksHold
<1> HIDE DEF new, v
<1>15. v = With(w, c, e, ds, new)
  <2>1. Emit(SetBufDicts(w, c, << >>, ds), c, new) = With(w, c, e, ds, new)
    BY UpdatesAre
  <2>2. QED
    BY <1>2, <2>1, Zenon DEF SetBufDicts
<1>16. e = [acc |-> w.enc[c].acc, buffered |-> << >>, submitted |-> None]
  BY DEF BufOf
<1> HIDE DEF e
<1>17. e \in EncStates /\ e.buffered = << >> /\ e.acc = w.enc[c].acc
  <2>1. << >> \in Seq(Arrays) /\ w.enc[c].acc \in Chunks
    BY <1>1
  <2>2. e \in EncStates
    BY <1>16, <2>1, Zenon DEF EncStates
  <2>3. QED
    BY <1>16, <2>2
<1>18. Updated(w, v, c, e, ds, new)
  BY <1>8, <1>14, <1>15, <1>17, WithIs
<1>19. \A done : ChunksHold(w, c, done) => ChunksHold(v, c, done \o arrays)
  BY <1>14, <1>18, ChunksGrow
<1>20. OnlyCol(w, v, c) /\ v.enc[c] = e
  BY <1>18 DEF Updated
<1>21. HandsOut(w, v, c, arrays)
  BY <1>19, <1>20 DEF HandsOut
<1>22. v.enc[c].buffered = << >> /\ v.enc[c].acc = w.enc[c].acc
  BY <1>17, <1>20
<1>23. QED
  BY <1>21, <1>22 DEF v, arrays

-----------------------------------------------------------------------------
(***************************************************************************)
(* encode of the column's encoder.                                         *)
(***************************************************************************)
LEMMA EmptySeqs ==
  /\ << >> \in Seq(Arrays) /\ << >> \in Seq(Chunks) /\ << >> \in Seq(Units)
  /\ << >> \in Seq(Dicts) /\ << >> \in Seq(Seq(Arrays))
  OBVIOUS

LEMMA BeginsSelf ==
  ASSUME NEW T, NEW s \in Seq(T)
  PROVE  Begins(s, s)
  BY DEF Begins

LEMMA EmptyChunkIs ==
  ASSUME NEW label \in Labels
  PROVE  /\ EmptyChunk(label) \in Chunks /\ EmptyChunk(label).label = label
         /\ EmptyChunk(label).units = << >>
  BY EmptySeqs DEF EmptyChunk, Chunks, None

LEMMA NewHoldNone ==
  ASSUME NEW ds, NEW c
  PROVE  NewHold(ds, c, << >>, << >>)
<1>1. Paired(<< >>, << >>, Holding(ds, c))
  BY DEF Paired
<1>2. QED
  BY <1>1, EmptySeqs, FlattenEmpty DEF NewHold

LEMMA NewHoldOne ==
  ASSUME NEW ds, NEW c, NEW chunk \in Chunks, NEW part \in Seq(Arrays), ChunkHolds(ds, c, chunk, part)
  PROVE  NewHold(ds, c, <<chunk>>, part)
<1>1. <<chunk, part>> \in Holding(ds, c)
  BY HoldingIs
<1>2. Paired(<<chunk>>, <<part>>, Holding(ds, c))
  BY <1>1, PairedOne
<1>3. FlattenSeq(<<part>>) = part
  BY FlattenOne
<1>4. <<part>> \in Seq(Seq(Arrays))
  OBVIOUS
<1>5. QED
  BY <1>2, <1>3, <1>4 DEF NewHold

LEMMA EncOfIs ==
  ASSUME NEW w \in Writers, NEW c \in Cols
  PROVE  /\ \A a \in Chunks : /\ AccOf(w, c, a) \in EncStates /\ AccOf(w, c, a).acc = a
                              /\ AccOf(w, c, a).buffered = w.enc[c].buffered
         /\ \A b \in Seq(Arrays) : /\ BufOf(w, c, b) \in EncStates /\ BufOf(w, c, b).acc = w.enc[c].acc
                                   /\ BufOf(w, c, b).buffered = b
<1>1. w.enc[c].acc \in Chunks /\ w.enc[c].buffered \in Seq(Arrays)
  BY WriterIs
<1>2. ASSUME NEW a \in Chunks
      PROVE  /\ AccOf(w, c, a) \in EncStates /\ AccOf(w, c, a).acc = a
             /\ AccOf(w, c, a).buffered = w.enc[c].buffered
  BY <1>1, Zenon DEF AccOf, EncStates
<1>3. ASSUME NEW b \in Seq(Arrays)
      PROVE  /\ BufOf(w, c, b) \in EncStates /\ BufOf(w, c, b).acc = w.enc[c].acc
             /\ BufOf(w, c, b).buffered = b
  BY <1>1, Zenon DEF BufOf, EncStates
<1>4. QED
  BY <1>2, <1>3

LEMMA SetAccIs ==
  ASSUME NEW w \in Writers, NEW c \in Cols, NEW a \in Chunks, NEW new \in Seq(Chunks)
  PROVE  /\ Updated(w, SetAcc(w, c, a), c, AccOf(w, c, a), w.dicts, << >>)
         /\ Updated(w, Emit(SetAcc(w, c, a), c, new), c, AccOf(w, c, a), w.dicts, new)
<1>1. w.dicts \in Seq(Dicts) /\ Begins(w.dicts, w.dicts) /\ AccOf(w, c, a) \in EncStates
  BY WriterIs, BeginsSelf, EncOfIs
<1>2. \A x \in Seq(Chunks) : Updated(w, With(w, c, AccOf(w, c, a), w.dicts, x), c, AccOf(w, c, a), w.dicts, x)
  BY <1>1, WithIs
<1>3. /\ SetAcc(w, c, a) = With(w, c, AccOf(w, c, a), w.dicts, << >>)
      /\ Emit(SetAcc(w, c, a), c, new) = With(w, c, AccOf(w, c, a), w.dicts, new)
  BY UpdatesAre
<1>4. QED
  BY <1>2, <1>3, EmptySeqs

LEMMA SetBufIs ==
  ASSUME NEW w \in Writers, NEW c \in Cols, NEW b \in Seq(Arrays), NEW new \in Seq(Chunks)
  PROVE  /\ Updated(w, SetBuf(w, c, b), c, BufOf(w, c, b), w.dicts, << >>)
         /\ Updated(w, Emit(SetBuf(w, c, b), c, new), c, BufOf(w, c, b), w.dicts, new)
<1>1. w.dicts \in Seq(Dicts) /\ Begins(w.dicts, w.dicts) /\ BufOf(w, c, b) \in EncStates
  BY WriterIs, BeginsSelf, EncOfIs
<1>2. \A x \in Seq(Chunks) : Updated(w, With(w, c, BufOf(w, c, b), w.dicts, x), c, BufOf(w, c, b), w.dicts, x)
  BY <1>1, WithIs
<1>3. /\ SetBuf(w, c, b) = With(w, c, BufOf(w, c, b), w.dicts, << >>)
      /\ Emit(SetBuf(w, c, b), c, new) = With(w, c, BufOf(w, c, b), w.dicts, new)
  BY UpdatesAre
<1>4. QED
  BY <1>2, <1>3, EmptySeqs

(* An accumulated chunk with more units.                                   *)
Fuller(chunk, units) == [chunk EXCEPT !.units = @ \o units]

LEMMA FullerIs ==
  ASSUME NEW chunk \in Chunks, NEW units \in Seq(Units)
  PROVE  /\ Fuller(chunk, units) \in Chunks /\ Fuller(chunk, units).label = chunk.label
         /\ Fuller(chunk, units).dict = chunk.dict
         /\ Fuller(chunk, units).units = chunk.units \o units
         /\ chunk.units \in Seq(Units)
<1>1. chunk.units \in Seq(Units) /\ chunk.label \in Labels /\ chunk.dict \in Nat
  BY DEF Chunks
<1> DEFINE x == chunk.units \o units
<1>2. x \in Seq(Units)
  BY <1>1
<1>3. Fuller(chunk, units) = [chunk EXCEPT !.units = x]
  BY DEF Fuller
<1> HIDE DEF x
<1>4. Fuller(chunk, units) = [label |-> chunk.label, dict |-> chunk.dict, units |-> x]
  BY <1>3 DEF Chunks
<1>5. QED
  BY <1>1, <1>2, <1>4 DEF Chunks, x

LEMMA AccumulateIs ==
  ASSUME NEW w \in Writers, NEW c \in Cols, NEW units \in Seq(Units), NEW relabel \in Labels
  PROVE  LET v == Accumulate(w, c, units, relabel)
             chunk == Fuller(w.enc[c].acc, units)
         IN IF cfg.tiny
            THEN Updated(w, v, c, AccOf(w, c, EmptyChunk(relabel)), w.dicts, <<chunk>>)
            ELSE Updated(w, v, c, AccOf(w, c, chunk), w.dicts, << >>)
<1> DEFINE v == Accumulate(w, c, units, relabel)
           chunk == Fuller(w.enc[c].acc, units)
<1>1. v = IF cfg.tiny THEN Emit(SetAcc(w, c, EmptyChunk(relabel)), c, <<chunk>>) ELSE SetAcc(w, c, chunk)
  BY Zenon DEF Accumulate, Fuller, SetAcc
<1>2. chunk \in Chunks
  BY WriterIs, FullerIs
<1> HIDE DEF v, chunk
<1>3. <<chunk>> \in Seq(Chunks) /\ EmptyChunk(relabel) \in Chunks
  BY <1>2, EmptyChunkIs
<1>4. CASE cfg.tiny
  <2>1. v = Emit(SetAcc(w, c, EmptyChunk(relabel)), c, <<chunk>>)
    BY <1>1, <1>4
  <2>2. Updated(w, v, c, AccOf(w, c, EmptyChunk(relabel)), w.dicts, <<chunk>>)
    BY <1>3, <2>1, SetAccIs
  <2>3. QED
    BY <1>4, <2>2 DEF v, chunk
<1>5. CASE ~cfg.tiny
  <2>1. v = SetAcc(w, c, chunk)
    BY <1>1, <1>5
  <2>2. Updated(w, v, c, AccOf(w, c, chunk), w.dicts, << >>)
    BY <1>2, <2>1, SetAccIs, EmptySeqs
  <2>3. QED
    BY <1>5, <2>2 DEF v, chunk
<1>6. QED
  BY <1>4, <1>5

(* The first chunk of a local dictionary is one its decoder refuses: the   *)
(* indices are not UInt64.  n batches were written.                        *)
LocalFirst(chunk) ==
  /\ chunk.label = "local" /\ 2 <= Len(chunk.units)
  /\ chunk.units[2].type \in IndexTypes /\ chunk.units[2].type # "UInt64"
LocalHolds(w, c, n) ==
  /\ w.chunks[c] # << >> => n # 0 /\ LocalFirst(w.chunks[c][1])
  /\ w.chunks[c] = << >> =>
       /\ w.enc[c].acc.label = "local"
       /\ w.enc[c].acc.units = << >> => n = 0
       /\ w.enc[c].acc.units # << >> => n # 0 /\ LocalFirst(w.enc[c].acc)

(* v is w with one more array in column c.                                 *)
Takes(w, v, c, array) ==
  /\ OnlyCol(w, v, c)
  /\ cfg.mode # "local" => \A all : ColHolds(w, c, all) => ColHolds(v, c, Append(all, array))
  /\ cfg.mode = "local" /\ Len(array) < Widths[3] =>
       \A n \in Nat : LocalHolds(w, c, n) => LocalHolds(v, c, n + 1)

LEMMA ColHoldsTyped ==
  ASSUME NEW w, NEW c, NEW all, ColHolds(w, c, all)
  PROVE  all \in Seq(Arrays)
<1>1. PICK done \in Seq(Arrays), pend \in Seq(Arrays) : all = done \o pend
  BY DEF ColHolds
<1>2. QED
  BY <1>1

(* EncoderDictColEncoder                                                   *)
LEMMA EncodePlain ==
  ASSUME cfg \in Configs, cfg.mode = "encoder", NEW w \in Writers, NEW c \in Cols, NEW array \in Arrays
  PROVE  Takes(w, Accumulate(w, c, << Unit(ColType[c], array) >>, "none"), c, array)
<1> DEFINE u == Unit(ColType[c], array)
           v == Accumulate(w, c, <<u>>, "none")
           acc == w.enc[c].acc
           chunk == Fuller(acc, <<u>>)
<1>1. ColType[c] \in DictTypes /\ array \in Seq(cfg.values \cup {Null} \cup Nat) /\ "none" \in Labels
  <2>1. array \in Seq(cfg.values \cup {Null} \cup Nat)
    BY SeqWidens DEF Arrays
  <2>2. QED
    BY <2>1, ColumnsAssumption DEF Labels
<1>2. u \in Units /\ PlainHolds(c, u, array)
  BY <1>1, UnitIs DEF PlainHolds
<1> HIDE DEF u
<1>3. <<u>> \in Seq(Units) /\ Len(<<u>>) = 1 /\ <<u>>[1] = u
  BY <1>2
<1>4. acc \in Chunks /\ w.dicts \in Seq(Dicts)
  BY WriterIs
<1> HIDE DEF acc
<1>5. /\ chunk \in Chunks /\ chunk.label = acc.label /\ chunk.dict = acc.dict
      /\ chunk.units = acc.units \o <<u>> /\ acc.units \in Seq(Units)
  BY <1>3, <1>4, FullerIs
<1>6. IF cfg.tiny THEN Updated(w, v, c, AccOf(w, c, EmptyChunk("none")), w.dicts, <<chunk>>)
      ELSE Updated(w, v, c, AccOf(w, c, chunk), w.dicts, << >>)
  BY <1>1, <1>3, AccumulateIs DEF acc
<1> HIDE DEF v, chunk
<1>7. OnlyCol(w, v, c)
  BY <1>6 DEF Updated
<1>8. ASSUME NEW all, ColHolds(w, c, all)
      PROVE  ColHolds(v, c, Append(all, array))
  <2>1. PICK done \in Seq(Arrays), pend \in Seq(Arrays) :
          all = done \o pend /\ ChunksHold(w, c, done) /\ PendHolds(w, c, pend)
    BY <1>8 DEF ColHolds
  <2>2. acc.label = "none" /\ ChunkHolds(w.dicts, c, acc, pend)
    BY <2>1 DEF PendHolds, acc
  <2> DEFINE more == Append(pend, array)
  <2>3. /\ more \in Seq(Arrays) /\ Len(more) = Len(pend) + 1 /\ Len(pend) \in Nat
        /\ more[Len(pend) + 1] = array /\ \A k \in 1 .. Len(pend) : more[k] = pend[k]
    BY AppendIs
  <2> HIDE DEF more
  <2>4. ChunkHolds(w.dicts, c, chunk, more)
    <3> DEFINE n == Len(pend)
    <3>1. /\ Len(acc.units) = n
          /\ \A k \in 1 .. n : UnitHolds(w.dicts, c, acc.label, acc.dict, acc.units[k], pend[k])
      BY <2>2 DEF ChunkHolds
    <3> HIDE DEF n
    <3>2. /\ Len(chunk.units) = n + 1 /\ chunk.units[n + 1] = u
          /\ \A k \in 1 .. n : chunk.units[k] = acc.units[k]
      BY <1>3, <1>5, <3>1
    <3>3. UnitHolds(w.dicts, c, chunk.label, chunk.dict, u, array)
      BY <1>2, <1>5, <2>2 DEF UnitHolds
    <3>4. \A k \in 1 .. n + 1 : k = n + 1 \/ k \in 1 .. n
      BY <2>3 DEF n
    <3>5. QED
      BY <1>5, <2>3, <3>1, <3>2, <3>3, <3>4 DEF ChunkHolds, n
  <2>5. Append(all, array) = done \o more
    <3>1. done \o Append(pend, array) = Append(done \o pend, array)
      BY ConcatAppend
    <3>2. QED
      BY <2>1, <3>1 DEF more
  <2>6. CASE cfg.tiny
    <3>1. Updated(w, v, c, AccOf(w, c, EmptyChunk("none")), w.dicts, <<chunk>>)
      BY <1>6, <2>6
    <3>2. NewHold(w.dicts, c, <<chunk>>, more)
      BY <1>5, <2>3, <2>4, NewHoldOne
    <3>3. <<chunk>> \in Seq(Chunks)
      BY <1>5
    <3>4. ChunksHold(v, c, done \o more)
      BY <2>1, <3>1, <3>2, <3>3, ChunksGrow
    <3>5. EmptyChunk("none") \in Chunks /\ EmptyChunk("none").label = "none" /\ EmptyChunk("none").units = << >>
      BY <1>1, EmptyChunkIs
    <3>6. v.enc[c].acc = EmptyChunk("none")
      BY <3>1, <3>5, EncOfIs DEF Updated
    <3>7. PendHolds(v, c, << >>)
      BY <3>5, <3>6 DEF PendHolds, ChunkHolds
    <3>8. done \o more \in Seq(Arrays) /\ (done \o more) \o << >> = done \o more
      BY <2>3
    <3>9. QED
      BY <2>5, <3>4, <3>7, <3>8, EmptySeqs DEF ColHolds
  <2>7. CASE ~cfg.tiny
    <3>1. Updated(w, v, c, AccOf(w, c, chunk), w.dicts, << >>)
      BY <1>6, <2>7
    <3>2. ChunksHold(v, c, done \o << >>)
      BY <2>1, <3>1, NewHoldNone, ChunksGrow, EmptySeqs
    <3>3. done \o << >> = done
      OBVIOUS
    <3>4. v.enc[c].acc = chunk /\ v.dicts = w.dicts
      BY <1>5, <3>1, EncOfIs DEF Updated
    <3>5. PendHolds(v, c, more)
      BY <1>5, <2>2, <2>4, <3>4 DEF PendHolds
    <3>6. QED
      BY <2>3, <2>5, <3>2, <3>3, <3>5 DEF ColHolds
  <2>8. QED
    BY <2>6, <2>7
<1>9. QED
  BY <1>7, <1>8 DEF Takes, v, u

LEMMA OnlyColTwice ==
  ASSUME NEW w \in Writers, NEW v, NEW x, NEW c \in Cols, OnlyCol(w, v, c), OnlyCol(v, x, c)
  PROVE  OnlyCol(w, x, c)
<1>1. v \in Writers /\ x \in Writers /\ Begins(v.dicts, w.dicts) /\ Begins(x.dicts, v.dicts)
  BY DEF OnlyCol
<1>2. w.dicts \in Seq(Dicts) /\ v.dicts \in Seq(Dicts) /\ x.dicts \in Seq(Dicts)
  BY <1>1, WriterIs
<1>3. Begins(x.dicts, w.dicts)
  BY <1>1, <1>2 DEF Begins
<1>4. QED
  BY <1>1, <1>3 DEF OnlyCol

(* SharedDictColEncoder and GLBestEncoder buffer arrays.                   *)
LEMMA BufferTakes ==
  ASSUME cfg \in Configs, cfg.mode \notin {"encoder", "local"}, NEW w \in Writers, NEW c \in Cols,
         NEW array \in Arrays
  PROVE  Takes(w, Buffer(w, c, array), c, array) /\ Buffer(w, c, array) \in Writers
<1> DEFINE b == Append(w.enc[c].buffered, array)
           v == Buffer(w, c, array)
<1>1. w.enc[c].buffered \in Seq(Arrays)
  BY WriterIs
<1>2. b \in Seq(Arrays)
  BY <1>1, AppendIs
<1>3. v = SetBuf(w, c, b)
  BY Zenon DEF Buffer, SetBuf
<1> HIDE DEF v, b
<1>4. Updated(w, v, c, BufOf(w, c, b), w.dicts, << >>)
  BY <1>2, <1>3, SetBufIs, EmptySeqs
<1>5. OnlyCol(w, v, c) /\ v.enc[c].buffered = b
  BY <1>2, <1>4, EncOfIs DEF Updated
<1>6. ASSUME NEW all, ColHolds(w, c, all)
      PROVE  ColHolds(v, c, Append(all, array))
  <2>1. PICK done \in Seq(Arrays), pend \in Seq(Arrays) :
          all = done \o pend /\ ChunksHold(w, c, done) /\ PendHolds(w, c, pend)
    BY <1>6 DEF ColHolds
  <2>2. pend = w.enc[c].buffered
    BY <2>1 DEF PendHolds
  <2>3. ChunksHold(v, c, done \o << >>)
    BY <1>4, <2>1, NewHoldNone, ChunksGrow, EmptySeqs
  <2>4. done \o << >> = done
    OBVIOUS
  <2>5. PendHolds(v, c, b)
    BY <1>5 DEF PendHolds
  <2>6. done \o Append(pend, array) = Append(done \o pend, array)
    BY ConcatAppend
  <2>7. done \o b = Append(all, array)
    BY <2>1, <2>2, <2>6 DEF b
  <2>8. QED
    BY <1>2, <2>3, <2>4, <2>5, <2>7 DEF ColHolds
<1>7. QED
  BY <1>5, <1>6 DEF Takes, OnlyCol, v

(* What a column holds is the same after its scope is encoded.             *)
LEMMA ScopeKeeps ==
  ASSUME cfg \in Configs, cfg.mode # "encoder", NEW w \in Writers, NEW c \in Cols
  PROVE  /\ OnlyCol(w, EncodeScope(w, c), c) /\ EncodeScope(w, c).enc[c].buffered = << >>
         /\ \A all : ColHolds(w, c, all) => ColHolds(EncodeScope(w, c), c, all)
<1> DEFINE v == EncodeScope(w, c)
<1>1. HandsOut(w, v, c, w.enc[c].buffered) /\ v.enc[c].buffered = << >>
  BY EncodeScopeIs
<1> HIDE DEF v
<1>2. ASSUME NEW all, ColHolds(w, c, all)
      PROVE  ColHolds(v, c, all)
  <2>1. PICK done \in Seq(Arrays), pend \in Seq(Arrays) :
          all = done \o pend /\ ChunksHold(w, c, done) /\ PendHolds(w, c, pend)
    BY <1>2 DEF ColHolds
  <2>2. pend = w.enc[c].buffered
    BY <2>1 DEF PendHolds
  <2>3. ChunksHold(v, c, all)
    BY <1>1, <2>1, <2>2 DEF HandsOut
  <2>4. all \in Seq(Arrays) /\ all \o << >> = all
    BY <2>1
  <2>5. PendHolds(v, c, << >>)
    BY <1>1 DEF PendHolds
  <2>6. QED
    BY <2>3, <2>4, <2>5, EmptySeqs DEF ColHolds
<1>3. QED
  BY <1>1, <1>2 DEF HandsOut, v

LEMMA SharedTakes ==
  ASSUME cfg \in Configs, cfg.mode \notin {"encoder", "local"}, NEW w \in Writers, NEW c \in Cols,
         NEW array \in Arrays
  PROVE  Takes(w, EncodeShared(w, c, array), c, array)
<1> DEFINE b == Buffer(w, c, array)
           v == EncodeShared(w, c, array)
<1>1. Takes(w, b, c, array) /\ b \in Writers
  BY BufferTakes
<1>2. v = EncodeScope(b, c) \/ v = b
  BY DEF EncodeShared
<1> HIDE DEF b, v
<1>3. CASE v = EncodeScope(b, c)
  <2>1. OnlyCol(b, v, c) /\ \A all : ColHolds(b, c, all) => ColHolds(v, c, all)
    BY <1>1, <1>3, ScopeKeeps
  <2>2. OnlyCol(w, v, c)
    BY <1>1, <2>1, OnlyColTwice DEF Takes
  <2>3. QED
    BY <1>1, <2>1, <2>2 DEF Takes, v
<1>4. CASE v = b
  BY <1>1, <1>4 DEF v
<1>5. QED
  BY <1>2, <1>3, <1>4

(* DictColEncoder                                                          *)
LEMMA LocalTakes ==
  ASSUME cfg \in Configs, cfg.mode = "local", NEW w \in Writers, NEW c \in Cols, NEW array \in Arrays
  PROVE  Takes(w, EncodeLocal(w, c, array), c, array)
<1> DEFINE d == LocalDict(array)
           values == DictArray([datatype |-> ColType[c], dictionary |-> d.dictionary])
           u1 == Unit(values.type, values.rows)
           u2 == IndexUnit(d.indices, Len(d.dictionary))
           units == <<u1, u2>>
           v == EncodeLocal(w, c, array)
           acc == w.enc[c].acc
           chunk == Fuller(acc, units)
<1>1. v = Accumulate(w, c, units, "local")
  BY Zenon DEF EncodeLocal
<1>2. << >> \in Seq(cfg.values) /\ IsInjective(<< >>) /\ array \in Seq(cfg.values \cup {Null}) /\ Len(<< >>) = 0
  BY DEF IsInjective, Arrays
<1>3. /\ d.dictionary \in Seq(cfg.values) /\ Len(d.dictionary) <= 0 + Len(array)
      /\ d.indices \in Seq(Nat \cup {Null}) /\ Maps(d.dictionary, d.indices, array)
  BY <1>2, ExtendIs DEF LocalDict
<1>4. u2 = Unit(IndexType(Len(d.dictionary)), d.indices)
  BY <1>3, IndexUnitIs
<1>5. ColType[c] \in DictTypes
  BY ColumnsAssumption
<1>6. values.type \in DictTypes /\ values.rows = d.dictionary
  BY <1>5 DEF DictArray, DictTypes
<1> HIDE DEF d, values
<1>7. /\ d.dictionary \in Seq(cfg.values \cup {Null} \cup Nat)
      /\ d.indices \in Seq(cfg.values \cup {Null} \cup Nat)
  BY <1>3, SeqWidens
<1>8. u1 \in Units
  BY <1>6, <1>7, UnitIs
<1>9. u2 \in Units /\ u2.type = IndexType(Len(d.dictionary))
  <2>1. IndexType(Len(d.dictionary)) \in DictTypes \cup IndexTypes
    BY IndexTypeIs
  <2> HIDE DEF u2
  <2>2. QED
    BY <1>4, <1>7, <2>1, UnitIs
<1>10. ASSUME Len(array) < Widths[3]
       PROVE  u2.type \in IndexTypes /\ u2.type # "UInt64"
  <2>1. Len(d.dictionary) \in Nat /\ Len(array) \in Nat
    BY <1>2, <1>3
  <2>2. Len(d.dictionary) < Widths[3]
    BY <1>3, <1>10, <2>1, WidthsAre
  <2> HIDE DEF u2
  <2>3. QED
    BY <1>9, <2>1, <2>2, IndexTypeIs
<1> HIDE DEF u1, u2
<1>11. units \in Seq(Units) /\ 2 <= Len(units) /\ units[2] = u2
  BY <1>8, <1>9
<1>12. acc \in Chunks /\ "local" \in Labels
  BY WriterIs DEF Labels
<1> HIDE DEF units
<1>13. chunk \in Chunks /\ chunk.label = acc.label /\ chunk.units = acc.units \o units /\ acc.units \in Seq(Units)
  BY <1>11, <1>12, FullerIs
<1>14. IF cfg.tiny THEN Updated(w, v, c, AccOf(w, c, EmptyChunk("local")), w.dicts, <<chunk>>)
       ELSE Updated(w, v, c, AccOf(w, c, chunk), w.dicts, << >>)
  BY <1>1, <1>11, <1>12, AccumulateIs
<1> HIDE DEF v, acc, chunk
<1>15. OnlyCol(w, v, c)
  BY <1>14 DEF Updated
<1>16. ASSUME Len(array) < Widths[3], NEW n \in Nat, LocalHolds(w, c, n)
       PROVE  LocalHolds(v, c, n + 1)
  <2>0. w.chunks[c] \in Seq(Chunks) /\ n + 1 # 0
    BY WriterIs
  <2>1. /\ w.chunks[c] # << >> => LocalFirst(w.chunks[c][1])
        /\ w.chunks[c] = << >> => acc.label = "local" /\ (acc.units # << >> => LocalFirst(acc))
    BY <1>16 DEF LocalHolds, acc
  <2>2. w.chunks[c] = << >> => LocalFirst(chunk) /\ chunk.units # << >>
    <3>1. CASE acc.units = << >>
      <4>1. chunk.units = units
        BY <1>11, <1>13, <3>1
      <4>2. QED
        <5>1. u2.type \in IndexTypes /\ u2.type # "UInt64"
          BY <1>10, <1>16
        <5>2. 2 <= Len(chunk.units) /\ chunk.units[2] = u2 /\ chunk.units # << >>
          BY <1>11, <4>1
        <5>3. w.chunks[c] = << >> => chunk.label = "local"
          BY <1>13, <2>1
        <5>4. QED
          BY <5>1, <5>2, <5>3 DEF LocalFirst
    <3>2. CASE acc.units # << >> /\ w.chunks[c] = << >>
      <4>1. LocalFirst(acc)
        BY <2>1, <3>2
      <4>2. 2 <= Len(chunk.units) /\ chunk.units[2] = acc.units[2]
        <5>1. 2 <= Len(acc.units) /\ Len(acc.units) \in Nat
          BY <1>13, <4>1 DEF LocalFirst
        <5>2. /\ Len(acc.units \o units) = Len(acc.units) + Len(units) /\ Len(units) \in Nat
              /\ \A k \in 1 .. Len(acc.units) : (acc.units \o units)[k] = acc.units[k]
          BY <1>11, <1>13, Concat
        <5>3. 2 \in 1 .. Len(acc.units) /\ 2 <= Len(acc.units) + Len(units)
          BY <5>1, <5>2
        <5>4. QED
          BY <1>13, <5>2, <5>3
      <4>3. LocalFirst(chunk)
        BY <1>13, <4>1, <4>2 DEF LocalFirst
      <4>4. QED
        BY <4>2, <4>3
    <3>3. QED
      BY <3>1, <3>2
  <2>3. CASE cfg.tiny
    <3>1. v.chunks[c] = w.chunks[c] \o <<chunk>>
      BY <1>14, <2>3 DEF Updated
    <3>2. v.chunks[c] # << >> /\ v.chunks[c][1] = IF w.chunks[c] = << >> THEN chunk ELSE w.chunks[c][1]
      BY <1>13, <2>0, <3>1
    <3>3. QED
      BY <2>0, <2>1, <2>2, <3>2 DEF LocalHolds
  <2>4. CASE ~cfg.tiny
    <3>1. v.chunks[c] = w.chunks[c] \o << >> /\ v.enc[c].acc = chunk
      BY <1>13, <1>14, <2>4, EncOfIs DEF Updated
    <3>2. v.chunks[c] = w.chunks[c]
      BY <2>0, <3>1
    <3>3. w.chunks[c] = << >> => chunk.label = "local"
      BY <1>13, <2>1
    <3>4. QED
      BY <2>0, <2>1, <2>2, <3>1, <3>2, <3>3 DEF LocalHolds
  <2>5. QED
    BY <2>3, <2>4
<1>17. QED
  BY <1>15, <1>16 DEF Takes, v

LEMMA ModeIs ==
  ASSUME cfg \in Configs
  PROVE  cfg.mode \in {"encoder", "local", "glbest", "fixed", "global", "multicol"}
  BY CfgIs DEF ScopeModes

LEMMA EncodeTakes ==
  ASSUME cfg \in Configs, NEW w \in Writers, NEW c \in Cols, NEW array \in Arrays
  PROVE  Takes(w, Encode(w, c, array), c, array)
<1>1. CASE cfg.mode = "encoder"
  <2>1. Encode(w, c, array) = Accumulate(w, c, << Unit(ColType[c], array) >>, "none")
    BY <1>1 DEF Encode, ScopeModes
  <2>2. QED
    BY <1>1, <2>1, EncodePlain
<1>2. CASE cfg.mode = "local"
  <2>1. Encode(w, c, array) = EncodeLocal(w, c, array)
    BY <1>2 DEF Encode, ScopeModes
  <2>2. QED
    BY <1>2, <2>1, LocalTakes
<1>3. CASE cfg.mode = "glbest"
  <2>1. Encode(w, c, array) = Buffer(w, c, array)
    BY <1>3 DEF Encode, ScopeModes
  <2>2. QED
    BY <1>3, <2>1, BufferTakes
<1>4. CASE cfg.mode \in {"fixed", "global", "multicol"}
  <2>1. Encode(w, c, array) = EncodeShared(w, c, array)
    BY <1>4 DEF Encode, ScopeModes
  <2>2. QED
    BY <1>4, <2>1, SharedTakes
<1>5. QED
  BY <1>1, <1>2, <1>3, <1>4, ModeIs

-----------------------------------------------------------------------------
(***************************************************************************)
(* finish of the column's encoder: nothing is left in it.                  *)
(***************************************************************************)
Idle(w, c) ==
  IF cfg.mode \in {"encoder", "local"} THEN w.enc[c].acc.units = << >> ELSE w.enc[c].buffered = << >>

Keeps(w, v, c) ==
  /\ OnlyCol(w, v, c) /\ Idle(v, c)
  /\ cfg.mode # "local" => \A all : ColHolds(w, c, all) => ColHolds(v, c, all)
  /\ cfg.mode = "local" => \A n \in Nat : LocalHolds(w, c, n) => LocalHolds(v, c, n)

LEMMA OnlyColSelf ==
  ASSUME NEW w \in Writers, NEW c \in Cols
  PROVE  OnlyCol(w, w, c)
  BY WriterIs, BeginsSelf DEF OnlyCol

LEMMA TakeRestKeeps ==
  ASSUME cfg \in Configs, cfg.mode \in {"encoder", "local"}, NEW w \in Writers, NEW c \in Cols
  PROVE  Keeps(w, TakeRest(w, c), c)
<1> DEFINE v == TakeRest(w, c)
           acc == w.enc[c].acc
           none == EmptyChunk("none")
<1>1. v = IF acc.units = << >> THEN w ELSE Emit(SetAcc(w, c, none), c, <<acc>>)
  BY Zenon DEF TakeRest, SetAcc
<1>2. acc \in Chunks /\ "none" \in Labels /\ w.dicts \in Seq(Dicts) /\ w.chunks[c] \in Seq(Chunks)
  BY WriterIs DEF Labels
<1>3. none \in Chunks /\ none.label = "none" /\ none.units = << >>
  BY <1>2, EmptyChunkIs
<1> HIDE DEF v, none
<1>4. CASE acc.units = << >>
  <2>1. v = w
    BY <1>1, <1>4
  <2>2. Idle(w, c)
    BY <1>4 DEF Idle
  <2>3. Keeps(w, w, c)
    BY <2>2, OnlyColSelf DEF Keeps
  <2>4. QED
    BY <2>1, <2>3 DEF v
<1>5. CASE acc.units # << >>
  <2>0. <<acc>> \in Seq(Chunks)
    BY <1>2
  <2>1. Updated(w, v, c, AccOf(w, c, none), w.dicts, <<acc>>)
    BY <1>1, <1>3, <1>5, <2>0, SetAccIs
  <2> HIDE DEF acc
  <2>2. OnlyCol(w, v, c) /\ v.enc[c].acc = none /\ v.chunks[c] = w.chunks[c] \o <<acc>>
    BY <1>3, <2>1, EncOfIs DEF Updated
  <2>3. Idle(v, c)
    BY <1>3, <2>2 DEF Idle
  <2>4. ASSUME cfg.mode # "local", NEW all, ColHolds(w, c, all)
        PROVE  ColHolds(v, c, all)
    <3>0. cfg.mode = "encoder"
      BY <2>4
    <3>1. PICK done \in Seq(Arrays), pend \in Seq(Arrays) :
            all = done \o pend /\ ChunksHold(w, c, done) /\ PendHolds(w, c, pend)
      BY <2>4 DEF ColHolds
    <3>2. ChunkHolds(w.dicts, c, acc, pend)
      BY <3>0, <3>1 DEF PendHolds, acc
    <3>3. NewHold(w.dicts, c, <<acc>>, pend)
      BY <1>2, <3>2, NewHoldOne DEF acc
    <3>4. ChunksHold(v, c, all)
      BY <2>0, <2>1, <3>1, <3>3, ChunksGrow
    <3>5. PendHolds(v, c, << >>)
      BY <1>3, <2>2, <3>0 DEF PendHolds, ChunkHolds
    <3>6. all \in Seq(Arrays) /\ all \o << >> = all
      BY <3>1
    <3>7. QED
      BY <3>4, <3>5, <3>6, EmptySeqs DEF ColHolds
  <2>5. ASSUME NEW n \in Nat, LocalHolds(w, c, n)
        PROVE  LocalHolds(v, c, n)
    <3>1. v.chunks[c] # << >> /\ v.chunks[c][1] = IF w.chunks[c] = << >> THEN acc ELSE w.chunks[c][1]
      BY <1>2, <2>0, <2>2
    <3>2. n # 0 /\ LocalFirst(v.chunks[c][1])
      BY <1>5, <2>5, <3>1 DEF LocalHolds, acc
    <3>3. QED
      BY <3>1, <3>2 DEF LocalHolds
  <2>6. QED
    BY <2>2, <2>3, <2>4, <2>5 DEF Keeps, v
<1>6. QED
  BY <1>4, <1>5

LEMMA ScopeEnds ==
  ASSUME cfg \in Configs, cfg.mode \notin {"encoder", "local"}, NEW w \in Writers, NEW c \in Cols
  PROVE  Keeps(w, EncodeScope(w, c), c)
  BY ScopeKeeps DEF Keeps, Idle

LEMMA IdleKeeps ==
  ASSUME NEW w \in Writers, NEW c \in Cols, Idle(w, c)
  PROVE  Keeps(w, w, c)
  BY OnlyColSelf DEF Keeps

(* GLBestEncoder                                                           *)
LEMMA FinishBestKeeps ==
  ASSUME cfg \in Configs, cfg.mode \notin {"encoder", "local"}, NEW w \in Writers, NEW c \in Cols,
         NEW global
  PROVE  Keeps(w, FinishBest(w, c, global), c)
<1> DEFINE v == FinishBest(w, c, global)
           arrays == w.enc[c].buffered
           units == [k \in DOMAIN arrays |-> PlainUnit(ColType[c], arrays[k])]
           new == InChunks("none", None, units)
<1>1. (v = w /\ arrays = << >>) \/ v = EncodeScope(w, c) \/ v = Emit(SetBuf(w, c, << >>), c, new)
  BY Zenon DEF FinishBest, SetBuf
<1>2. arrays \in Seq(Arrays) /\ ColType[c] \in DictTypes /\ "none" \in Labels /\ None \in Nat
  BY WriterIs, ColumnsAssumption DEF Labels, None
<1> HIDE DEF v
<1>3. CASE v = w /\ arrays = << >>
  BY <1>3, IdleKeeps DEF Idle, v
<1>4. CASE v = EncodeScope(w, c)
  BY <1>4, ScopeEnds DEF v
<1>5. CASE v = Emit(SetBuf(w, c, << >>), c, new)
  <2> HIDE DEF arrays
  <2>1. Len(arrays) \in Nat /\ DOMAIN arrays = 1 .. Len(arrays) /\ \A k \in 1 .. Len(arrays) : arrays[k] \in Arrays
    BY <1>2
  <2>2. ASSUME NEW k \in 1 .. Len(arrays)
        PROVE  units[k] \in Units /\ UnitHolds(w.dicts, c, "none", None, units[k], arrays[k])
    <3>1. arrays[k] \in Seq(cfg.values \cup {Null} \cup Nat)
      BY <2>1, SeqWidens DEF Arrays
    <3>2. units[k] = PlainUnit(ColType[c], arrays[k])
      BY <2>1
    <3> HIDE DEF units
    <3>3. QED
      BY <1>2, <3>1, <3>2, UnitIs DEF UnitHolds, PlainHolds
  <2>3. units \in Seq(Units) /\ Len(units) = Len(arrays)
    <3>1. units \in [1 .. Len(arrays) -> Units]
      BY <2>1, <2>2
    <3> HIDE DEF units
    <3>2. QED
      BY <2>1, <3>1
  <2> HIDE DEF units
  <2>4. UnitsHold(w.dicts, c, "none", None, units, arrays)
    BY <2>2, <2>3 DEF UnitsHold
  <2>5. new \in Seq(Chunks) /\ NewHold(w.dicts, c, new, arrays)
    BY <1>2, <2>3, <2>4, InChunksHold
  <2> HIDE DEF new
  <2>6. Updated(w, v, c, BufOf(w, c, << >>), w.dicts, new)
    BY <1>5, <2>5, SetBufIs, EmptySeqs
  <2>7. OnlyCol(w, v, c) /\ v.enc[c].buffered = << >>
    <3>1. << >> \in Seq(Arrays)
      BY EmptySeqs
    <3>2. BufOf(w, c, << >>).buffered = << >>
      BY <3>1, EncOfIs
    <3>3. OnlyCol(w, v, c) /\ v.enc[c] = BufOf(w, c, << >>)
      BY <2>6 DEF Updated
    <3>4. QED
      BY <3>2, <3>3
  <2>8. ASSUME NEW all, ColHolds(w, c, all)
        PROVE  ColHolds(v, c, all)
    <3>1. PICK done \in Seq(Arrays), pend \in Seq(Arrays) :
            all = done \o pend /\ ChunksHold(w, c, done) /\ PendHolds(w, c, pend)
      BY <2>8 DEF ColHolds
    <3>2. pend = arrays
      BY <3>1 DEF PendHolds, arrays
    <3>3. ChunksHold(v, c, all)
      BY <2>5, <2>6, <3>1, <3>2, ChunksGrow
    <3>4. PendHolds(v, c, << >>)
      BY <2>7 DEF PendHolds
    <3>5. all \in Seq(Arrays) /\ all \o << >> = all
      BY <3>1
    <3>6. QED
      BY <3>3, <3>4, <3>5, EmptySeqs DEF ColHolds
  <2>9. QED
    BY <2>7, <2>8 DEF Keeps, Idle, v
<1>6. QED
  BY <1>1, <1>3, <1>4, <1>5

LEMMA FinishColKeeps ==
  ASSUME cfg \in Configs, NEW w \in Writers, NEW c \in Cols, NEW global
  PROVE  Keeps(w, FinishCol(w, c, global), c)
<1>1. CASE cfg.mode \in {"encoder", "local"}
  <2>1. FinishCol(w, c, global) = TakeRest(w, c)
    BY <1>1 DEF FinishCol, ScopeModes
  <2>2. QED
    BY <1>1, <2>1, TakeRestKeeps
<1>2. CASE cfg.mode = "glbest"
  <2>1. FinishCol(w, c, global) = FinishBest(w, c, global[c])
    BY <1>2 DEF FinishCol, ScopeModes
  <2>2. QED
    BY <1>2, <2>1, FinishBestKeeps
<1>3. CASE cfg.mode \in {"fixed", "global", "multicol"}
  <2>1. FinishCol(w, c, global) = IF w.enc[c].buffered = << >> THEN w ELSE EncodeScope(w, c)
    BY <1>3 DEF FinishCol, ScopeModes
  <2>2. CASE w.enc[c].buffered = << >>
    BY <1>3, <2>1, <2>2, IdleKeeps DEF Idle
  <2>3. CASE w.enc[c].buffered # << >>
    BY <1>3, <2>1, <2>3, ScopeEnds
  <2>4. QED
    BY <2>2, <2>3
<1>4. QED
  BY <1>1, <1>2, <1>3, ModeIs

-----------------------------------------------------------------------------
(***************************************************************************)
(* All columns, one after the other: what a step does to one column the    *)
(* steps of the others leave alone.                                        *)
(***************************************************************************)
Apart(w, v, x) ==
  /\ w \in Writers /\ v \in Writers /\ Begins(v.dicts, w.dicts)
  /\ v.enc[x] = w.enc[x] /\ v.chunks[x] = w.chunks[x]

(* Column x was given these arrays.                                        *)
Has(w, x, all) ==
  /\ all \in Seq(Arrays)
  /\ cfg.mode # "local" => ColHolds(w, x, all)
  /\ cfg.mode = "local" /\ cfg.rows < Widths[3] => LocalHolds(w, x, Len(all))

(* Other columns keep what they hold.                                      *)
LEMMA ApartHas ==
  ASSUME NEW w, NEW v, NEW x \in Cols, Apart(w, v, x)
  PROVE  /\ \A all : Has(w, x, all) => Has(v, x, all)
         /\ Idle(w, x) => Idle(v, x)
<1>1. /\ w \in Writers /\ v \in Writers /\ Begins(v.dicts, w.dicts)
      /\ v.enc[x] = w.enc[x] /\ v.chunks[x] = w.chunks[x]
  BY DEF Apart
<1>2. w.dicts \in Seq(Dicts) /\ v.dicts \in Seq(Dicts)
  BY <1>1, WriterIs
<1>3. \A arrays : ChunksHold(w, x, arrays) => ChunksHold(v, x, arrays)
  BY <1>1, <1>2, NewHoldStill DEF ChunksHold
<1>4. \A chunk, part : ChunkHolds(w.dicts, x, chunk, part) => ChunkHolds(v.dicts, x, chunk, part)
  BY <1>1, <1>2, ChunkHoldsStill
<1>5. \A pend : PendHolds(w, x, pend) => PendHolds(v, x, pend)
  BY <1>1, <1>4 DEF PendHolds
<1>6. \A all : ColHolds(w, x, all) => ColHolds(v, x, all)
  BY <1>3, <1>5 DEF ColHolds
<1>7. \A n : LocalHolds(w, x, n) => LocalHolds(v, x, n)
  BY <1>1 DEF LocalHolds
<1>8. Idle(w, x) => Idle(v, x)
  BY <1>1 DEF Idle
<1>9. QED
  BY <1>6, <1>7, <1>8 DEF Has

LEMMA ApartSteps ==
  /\ \A w \in Writers, x \in Cols : Apart(w, w, x)
  /\ \A u, v, w, x : Apart(u, v, x) /\ Apart(v, w, x) => Apart(u, w, x)
<1>1. ASSUME NEW w \in Writers, NEW x \in Cols PROVE Apart(w, w, x)
  BY WriterIs, BeginsSelf DEF Apart
<1>2. ASSUME NEW u, NEW v, NEW w, NEW x, Apart(u, v, x), Apart(v, w, x)
      PROVE  Apart(u, w, x)
  <2>1. /\ u \in Writers /\ w \in Writers /\ v \in Writers
        /\ w.enc[x] = u.enc[x] /\ w.chunks[x] = u.chunks[x]
        /\ Begins(v.dicts, u.dicts) /\ Begins(w.dicts, v.dicts)
    BY <1>2 DEF Apart
  <2>2. 1 \in Cols
    BY ColumnsAssumption DEF Cols
  <2>3. Len(u.dicts) \in Nat /\ Len(v.dicts) \in Nat /\ Len(w.dicts) \in Nat
    BY <2>1, <2>2, WriterIs
  <2>4. Begins(w.dicts, u.dicts)
    BY <2>1, <2>3 DEF Begins
  <2>5. QED
    BY <2>1, <2>4 DEF Apart
<1>3. QED
  BY <1>1, <1>2

(* h[k] is the writer after k columns.                                     *)
LEMMA ByColumns ==
  ASSUME NEW h, h[0] \in Writers,
         \A c \in Cols : h[c - 1] \in Writers => OnlyCol(h[c - 1], h[c], c)
  PROVE  \A x \in Cols : /\ Apart(h[0], h[x - 1], x) /\ OnlyCol(h[x - 1], h[x], x)
                         /\ Apart(h[x], h[NumCols], x)
<1>0. NumCols \in Nat /\ Cols = 1 .. NumCols
  BY ColumnsAssumption DEF Cols
<1> DEFINE S == {k \in Nat : k <= NumCols =>
                   /\ h[k] \in Writers
                   /\ \A x \in Cols : x > k => Apart(h[0], h[k], x)
                   /\ \A x \in Cols : x <= k => Apart(h[x], h[k], x)}
<1>1. 0 \in S
  <2>1. \A x \in Cols : x > 0 /\ ~ (x <= 0)
    BY <1>0
  <2>2. QED
    BY <2>1, ApartSteps
<1>2. ASSUME NEW k \in Nat, k \in S
      PROVE  k + 1 \in S
  <2> SUFFICES ASSUME k + 1 <= NumCols
               PROVE  /\ h[k + 1] \in Writers
                      /\ \A x \in Cols : x > k + 1 => Apart(h[0], h[k + 1], x)
                      /\ \A x \in Cols : x <= k + 1 => Apart(h[x], h[k + 1], x)
    OBVIOUS
  <2>1. k + 1 \in Cols /\ k <= NumCols /\ (k + 1) - 1 = k
    BY <1>0
  <2>2. /\ h[k] \in Writers
        /\ \A x \in Cols : x > k => Apart(h[0], h[k], x)
        /\ \A x \in Cols : x <= k => Apart(h[x], h[k], x)
    BY <1>2, <2>1
  <2>3. OnlyCol(h[k], h[k + 1], k + 1)
    BY <2>1, <2>2
  <2>4. h[k + 1] \in Writers
    BY <2>3 DEF OnlyCol
  <2>5. ASSUME NEW x \in Cols, x # k + 1
        PROVE  Apart(h[k], h[k + 1], x)
    BY <2>2, <2>3, <2>5 DEF Apart, OnlyCol
  <2>6. ASSUME NEW x \in Cols, x > k + 1
        PROVE  Apart(h[0], h[k + 1], x)
    <3>1. x > k /\ x # k + 1
      BY <1>0, <2>6
    <3>2. QED
      BY <2>2, <2>5, <3>1, ApartSteps
  <2>7. ASSUME NEW x \in Cols, x <= k + 1
        PROVE  Apart(h[x], h[k + 1], x)
    <3>1. x = k + 1 \/ (x <= k /\ x # k + 1)
      BY <1>0, <2>7
    <3>2. CASE x = k + 1
      BY <2>1, <2>4, <3>2, ApartSteps
    <3>3. CASE x <= k /\ x # k + 1
      BY <2>2, <2>5, <3>3, ApartSteps
    <3>4. QED
      BY <3>1, <3>2, <3>3
  <2>8. QED
    BY <2>4, <2>6, <2>7
<1>3. \A k \in Nat : k \in S
  <2> HIDE DEF S
  <2>1. QED
    BY <1>1, <1>2, AllNaturals
<1>4. ASSUME NEW x \in Cols
      PROVE  /\ Apart(h[0], h[x - 1], x) /\ OnlyCol(h[x - 1], h[x], x)
             /\ Apart(h[x], h[NumCols], x)
  <2>1. x \in Nat /\ x - 1 \in Nat /\ x - 1 <= NumCols /\ x > x - 1 /\ x <= NumCols
    BY <1>0
  <2>2. x - 1 \in S /\ NumCols \in S
    BY <1>0, <1>3, <2>1
  <2>3. h[x - 1] \in Writers /\ Apart(h[0], h[x - 1], x)
    BY <2>1, <2>2
  <2>4. Apart(h[x], h[NumCols], x)
    BY <1>0, <2>1, <2>2
  <2>5. QED
    BY <2>3, <2>4
<1>5. QED
  BY <1>4

EncodeAll(w, batch) ==
  FoldLeft(LAMBDA v, c : Encode(v, c, batch[c]), w, [c \in Cols |-> c])

LEMMA EncodeFold ==
  ASSUME cfg \in Configs, NEW w \in Writers,
         NEW batch \in [Cols -> Arrays]
  PROVE  \E h : /\ h[0] = w
                /\ \A c \in Cols : h[c] = Encode(h[c - 1], c, batch[c])
                /\ \A c \in Cols : h[c - 1] \in Writers => OnlyCol(h[c - 1], h[c], c)
                /\ EncodeAll(w, batch) = h[NumCols]
<1> DEFINE n == NumCols
           ids == [c \in Cols |-> c]
           F == [p \in Writers \X Cols |-> Encode(p[1], p[2], batch[p[2]])]
<1>1. n \in Nat /\ Cols = 1 .. n /\ DOMAIN ids = 1 .. n /\ \A i \in 1 .. n : ids[i] = i /\ ids[i] \in Cols
  BY ColumnsAssumption DEF Cols
<1>2. \A v \in Writers : \A c \in Cols : OnlyCol(v, Encode(v, c, batch[c]), c) /\ Encode(v, c, batch[c]) \in Writers
  BY EncodeTakes DEF Takes, OnlyCol
<1> HIDE DEF n, ids
<1>3. F \in [Writers \X Cols -> Writers] /\ \A v \in Writers, c \in Cols : F[<<v, c>>] = Encode(v, c, batch[c])
  BY <1>2
<1> HIDE DEF F
<1>4. PICK g : Iterates(g, F, w, ids, n)
  BY <1>1, IterateExists
<1>5. \A s \in SUBSET (1 .. n) : g[s] \in Writers
  BY <1>1, <1>3, <1>4, IterateType
<1> DEFINE Is(f) == f = [s \in SUBSET DOMAIN ids |->
                          IF s = {} THEN w ELSE Encode(f[s \ {Max(s)}], ids[Max(s)], batch[ids[Max(s)]])]
<1>6. Is(g)
  <2>1. ASSUME NEW s \in SUBSET (1 .. n), s # {}
        PROVE  F[<<g[s \ {Max(s)}], ids[Max(s)]>>] = Encode(g[s \ {Max(s)}], ids[Max(s)], batch[ids[Max(s)]])
    <3>1. Max(s) \in 1 .. n
      BY <1>1, <2>1, MaxOf
    <3>2. s \ {Max(s)} \in SUBSET (1 .. n)
      OBVIOUS
    <3>3. g[s \ {Max(s)}] \in Writers /\ ids[Max(s)] \in Cols
      BY <1>1, <1>5, <3>1, <3>2
    <3>4. QED
      BY <1>3, <3>3
  <2>2. g = [s \in SUBSET (1 .. n) |-> IF s = {} THEN w ELSE F[<<g[s \ {Max(s)}], ids[Max(s)]>>]]
    BY <1>4 DEF Iterates
  <2>3. g = [s \in SUBSET (1 .. n) |->
               IF s = {} THEN w ELSE Encode(g[s \ {Max(s)}], ids[Max(s)], batch[ids[Max(s)]])]
    BY <2>1, <2>2
  <2>4. QED
    BY <1>1, <2>3
<1> DEFINE a == CHOOSE f : Is(f)
<1>7. Is(a)
  BY <1>6
<1>8. EncodeAll(w, batch) = a[DOMAIN ids]
  BY Zenon DEF EncodeAll, FoldLeft, MapThenFoldSet, ids
<1> HIDE DEF a
<1>9. \A s \in SUBSET (1 .. n) :
        a[s] = IF s = {} THEN w ELSE Encode(a[s \ {Max(s)}], ids[Max(s)], batch[ids[Max(s)]])
  BY <1>1, <1>7
<1> DEFINE h == [k \in 0 .. n |-> a[1 .. k]]
<1>10. h[0] = w /\ h[n] = EncodeAll(w, batch)
  <2>1. 1 .. 0 = {} /\ {} \in SUBSET (1 .. n) /\ 0 \in 0 .. n /\ n \in 0 .. n
    BY <1>1
  <2>2. QED
    BY <1>1, <1>8, <1>9, <2>1
<1>11. ASSUME NEW k \in 1 .. n
       PROVE  h[k] = Encode(h[k - 1], k, batch[k])
  <2>1. k \in Nat /\ k # 0 /\ k \in 0 .. n /\ k - 1 \in 0 .. n /\ 1 .. k \in SUBSET (1 .. n)
    BY <1>1
  <2>2. 1 .. k # {} /\ Max(1 .. k) = k /\ (1 .. k) \ {k} = 1 .. k - 1 /\ ids[k] = k
    BY <1>1, <2>1, MaxPrefix
  <2>3. a[1 .. k] = Encode(a[1 .. k - 1], k, batch[k])
    BY <1>9, <2>1, <2>2
  <2>4. QED
    BY <2>1, <2>3
<1> HIDE DEF h
<1>12. \A c \in Cols : h[c - 1] \in Writers => OnlyCol(h[c - 1], h[c], c)
  BY <1>1, <1>2, <1>11
<1>13. QED
  BY <1>1, <1>10, <1>11, <1>12 DEF n

LEMMA FlushFold ==
  ASSUME cfg \in Configs, NEW w \in Writers,
         NEW global
  PROVE  \E h : /\ h[0] = w
                /\ \A c \in Cols : h[c] = FinishCol(h[c - 1], c, global)
                /\ \A c \in Cols : h[c - 1] \in Writers => OnlyCol(h[c - 1], h[c], c)
                /\ FlushPending(w, global) = h[NumCols]
<1> DEFINE n == NumCols
           ids == [c \in Cols |-> c]
           F == [p \in Writers \X Cols |-> FinishCol(p[1], p[2], global)]
<1>1. n \in Nat /\ Cols = 1 .. n /\ DOMAIN ids = 1 .. n /\ \A i \in 1 .. n : ids[i] = i /\ ids[i] \in Cols
  BY ColumnsAssumption DEF Cols
<1>2. \A v \in Writers : \A c \in Cols : OnlyCol(v, FinishCol(v, c, global), c) /\ FinishCol(v, c, global) \in Writers
  BY FinishColKeeps DEF Keeps, OnlyCol
<1> HIDE DEF n, ids
<1>3. F \in [Writers \X Cols -> Writers] /\ \A v \in Writers, c \in Cols : F[<<v, c>>] = FinishCol(v, c, global)
  BY <1>2
<1> HIDE DEF F
<1>4. PICK g : Iterates(g, F, w, ids, n)
  BY <1>1, IterateExists
<1>5. \A s \in SUBSET (1 .. n) : g[s] \in Writers
  BY <1>1, <1>3, <1>4, IterateType
<1> DEFINE Is(f) == f = [s \in SUBSET DOMAIN ids |->
                          IF s = {} THEN w ELSE FinishCol(f[s \ {Max(s)}], ids[Max(s)], global)]
<1>6. Is(g)
  <2>1. ASSUME NEW s \in SUBSET (1 .. n), s # {}
        PROVE  F[<<g[s \ {Max(s)}], ids[Max(s)]>>] = FinishCol(g[s \ {Max(s)}], ids[Max(s)], global)
    <3>1. Max(s) \in 1 .. n
      BY <1>1, <2>1, MaxOf
    <3>2. s \ {Max(s)} \in SUBSET (1 .. n)
      OBVIOUS
    <3>3. g[s \ {Max(s)}] \in Writers /\ ids[Max(s)] \in Cols
      BY <1>1, <1>5, <3>1, <3>2
    <3>4. QED
      BY <1>3, <3>3
  <2>2. g = [s \in SUBSET (1 .. n) |-> IF s = {} THEN w ELSE F[<<g[s \ {Max(s)}], ids[Max(s)]>>]]
    BY <1>4 DEF Iterates
  <2>3. g = [s \in SUBSET (1 .. n) |->
               IF s = {} THEN w ELSE FinishCol(g[s \ {Max(s)}], ids[Max(s)], global)]
    BY <2>1, <2>2
  <2>4. QED
    BY <1>1, <2>3
<1> DEFINE a == CHOOSE f : Is(f)
<1>7. Is(a)
  BY <1>6
<1>8. FlushPending(w, global) = a[DOMAIN ids]
  BY Zenon DEF FlushPending, FoldLeft, MapThenFoldSet, ids
<1> HIDE DEF a
<1>9. \A s \in SUBSET (1 .. n) :
        a[s] = IF s = {} THEN w ELSE FinishCol(a[s \ {Max(s)}], ids[Max(s)], global)
  BY <1>1, <1>7
<1> DEFINE h == [k \in 0 .. n |-> a[1 .. k]]
<1>10. h[0] = w /\ h[n] = FlushPending(w, global)
  <2>1. 1 .. 0 = {} /\ {} \in SUBSET (1 .. n) /\ 0 \in 0 .. n /\ n \in 0 .. n
    BY <1>1
  <2>2. QED
    BY <1>1, <1>8, <1>9, <2>1
<1>11. ASSUME NEW k \in 1 .. n
       PROVE  h[k] = FinishCol(h[k - 1], k, global)
  <2>1. k \in Nat /\ k # 0 /\ k \in 0 .. n /\ k - 1 \in 0 .. n /\ 1 .. k \in SUBSET (1 .. n)
    BY <1>1
  <2>2. 1 .. k # {} /\ Max(1 .. k) = k /\ (1 .. k) \ {k} = 1 .. k - 1 /\ ids[k] = k
    BY <1>1, <2>1, MaxPrefix
  <2>3. a[1 .. k] = FinishCol(a[1 .. k - 1], k, global)
    BY <1>9, <2>1, <2>2
  <2>4. QED
    BY <2>1, <2>3
<1> HIDE DEF h
<1>12. \A c \in Cols : h[c - 1] \in Writers => OnlyCol(h[c - 1], h[c], c)
  BY <1>1, <1>2, <1>11
<1>13. QED
  BY <1>1, <1>10, <1>11, <1>12 DEF n

LEMMA TakesHas ==
  ASSUME cfg \in Configs, NEW w, NEW v, NEW c \in Cols, NEW array \in Arrays, Len(array) <= cfg.rows,
         Takes(w, v, c, array), NEW all, Has(w, c, all)
  PROVE  Has(v, c, Append(all, array))
<1>1. Append(all, array) \in Seq(Arrays) /\ Len(Append(all, array)) = Len(all) + 1 /\ Len(all) \in Nat
  BY AppendIs DEF Has
<1>2. cfg.rows \in Nat /\ Len(array) \in Nat /\ Widths[3] \in Nat
  BY CfgIs, WidthsAre DEF Arrays
<1>3. cfg.mode # "local" => ColHolds(v, c, Append(all, array))
  BY DEF Has, Takes
<1>4. ASSUME cfg.mode = "local", cfg.rows < Widths[3]
      PROVE  LocalHolds(v, c, Len(Append(all, array)))
  <2>1. Len(array) < Widths[3] /\ LocalHolds(w, c, Len(all))
    BY <1>2, <1>4 DEF Has
  <2>2. LocalHolds(v, c, Len(all) + 1)
    BY <1>1, <1>4, <2>1 DEF Takes
  <2>3. QED
    BY <1>1, <2>2
<1>5. QED
  BY <1>1, <1>3, <1>4 DEF Has

LEMMA KeepsHas ==
  ASSUME NEW w, NEW v, NEW c \in Cols, Keeps(w, v, c)
  PROVE  Idle(v, c) /\ \A all : Has(w, c, all) => Has(v, c, all)
<1>1. ASSUME NEW all, Has(w, c, all) PROVE Has(v, c, all)
  <2>1. all \in Seq(Arrays) /\ Len(all) \in Nat
    BY <1>1 DEF Has
  <2>2. QED
    BY <1>1, <2>1 DEF Has, Keeps
<1>2. QED
  BY <1>1 DEF Keeps

(* write_batch gives every column its array of the batch.                  *)
LEMMA EncodeAllIs ==
  ASSUME cfg \in Configs, NEW w \in Writers, NEW batch \in [Cols -> Arrays],
         \A c \in Cols : Len(batch[c]) <= cfg.rows
  PROVE  /\ EncodeAll(w, batch) \in Writers
         /\ \A x \in Cols : \A all : Has(w, x, all) => Has(EncodeAll(w, batch), x, Append(all, batch[x]))
<1>1. PICK h : /\ h[0] = w
               /\ \A c \in Cols : h[c] = Encode(h[c - 1], c, batch[c])
               /\ \A c \in Cols : h[c - 1] \in Writers => OnlyCol(h[c - 1], h[c], c)
               /\ EncodeAll(w, batch) = h[NumCols]
  BY EncodeFold
<1>2. \A x \in Cols : /\ Apart(w, h[x - 1], x) /\ OnlyCol(h[x - 1], h[x], x)
                      /\ Apart(h[x], h[NumCols], x)
  BY <1>1, ByColumns
<1>3. ASSUME NEW x \in Cols, NEW all, Has(w, x, all)
      PROVE  Has(h[NumCols], x, Append(all, batch[x]))
  <2>1. Apart(w, h[x - 1], x) /\ Apart(h[x], h[NumCols], x)
    BY <1>2
  <2>2. h[x - 1] \in Writers /\ batch[x] \in Arrays /\ Len(batch[x]) <= cfg.rows
    BY <2>1 DEF Apart
  <2>3. Takes(h[x - 1], h[x], x, batch[x])
    BY <1>1, <2>2, EncodeTakes
  <2>4. Has(h[x - 1], x, all)
    BY <1>3, <2>1, ApartHas
  <2>5. Has(h[x], x, Append(all, batch[x]))
    BY <2>2, <2>3, <2>4, TakesHas
  <2>6. QED
    BY <2>1, <2>5, ApartHas
<1>4. h[NumCols] \in Writers
  <2>1. NumCols \in Cols
    BY ColumnsAssumption DEF Cols
  <2>2. QED
    BY <1>2, <2>1 DEF Apart
<1>5. QED
  BY <1>1, <1>3, <1>4

(* flush_pending_chunks keeps what columns hold, and leaves nothing in the *)
(* encoders.                                                               *)
LEMMA FlushIs ==
  ASSUME cfg \in Configs, NEW w \in Writers, NEW global
  PROVE  /\ FlushPending(w, global) \in Writers
         /\ \A x \in Cols : Idle(FlushPending(w, global), x)
         /\ \A x \in Cols : \A all : Has(w, x, all) => Has(FlushPending(w, global), x, all)
<1>1. PICK h : /\ h[0] = w
               /\ \A c \in Cols : h[c] = FinishCol(h[c - 1], c, global)
               /\ \A c \in Cols : h[c - 1] \in Writers => OnlyCol(h[c - 1], h[c], c)
               /\ FlushPending(w, global) = h[NumCols]
  BY FlushFold
<1>2. \A x \in Cols : /\ Apart(w, h[x - 1], x) /\ OnlyCol(h[x - 1], h[x], x)
                      /\ Apart(h[x], h[NumCols], x)
  BY <1>1, ByColumns
<1>3. ASSUME NEW x \in Cols
      PROVE  /\ Idle(h[NumCols], x)
             /\ \A all : Has(w, x, all) => Has(h[NumCols], x, all)
  <2>1. Apart(w, h[x - 1], x) /\ Apart(h[x], h[NumCols], x)
    BY <1>2
  <2>2. h[x - 1] \in Writers
    BY <2>1 DEF Apart
  <2>3. Keeps(h[x - 1], h[x], x)
    BY <1>1, <2>2, FinishColKeeps
  <2>4. Idle(h[x], x) /\ \A all : Has(h[x - 1], x, all) => Has(h[x], x, all)
    BY <2>3, KeepsHas
  <2>5. \A all : Has(w, x, all) => Has(h[x - 1], x, all)
    BY <2>1, ApartHas
  <2>6. /\ Idle(h[x], x) => Idle(h[NumCols], x)
        /\ \A all : Has(h[x], x, all) => Has(h[NumCols], x, all)
    BY <2>1, ApartHas
  <2>7. QED
    BY <2>4, <2>5, <2>6
<1>4. h[NumCols] \in Writers
  <2>1. NumCols \in Cols
    BY ColumnsAssumption DEF Cols
  <2>2. QED
    BY <1>2, <2>1 DEF Apart
<1>5. QED
  BY <1>1, <1>3, <1>4

-----------------------------------------------------------------------------
(* The options never change, and so neither does what depends on them.     *)
LEMMA SameCfg ==
  ASSUME cfg' = cfg
  PROVE  /\ Arrays' = Arrays /\ Units' = Units /\ Chunks' = Chunks /\ EncStates' = EncStates
         /\ Dicts' = Dicts /\ Writers' = Writers
<1>1. Arrays' = Arrays
  BY DEF Arrays
<1>2. Units' = Units
  BY DEF Units
<1>3. Chunks' = Chunks
  BY <1>2 DEF Chunks
<1>4. Dicts' = Dicts
  BY DEF Dicts
<1>5. EncStates' = EncStates
  BY <1>1, <1>3 DEF EncStates
<1>6. Writers' = Writers
  BY <1>3, <1>4, <1>5 DEF Writers
<1>7. QED
  BY <1>1, <1>2, <1>3, <1>4, <1>5, <1>6

LEMMA SameIdle ==
  ASSUME cfg' = cfg, NEW w, NEW c
  PROVE  Idle(w, c)' <=> Idle(w, c)
  BY DEF Idle

LEMMA SameHas ==
  ASSUME cfg' = cfg, NEW w, NEW x, NEW all
  PROVE  Has(w, x, all)' <=> Has(w, x, all)
<1>1. \A a, b : NewHold(w.dicts, x, a, b)' <=> NewHold(w.dicts, x, a, b)
  BY SameCfg DEF NewHold, Holding
<1>2. \A pend : PendHolds(w, x, pend)' <=> PendHolds(w, x, pend)
  BY DEF PendHolds
<1>3. ColHolds(w, x, all)' <=> ColHolds(w, x, all)
  BY <1>1, <1>2, SameCfg DEF ColHolds, ChunksHold
<1>4. LocalHolds(w, x, Len(all))' <=> LocalHolds(w, x, Len(all))
  BY DEF LocalHolds
<1>5. QED
  BY <1>3, <1>4, SameCfg DEF Has

-----------------------------------------------------------------------------
(***************************************************************************)
(* The dictionary part of a file whose dictionaries were not merged: one   *)
(* chunk each, in order.                                                   *)
(***************************************************************************)
Count(seqs) == FoldLeft(LAMBDA n, cs : n + Len(cs), 1, seqs)

LEMMA CountFold ==
  ASSUME NEW T, NEW seqs \in Seq(Seq(T))
  PROVE  \E h : /\ h[0] = 1
                /\ \A k \in 1 .. Len(seqs) : h[k] = h[k - 1] + Len(seqs[k])
                /\ Count(seqs) = h[Len(seqs)]
<1> DEFINE n == Len(seqs)
           X == Seq(T)
           F == [p \in Nat \X X |-> p[1] + Len(p[2])]
<1>1. n \in Nat /\ DOMAIN seqs = 1 .. n /\ \A i \in 1 .. n : seqs[i] \in X
  OBVIOUS
<1>2. \A e \in Nat : \A v \in X : e + Len(v) \in Nat
  OBVIOUS
<1> HIDE DEF n, X
<1>3. F \in [Nat \X X -> Nat] /\ \A e \in Nat, v \in X : F[<<e, v>>] = e + Len(v)
  BY <1>2
<1> HIDE DEF F
<1>4. PICK g : Iterates(g, F, 1, seqs, n)
  BY <1>1, IterateExists
<1>5. \A s \in SUBSET (1 .. n) : g[s] \in Nat
  BY <1>1, <1>3, <1>4, IterateType
<1> DEFINE Is(f) == f = [s \in SUBSET DOMAIN seqs |->
                          IF s = {} THEN 1 ELSE f[s \ {Max(s)}] + Len(seqs[Max(s)])]
<1>6. Is(g)
  <2>1. ASSUME NEW s \in SUBSET (1 .. n), s # {}
        PROVE  F[<<g[s \ {Max(s)}], seqs[Max(s)]>>] = g[s \ {Max(s)}] + Len(seqs[Max(s)])
    <3>1. Max(s) \in 1 .. n
      BY <1>1, <2>1, MaxOf
    <3>2. s \ {Max(s)} \in SUBSET (1 .. n)
      OBVIOUS
    <3>3. g[s \ {Max(s)}] \in Nat /\ seqs[Max(s)] \in X
      BY <1>1, <1>5, <3>1, <3>2
    <3>4. QED
      BY <1>3, <3>3
  <2>2. g = [s \in SUBSET (1 .. n) |-> IF s = {} THEN 1 ELSE F[<<g[s \ {Max(s)}], seqs[Max(s)]>>]]
    BY <1>4 DEF Iterates
  <2>3. g = [s \in SUBSET (1 .. n) |-> IF s = {} THEN 1 ELSE g[s \ {Max(s)}] + Len(seqs[Max(s)])]
    BY <2>1, <2>2
  <2>4. QED
    BY <1>1, <2>3
<1> DEFINE c == CHOOSE f : Is(f)
<1>7. Is(c)
  BY <1>6
<1>8. Count(seqs) = c[DOMAIN seqs]
  BY Zenon DEF Count, FoldLeft, MapThenFoldSet
<1> HIDE DEF c
<1>9. \A s \in SUBSET (1 .. n) : c[s] = IF s = {} THEN 1 ELSE c[s \ {Max(s)}] + Len(seqs[Max(s)])
  BY <1>1, <1>7
<1> DEFINE h == [k \in 0 .. n |-> c[1 .. k]]
<1>10. h[0] = 1 /\ h[n] = Count(seqs)
  <2>1. 1 .. 0 = {} /\ {} \in SUBSET (1 .. n) /\ 0 \in 0 .. n /\ n \in 0 .. n
    BY <1>1
  <2>2. QED
    BY <1>1, <1>8, <1>9, <2>1
<1>11. ASSUME NEW k \in 1 .. n
       PROVE  h[k] = h[k - 1] + Len(seqs[k])
  <2>1. k \in Nat /\ k # 0 /\ k \in 0 .. n /\ k - 1 \in 0 .. n /\ 1 .. k \in SUBSET (1 .. n)
    BY <1>1
  <2>2. 1 .. k # {} /\ Max(1 .. k) = k /\ (1 .. k) \ {k} = 1 .. k - 1
    BY <2>1, MaxPrefix
  <2>3. c[1 .. k] = c[1 .. k - 1] + Len(seqs[k])
    BY <1>9, <2>1, <2>2
  <2>4. QED
    BY <2>1, <2>3
<1> HIDE DEF h
<1>12. QED
  BY <1>10, <1>11 DEF n

LEMMA CountSingletons ==
  ASSUME NEW T, NEW seqs \in Seq(Seq(T)), \A k \in 1 .. Len(seqs) : Len(seqs[k]) = 1
  PROVE  Count(seqs) = 1 + Len(seqs)
<1>1. PICK h : /\ h[0] = 1
               /\ \A k \in 1 .. Len(seqs) : h[k] = h[k - 1] + Len(seqs[k])
               /\ Count(seqs) = h[Len(seqs)]
  BY CountFold
<1> DEFINE n == Len(seqs)
           S == {k \in Nat : k <= n => h[k] = 1 + k}
<1>2. n \in Nat
  OBVIOUS
<1>3. \A k \in 1 .. n : h[k] = h[k - 1] + 1
  BY <1>1
<1> HIDE DEF n
<1>4. 0 \in S
  BY <1>1
<1>5. ASSUME NEW k \in Nat, k \in S
      PROVE  k + 1 \in S
  <2> SUFFICES ASSUME k + 1 <= n PROVE h[k + 1] = 1 + (k + 1)
    OBVIOUS
  <2>1. k + 1 \in 1 .. n /\ (k + 1) - 1 = k /\ k <= n
    BY <1>2
  <2>2. h[k + 1] = h[k] + 1
    BY <1>3, <2>1
  <2>3. QED
    BY <1>5, <2>1, <2>2
<1> HIDE DEF S
<1>6. n \in S
  BY <1>2, <1>4, <1>5, AllNaturals
<1>7. h[n] = 1 + n
  BY <1>2, <1>6 DEF S
<1>8. QED
  BY <1>1, <1>7 DEF n

DictChunk(d) ==
  [label |-> "none", dict |-> None, units |-> << DictUnit(DictArray(d).type, d.dictionary) >>]

(* The table t stores these dictionaries, each in the chunk of its place.  *)
Stored(t, ds) ==
  /\ DOMAIN t.positions = 1 .. Len(ds)
  /\ \A i \in 1 .. Len(ds) : t.positions[i] = <<i>> /\ t.chunks[i] = DictChunk(ds[i])

LEMMA DictChunksIs ==
  ASSUME NEW ds \in Seq(Dicts), NEW i \in 1 .. Len(ds)
  PROVE  DictChunks(ds, << >>, i) = << DictChunk(ds[i]) >>
<1> DEFINE d == DictArray(ds[i]).rows
           t == DictArray(ds[i]).type
           Ch(rows) == [label |-> "none", dict |-> None, units |-> << DictUnit(t, rows) >>]
           m == [peer |-> None, len |-> 0]
<1>1. ds[i] \in Dicts /\ i \notin DOMAIN << >>
  OBVIOUS
<1>2. d = ds[i].dictionary /\ d \in Seq(cfg.values)
  BY <1>1, DictIs DEF DictArray
<1>3. DictChunk(ds[i]) = Ch(d)
  BY <1>2 DEF DictChunk
<1>4. m.peer = None /\ m.len = 0
  OBVIOUS
<1>5. DictChunks(ds, << >>, i) =
        (IF m.peer # None /\ i < m.peer THEN << Ch(SubSeq(d, 1, m.len)) >> ELSE << >>)
        \o (IF m.peer # None /\ Len(d) = m.len THEN << >> ELSE << Ch(SubSeq(d, m.len + 1, Len(d))) >>)
  BY <1>1, Zenon DEF DictChunks
<1> HIDE DEF Ch, d, t, m
<1>6. DictChunks(ds, << >>, i) = << >> \o << Ch(SubSeq(d, 1, Len(d))) >>
  BY <1>4, <1>5
<1>7. SubSeq(d, 1, Len(d)) = d
  BY <1>2
<1>8. \A x : << >> \o << x >> = << x >>
  OBVIOUS
<1>9. QED
  BY <1>3, <1>6, <1>7, <1>8

LEMMA TableIs ==
  ASSUME NEW ds \in Seq(Dicts)
  PROVE  Stored(DictTable(ds, << >>), ds)
<1> DEFINE n == Len(ds)
           all == [i \in DOMAIN ds |-> DictChunks(ds, << >>, i)]
           own(i) == [k \in DOMAIN all[i] |-> Count(SubSeq(all, 1, i - 1)) + k - 1]
           ByPeer(i) == i \in DOMAIN << >> /\ << >>[i].peer # None /\ << >>[i].peer < i
           Peers(i) == <<Count(SubSeq(all, 1, << >>[i].peer - 1))>> \o own(i)
           s == [i \in 1 .. n |-> DictChunk(ds[i])]
           T == {DictChunk(ds[i]) : i \in 1 .. n}
           t == DictTable(ds, << >>)
<1>1. n \in Nat /\ DOMAIN ds = 1 .. n /\ \A i : ~ ByPeer(i)
  OBVIOUS
<1>2. t = [chunks |-> FlattenSeq(all),
           positions |-> [i \in DOMAIN ds |-> IF ByPeer(i) THEN Peers(i) ELSE own(i)]]
  BY Zenon DEF DictTable, Count
<1> HIDE DEF n, ByPeer, Peers, t
<1>3. s \in Seq(T) /\ Len(s) = n /\ \A i \in 1 .. n : s[i] = DictChunk(ds[i])
  <2>1. s \in [1 .. n -> T]
    OBVIOUS
  <2>2. s \in Seq(T) /\ Len(s) = n
    BY <1>1, <2>1
  <2>3. QED
    BY <2>2
<1>4. all = [k \in 1 .. Len(s) |-> <<s[k]>>]
  BY <1>1, <1>3, DictChunksIs DEF n
<1> HIDE DEF s, T
<1>5. all \in Seq(Seq(T)) /\ Len(all) = n /\ FlattenSeq(all) = s
  BY <1>3, <1>4, FlattenSingletons
<1>6. \A i \in 1 .. n : all[i] = <<s[i]>>
  BY <1>3, <1>4
<1> HIDE DEF all
<1>7. ASSUME NEW i \in 1 .. n
      PROVE  own(i) = <<i>>
  <2> DEFINE b == SubSeq(all, 1, i - 1)
  <2>1. b \in Seq(Seq(T)) /\ Len(b) = i - 1 /\ \A k \in 1 .. i - 1 : b[k] = all[k] /\ k \in 1 .. n
    BY <1>1, <1>5
  <2> HIDE DEF b
  <2>2. ASSUME NEW k \in 1 .. Len(b) PROVE Len(b[k]) = 1
    <3>1. b[k] = <<s[k]>>
      BY <1>6, <2>1
    <3>2. QED
      BY <3>1
  <2>3. Count(b) = i
    BY <1>1, <2>1, <2>2, CountSingletons
  <2>4. DOMAIN all[i] = {1}
    BY <1>6
  <2>5. own(i) = [k \in {1} |-> i + k - 1]
    BY <2>3, <2>4 DEF b
  <2>6. QED
    BY <1>1, <2>5
<1>8. /\ DOMAIN t.positions = 1 .. n
      /\ \A i \in 1 .. n : t.positions[i] = <<i>>
  <2>1. t.positions = [i \in DOMAIN ds |-> IF ByPeer(i) THEN Peers(i) ELSE own(i)]
    BY <1>2
  <2> HIDE DEF own
  <2>2. QED
    BY <1>1, <1>7, <2>1
<1>9. t.chunks = s
  BY <1>2, <1>5
<1>10. QED
  BY <1>3, <1>8, <1>9 DEF Stored, t, n

-----------------------------------------------------------------------------
(***************************************************************************)
(* Reading.  r is what a reader gets for the array a of column c.          *)
(***************************************************************************)
TypeFits(c, r, a) ==
  \/ r.type \in {ColType[c], ViewOf(ColType[c]), DictArray(NewDict(ColType[c])).type}
  \/ r.type = "Int32" /\ ToSet(a) \subseteq {Null}

Reads(c, r, a) ==
  /\ r.ok => r.rows = a
  /\ Readable => r.ok /\ TypeFits(c, r, a)

LEMMA DecodeUnitIs ==
  ASSUME NEW u, Unmixed(u), NEW asked
  PROVE  LET r == DecodeUnit(u, asked)
         IN r.ok = TRUE /\ r.rows = u.rows /\ r.type = IF cfg.wasm THEN asked ELSE ViewOf(u.type)
  BY DEF DecodeUnit, Unmixed

LEMMA ReadsPlain ==
  ASSUME NEW c \in Cols, NEW u, NEW a, PlainHolds(c, u, a)
  PROVE  Reads(c, DecodeUnit(u, ColType[c]), a)
<1> DEFINE r == DecodeUnit(u, ColType[c])
<1>1. u.type = ColType[c] /\ u.rows = a /\ Unmixed(u)
  BY DEF PlainHolds
<1>2. r.ok = TRUE /\ r.rows = u.rows /\ r.type = IF cfg.wasm THEN ColType[c] ELSE ViewOf(u.type)
  BY <1>1, DecodeUnitIs
<1> HIDE DEF r
<1>3. TypeFits(c, r, a)
  BY <1>1, <1>2 DEF TypeFits
<1>4. QED
  BY <1>1, <1>2, <1>3 DEF Reads, r

(* What a reader gets for a dictionary.                                    *)
DictRead(d) ==
  IF d.dictionary = << >> THEN NullDict
  ELSE DecodeUnit(DictUnit(DictArray(d).type, d.dictionary), d.datatype)

LEMMA DictReadIs ==
  ASSUME cfg \in Configs, NEW d \in Dicts
  PROVE  LET r == DictRead(d)
         IN /\ r.ok \in BOOLEAN /\ (~ r.ok => r = Failed)
            /\ ~ cfg.packed => r.ok
            /\ d.dictionary = << >> => r = NullDict
            /\ d.dictionary # << >> /\ r.ok =>
                 /\ r.rows = d.dictionary
                 /\ ~ cfg.wasm => r.type = ViewOf(DictArray(d).type)
<1> DEFINE u == DictUnit(DictArray(d).type, d.dictionary)
           r == DictRead(d)
<1>1. u.type = DictArray(d).type /\ u.rows = d.dictionary /\ u.marked = cfg.packed /\ u.packed = FALSE
  BY Zenon DEF DictUnit
<1>2. cfg.packed \in BOOLEAN
  BY CfgIs DEF Flags
<1>3. DecodeUnit(u, d.datatype) = IF u.marked # u.packed THEN Failed
        ELSE [ok |-> TRUE, type |-> IF cfg.wasm THEN d.datatype ELSE ViewOf(u.type), rows |-> u.rows]
  BY Zenon DEF DecodeUnit
<1>4. r = IF d.dictionary = << >> THEN NullDict ELSE DecodeUnit(u, d.datatype)
  BY Zenon DEF DictRead
<1> HIDE DEF u, r
<1>5. NullDict.ok = TRUE /\ Failed.ok = FALSE
  BY DEF NullDict, Failed
<1>6. CASE d.dictionary = << >>
  <2>1. r = NullDict /\ r.ok = TRUE
    BY <1>4, <1>5, <1>6
  <2>2. QED
    BY <1>6, <2>1 DEF r
<1>7. CASE d.dictionary # << >> /\ cfg.packed = TRUE
  <2>1. r = Failed /\ r.ok = FALSE
    BY <1>1, <1>3, <1>4, <1>5, <1>7
  <2>2. QED
    BY <1>7, <2>1 DEF r
<1>8. CASE d.dictionary # << >> /\ cfg.packed = FALSE
  <2>1. r = [ok |-> TRUE, type |-> IF cfg.wasm THEN d.datatype ELSE ViewOf(u.type), rows |-> u.rows]
    BY <1>1, <1>3, <1>4, <1>8
  <2>2. r.ok = TRUE /\ r.rows = u.rows /\ (~ cfg.wasm => r.type = ViewOf(u.type))
    BY <2>1
  <2>3. QED
    BY <1>1, <1>8, <2>2 DEF r
<1>9. QED
  BY <1>2, <1>6, <1>7, <1>8

LEMMA ReadDictIs ==
  ASSUME cfg \in Configs, dicts \in Seq(Dicts), Stored(tail, dicts), NEW i \in 1 .. Len(dicts)
  PROVE  ReadDict(i) = DictRead(dicts[i])
<1> DEFINE d == dicts[i]
           Part(id) == LET u == tail.chunks[id].units[1]
                       IN IF u.rows = << >> THEN NullDict ELSE DecodeUnit(u, dicts[i].datatype)
           parts == [k \in DOMAIN tail.positions[i] |-> Part(tail.positions[i][k])]
<1>1. d \in Dicts /\ tail.positions[i] = <<i>> /\ tail.chunks[i] = DictChunk(d)
  BY DEF Stored
<1>2. DOMAIN tail.positions[i] = {1} /\ tail.positions[i][1] = i
  BY <1>1
<1>3. tail.chunks[i].units[1] = DictUnit(DictArray(d).type, d.dictionary)
  BY <1>1 DEF DictChunk
<1>4. Part(i) = DictRead(d)
  <2>1. DictUnit(DictArray(d).type, d.dictionary).rows = d.dictionary
    BY DEF DictUnit
  <2>2. QED
    BY <1>3, <2>1 DEF DictRead
<1>5. ReadDict(i) = IF Len(parts) \notin {1, 2} \/ \E k \in DOMAIN parts : ~ parts[k].ok THEN Failed
                    ELSE IF Len(parts) = 1 THEN parts[1]
                    ELSE IF parts[1].type # parts[2].type THEN Failed
                    ELSE [parts[1] EXCEPT !.rows = @ \o parts[2].rows]
  BY Zenon DEF ReadDict
<1> HIDE DEF Part
<1>6. parts = << DictRead(d) >>
  BY <1>2, <1>4
<1>7. Len(parts) = 1 /\ parts[1] = DictRead(d) /\ DOMAIN parts = {1}
  BY <1>6
<1> HIDE DEF parts
<1>8. ~ DictRead(d).ok => DictRead(d) = Failed
  BY <1>1, DictReadIs
<1> HIDE DEF d
<1>9. ReadDict(i) = IF ~ DictRead(d).ok THEN Failed ELSE DictRead(d)
  BY <1>5, <1>7
<1>10. QED
  BY <1>8, <1>9 DEF d

(* A reader gets every dictionary.                                         *)
Loads ==
  /\ DOMAIN tail.positions = 1 .. Len(dicts)
  /\ \A i \in 1 .. Len(dicts) : ReadDict(i) = DictRead(dicts[i])

LEMMA StoredLoads ==
  ASSUME cfg \in Configs, dicts \in Seq(Dicts), Stored(tail, dicts)
  PROVE  Loads
<1>1. DOMAIN tail.positions = 1 .. Len(dicts)
  BY DEF Stored
<1>2. QED
  BY <1>1, ReadDictIs DEF Loads

(* Looking up what the encoder stored gives the array, or fails.           *)
LEMMA LookupIs ==
  ASSUME NEW V, NEW d \in Seq(V), NEW a \in Arrays, NEW dict, NEW index, Maps(d, index.rows, a),
         d # << >> /\ dict.ok => dict.rows = d, d = << >> => dict.rows = << Null >>, Null \notin Nat
  PROVE  LET r == Lookup(dict, index)
         IN /\ r.ok => r.rows = a
            /\ index.ok /\ dict.ok /\ index.type = IndexType(Len(d)) => r.ok /\ r.type = dict.type
            /\ d = << >> => ToSet(a) \subseteq {Null}
<1> DEFINE rows == index.rows
           bad == \/ ~ index.ok \/ ~ dict.ok
                  \/ index.type # IndexType(Len(dict.rows))
                  \/ \E i \in ToSet(index.rows) : i # Null /\ i >= Len(dict.rows)
           found == [k \in DOMAIN index.rows |->
                       IF index.rows[k] = Null THEN Null ELSE dict.rows[index.rows[k] + 1]]
           r == Lookup(dict, index)
<1>1. /\ DOMAIN rows = DOMAIN a
      /\ \A x \in DOMAIN a : IF a[x] = Null THEN rows[x] = Null
                             ELSE rows[x] \in Nat /\ rows[x] < Len(d) /\ d[rows[x] + 1] = a[x]
  BY DEF Maps
<1>2. r = IF bad THEN Failed ELSE [ok |-> TRUE, type |-> dict.type, rows |-> found]
  BY Zenon DEF Lookup
<1>3. Len(d) \in Nat /\ (d = << >> => Len(d) = 0)
  OBVIOUS
<1>4. d = << >> => \A x \in DOMAIN a : a[x] = Null
  BY <1>1, <1>3
<1>5. dict.ok => found = a
  <2> SUFFICES ASSUME dict.ok PROVE found = a
    OBVIOUS
  <2>1. ASSUME NEW x \in DOMAIN a
        PROVE  (IF index.rows[x] = Null THEN Null ELSE dict.rows[index.rows[x] + 1]) = a[x]
    <3>1. CASE a[x] = Null
      BY <1>1, <3>1
    <3>2. CASE a[x] # Null
      <4>1. rows[x] \in Nat /\ d[rows[x] + 1] = a[x] /\ rows[x] # Null
        BY <1>1, <3>2
      <4>2. d # << >>
        BY <1>4, <3>2
      <4>3. QED
        BY <4>1, <4>2
    <3>3. QED
      BY <3>1, <3>2
  <2>2. a = [x \in DOMAIN a |-> a[x]]
    BY DEF Arrays
  <2>3. QED
    BY <1>1, <2>1, <2>2
<1> HIDE DEF found
<1>6. ASSUME index.ok, dict.ok, index.type = IndexType(Len(d))
      PROVE  ~ bad
  <2>1. IndexType(Len(dict.rows)) = IndexType(Len(d)) /\ Len(d) <= Len(dict.rows) /\ Len(dict.rows) \in Nat
    <3>1. CASE d = << >>
      <4>1. Len(dict.rows) = 1
        <5>1. dict.rows = << Null >>
          BY <3>1
        <5>2. Len(<< Null >>) = 1
          OBVIOUS
        <5>3. QED
          BY <5>1, <5>2, Zenon
      <4>2. Len(d) = 0
        BY <1>3, <3>1
      <4>3. IndexType(0) = IndexType(1)
        BY IndexTypeIs
      <4>4. QED
        BY <4>1, <4>2, <4>3
    <3>2. CASE d # << >>
      BY <1>3, <1>6, <3>2
    <3>3. QED
      BY <3>1, <3>2
  <2>2. ASSUME NEW i \in ToSet(index.rows), i # Null
        PROVE  ~ (i >= Len(dict.rows))
    <3>1. PICK x \in DOMAIN rows : rows[x] = i
      BY DEF ToSet
    <3>2. i \in Nat /\ i < Len(d)
      BY <1>1, <2>2, <3>1
    <3>3. QED
      BY <1>3, <2>1, <3>2
  <2>3. QED
    BY <1>6, <2>1, <2>2
<1>7. bad => r.ok = FALSE
  <2> HIDE DEF bad
  <2>1. QED
    BY <1>2 DEF Failed
<1>8. ~ bad => r.ok = TRUE /\ r.type = dict.type /\ r.rows = found /\ dict.ok
  <2>1. ~ bad => dict.ok
    OBVIOUS
  <2> HIDE DEF bad
  <2>2. QED
    BY <1>2, <2>1
<1>9. d = << >> => ToSet(a) \subseteq {Null}
  BY <1>4 DEF ToSet
<1> HIDE DEF bad, r
<1>10. QED
  BY <1>5, <1>6, <1>7, <1>8, <1>9 DEF r

LEMMA ViewIs ==
  /\ \A t \in IndexTypes : ViewOf(t) = t
  /\ \A t : ViewOf(DictArray(NewDict(t)).type) \in {t, ViewOf(t), DictArray(NewDict(t)).type}
  /\ \A d : DictArray(d).type = DictArray(NewDict(d.datatype)).type
  BY DEF ViewOf, DictArray, NewDict, IndexTypes

LEMMA ReadsShared ==
  ASSUME cfg \in Configs, NEW c \in Cols, NEW d \in Dicts, d.datatype = ColType[c], NEW u,
         NEW a \in Arrays, SharedHolds(d.dictionary, u, a), dicts # << >>
  PROVE  Reads(c, Lookup(DictRead(d), DecodeUnit(u, "Int64")), a)
<1> DEFINE index == DecodeUnit(u, "Int64")
           dict == DictRead(d)
           r == Lookup(dict, index)
           n == Len(d.dictionary)
<1>1. u.type = IndexType(n) /\ Maps(d.dictionary, u.rows, a) /\ Unmixed(u)
  BY DEF SharedHolds
<1>2. index.ok = TRUE /\ index.rows = u.rows /\ (~ cfg.wasm => index.type = IndexType(n))
  <2>1. index.ok = TRUE /\ index.rows = u.rows /\ index.type = IF cfg.wasm THEN "Int64" ELSE ViewOf(u.type)
    BY <1>1, DecodeUnitIs
  <2> HIDE DEF index
  <2>2. u.type \in IndexTypes
    BY <1>1, IndexTypeIs
  <2>3. ViewOf(u.type) = u.type
    BY <2>2, ViewIs
  <2>4. QED
    BY <1>1, <2>1, <2>3
<1>3. /\ dict.ok \in BOOLEAN /\ (~ cfg.packed => dict.ok)
      /\ d.dictionary = << >> => dict = NullDict
      /\ d.dictionary # << >> /\ dict.ok =>
           dict.rows = d.dictionary /\ (~ cfg.wasm => dict.type = ViewOf(DictArray(d).type))
  BY DictReadIs
<1>4. NullDict.rows = << Null >> /\ NullDict.type = "Int32"
  BY DEF NullDict
<1>5. d.dictionary \in Seq(cfg.values) /\ Null \notin Nat
  BY DictIs, ConfigsAssumption
<1> HIDE DEF index, dict
<1>6. /\ d.dictionary # << >> /\ dict.ok => dict.rows = d.dictionary
      /\ d.dictionary = << >> => dict.rows = << Null >>
      /\ Maps(d.dictionary, index.rows, a)
  BY <1>1, <1>2, <1>3, <1>4
<1>7. /\ r.ok => r.rows = a
      /\ index.ok /\ dict.ok /\ index.type = IndexType(n) => r.ok /\ r.type = dict.type
      /\ d.dictionary = << >> => ToSet(a) \subseteq {Null}
  BY <1>5, <1>6, LookupIs
<1> HIDE DEF r
<1>8. ASSUME Readable PROVE r.ok /\ TypeFits(c, r, a)
  <2>1. ~ cfg.packed /\ ~ cfg.wasm
    BY <1>8 DEF Readable
  <2>2. r.ok /\ r.type = dict.type /\ dict.ok
    BY <1>2, <1>3, <1>7, <2>1
  <2>3. CASE d.dictionary = << >>
    BY <1>3, <1>4, <1>7, <2>2, <2>3 DEF TypeFits
  <2>4. CASE d.dictionary # << >>
    <3>1. r.type = ViewOf(DictArray(d).type)
      BY <1>3, <2>1, <2>2, <2>4
    <3>2. DictArray(d).type = DictArray(NewDict(ColType[c])).type
      BY ViewIs
    <3>3. r.type \in {ColType[c], ViewOf(ColType[c]), DictArray(NewDict(ColType[c])).type}
      BY <3>1, <3>2, ViewIs
    <3>4. QED
      BY <2>2, <3>3 DEF TypeFits
  <2>5. QED
    BY <2>3, <2>4
<1>9. QED
  BY <1>7, <1>8 DEF Reads, r, dict, index

(* Every dictionary of a readable file loads.                              *)
LEMMA LoadsOpens ==
  ASSUME cfg \in Configs, dicts \in Seq(Dicts), Loads, Readable
  PROVE  Opens
<1>1. ASSUME NEW i \in DOMAIN tail.positions
      PROVE  ReadDict(i).ok
  <2>1. i \in 1 .. Len(dicts) /\ ReadDict(i) = DictRead(dicts[i])
    BY DEF Loads
  <2>2. dicts[i] \in Dicts /\ dicts # << >>
    BY <2>1
  <2>3. ~ cfg.packed
    BY <2>2 DEF Readable
  <2>4. DictRead(dicts[i]).ok
    BY <2>2, <2>3, DictReadIs
  <2>5. QED
    BY <2>1, <2>4
<1>2. QED
  BY <1>1 DEF Opens

(* The arrays read from a chunk are the ones it holds.                     *)
ReadsAll(c, read, part) ==
  /\ read = [k \in 1 .. Len(part) |-> read[k]]
  /\ \A k \in 1 .. Len(part) : Reads(c, read[k], part[k])

LEMMA ReadChunkIs ==
  ASSUME cfg \in Configs, dicts \in Seq(Dicts), Loads, NEW c \in Cols,
         NEW chunk \in Chunks, NEW part \in Seq(Arrays), ChunkHolds(dicts, c, chunk, part)
  PROVE  ReadsAll(c, ReadChunk(chunk, c), part)
<1> DEFINE read == ReadChunk(chunk, c)
           n == Len(part)
           units == chunk.units
<1>1. /\ n \in Nat /\ Len(units) = n /\ units \in Seq(Units) /\ chunk.label \in Labels
      /\ \A k \in 1 .. n : UnitHolds(dicts, c, chunk.label, chunk.dict, units[k], part[k])
      /\ \A k \in 1 .. n : part[k] \in Arrays
  BY DEF ChunkHolds, Chunks
<1>2. DOMAIN units = 1 .. n
  BY <1>1
<1> HIDE DEF n, units
<1>3. CASE chunk.label = "none"
  <2>1. read = [k \in 1 .. n |-> DecodeUnit(units[k], ColType[c])]
    BY <1>2, <1>3 DEF ReadChunk, units
  <2> HIDE DEF read
  <2>2. ASSUME NEW k \in 1 .. n PROVE Reads(c, read[k], part[k])
    <3>1. PlainHolds(c, units[k], part[k])
      BY <1>1, <1>3 DEF UnitHolds
    <3>2. read[k] = DecodeUnit(units[k], ColType[c])
      BY <2>1
    <3>3. QED
      BY <3>1, <3>2, ReadsPlain
  <2>3. read = [k \in 1 .. n |-> read[k]]
    BY <2>1
  <2>4. QED
    BY <2>2, <2>3 DEF ReadsAll, read, n
<1>4. CASE chunk.label = "shared"
  <2> DEFINE dict == ReadDict(chunk.dict)
  <2>1. read = [k \in 1 .. n |-> Lookup(dict, DecodeUnit(units[k], "Int64"))]
    BY <1>2, <1>4 DEF ReadChunk, units
  <2> HIDE DEF read, dict
  <2>2. ASSUME NEW k \in 1 .. n PROVE Reads(c, read[k], part[k])
    <3> DEFINE i == chunk.dict
               d == dicts[i]
    <3>1. /\ i \in 1 .. Len(dicts) /\ d.datatype = ColType[c]
          /\ SharedHolds(d.dictionary, units[k], part[k])
      BY <1>1, <1>4 DEF UnitHolds
    <3>2. d \in Dicts /\ dicts # << >>
      BY <3>1
    <3>3. dict = DictRead(d)
      BY <3>1 DEF dict, Loads
    <3>4. read[k] = Lookup(DictRead(d), DecodeUnit(units[k], "Int64"))
      BY <2>1, <3>3
    <3> HIDE DEF d, i
    <3>5. Reads(c, Lookup(DictRead(d), DecodeUnit(units[k], "Int64")), part[k])
      BY <1>1, <3>1, <3>2, ReadsShared
    <3>6. QED
      BY <3>4, <3>5
  <2>3. read = [k \in 1 .. n |-> read[k]]
    BY <2>1
  <2>4. QED
    BY <2>2, <2>3 DEF ReadsAll, read, n
<1>5. CASE chunk.label = "local"
  <2>1. n = 0
    <3> SUFFICES ASSUME n # 0 PROVE FALSE
      OBVIOUS
    <3>1. 1 \in 1 .. n
      BY <1>1
    <3>2. UnitHolds(dicts, c, chunk.label, chunk.dict, units[1], part[1])
      BY <1>1, <3>1
    <3>3. QED
      BY <1>5, <3>2 DEF UnitHolds
  <2>2. read = [k \in 1 .. n \div 2 |-> ReadLocal(units[2 * k - 1], units[2 * k])]
    BY <1>1, <1>5 DEF ReadChunk, units
  <2> HIDE DEF read
  <2>3. 1 .. n \div 2 = 1 .. n /\ 1 .. n = {}
    BY <2>1
  <2>4. read = [k \in 1 .. n |-> read[k]]
    BY <2>2, <2>3
  <2>5. QED
    BY <2>3, <2>4 DEF ReadsAll, read, n
<1>6. QED
  BY <1>1, <1>3, <1>4, <1>5 DEF Labels

(* Nothing is left in the encoders: the chunks hold all arrays.            *)
LEMMA ChunksHoldAll ==
  ASSUME cfg \in Configs, cfg.mode # "local", NEW w \in Writers, NEW c \in Cols, Idle(w, c),
         NEW all, ColHolds(w, c, all)
  PROVE  NewHold(w.dicts, c, w.chunks[c], all)
<1>1. PICK done \in Seq(Arrays), pend \in Seq(Arrays) :
        all = done \o pend /\ ChunksHold(w, c, done) /\ PendHolds(w, c, pend)
  BY DEF ColHolds
<1>2. pend = << >>
  <2>1. CASE cfg.mode = "encoder"
    <3>1. w.enc[c].acc.units = << >> /\ Len(w.enc[c].acc.units) = Len(pend)
      BY <1>1, <2>1 DEF Idle, PendHolds, ChunkHolds
    <3>2. Len(pend) = 0
      BY <3>1
    <3>3. QED
      BY <3>2
  <2>2. CASE cfg.mode # "encoder"
    BY <1>1, <2>2 DEF Idle, PendHolds
  <2>3. QED
    BY <2>1, <2>2
<1>3. all = done
  BY <1>1, <1>2
<1>4. QED
  BY <1>1, <1>3 DEF ChunksHold

LEMMA ReadColIs ==
  ASSUME cfg \in Configs, dicts \in Seq(Dicts), Loads, NEW c \in Cols,
         chunks[c] \in Seq(Chunks), NEW all \in Seq(Arrays), NewHold(dicts, c, chunks[c], all)
  PROVE  ReadsAll(c, ReadCol(c), all) /\ Len(ReadCol(c)) = Len(all)
<1> DEFINE n == Len(chunks[c])
           Read(k) == ReadChunk(chunks[c][k], c)
           reads == [k \in 1 .. n |-> Read(k)]
           T == UNION {{Read(k)[i] : i \in DOMAIN Read(k)} : k \in 1 .. n}
           R == {p \in T \X Arrays : Reads(c, p[1], p[2])}
           A == Arrays
           SA == Seq(A)
           ST == Seq(T)
<1>1. PICK parts \in Seq(SA) : FlattenSeq(parts) = all /\ Paired(chunks[c], parts, Holding(dicts, c))
  BY DEF NewHold
<1>2. n \in Nat /\ DOMAIN chunks[c] = 1 .. n /\ Len(parts) = n /\ \A k \in 1 .. n : parts[k] \in SA
  BY <1>1 DEF Paired
<1>3. ASSUME NEW k \in 1 .. n
      PROVE  ReadsAll(c, Read(k), parts[k])
  <2>1. <<chunks[c][k], parts[k]>> \in Holding(dicts, c)
    BY <1>1 DEF Paired
  <2>2. chunks[c][k] \in Chunks /\ parts[k] \in Seq(Arrays) /\ ChunkHolds(dicts, c, chunks[c][k], parts[k])
    BY <2>1, HoldingIs
  <2>3. QED
    BY <2>2, ReadChunkIs
<1>4. ReadCol(c) = FlattenSeq(reads)
  BY <1>2 DEF ReadCol
<1> HIDE DEF n, SA, ST, A
<1>5. ASSUME NEW k \in 1 .. n
      PROVE  Read(k) \in ST /\ Paired(Read(k), parts[k], R)
  <2> DEFINE m == Len(parts[k])
             x == Read(k)
  <2>1. m \in Nat /\ parts[k] \in Seq(A) /\ \A i \in 1 .. m : parts[k][i] \in Arrays
    <3>1. parts[k] \in Seq(A)
      BY <1>2 DEF SA
    <3>2. QED
      BY <3>1 DEF A
  <2>2. x = [i \in 1 .. m |-> x[i]] /\ \A i \in 1 .. m : Reads(c, x[i], parts[k][i])
    BY <1>3 DEF ReadsAll
  <2>3. DOMAIN x = 1 .. m
    BY <2>2
  <2> HIDE DEF m, Read
  <2>4. ASSUME NEW i \in 1 .. m PROVE x[i] \in T
    <3>1. x[i] \in {Read(k)[j] : j \in DOMAIN Read(k)}
      BY <2>3
    <3>2. QED
      BY <3>1
  <2> HIDE DEF x, T
  <2>5. x \in [1 .. m -> T]
    BY <2>2, <2>4
  <2>6. x \in Seq(T) /\ Len(x) = m
    BY <2>1, <2>5
  <2>7. ASSUME NEW i \in 1 .. m PROVE <<x[i], parts[k][i]>> \in R
    <3>1. x[i] \in T /\ parts[k][i] \in Arrays /\ Reads(c, x[i], parts[k][i])
      BY <2>1, <2>2, <2>4
    <3>2. QED
      BY <3>1
  <2>8. QED
    BY <2>6, <2>7 DEF Paired, ST, x, m
<1> HIDE DEF Read, T
<1>6. reads \in Seq(ST) /\ Len(reads) = n /\ \A k \in 1 .. n : reads[k] = Read(k)
  <2>1. reads \in [1 .. n -> ST]
    BY <1>5
  <2>2. reads \in Seq(ST) /\ Len(reads) = n
    BY <1>2, <2>1
  <2>3. QED
    BY <2>2
<1> HIDE DEF reads, R
<1>7. Paired(reads, parts, PairedSeqs(T, A, R))
  <2>1. ASSUME NEW k \in 1 .. n
        PROVE  <<reads[k], parts[k]>> \in PairedSeqs(T, A, R)
    <3>1. reads[k] \in Seq(T) /\ parts[k] \in Seq(A) /\ Paired(reads[k], parts[k], R)
      BY <1>2, <1>5, <1>6 DEF ST, SA
    <3>2. QED
      BY <3>1 DEF PairedSeqs
  <2>2. QED
    BY <1>2, <1>6, <2>1 DEF Paired
<1>8. Paired(ReadCol(c), all, R)
  <2>1. reads \in Seq(Seq(T)) /\ parts \in Seq(Seq(A))
    BY <1>1, <1>6 DEF ST, SA
  <2>2. Paired(FlattenSeq(reads), FlattenSeq(parts), R)
    BY <1>7, <2>1, PairedFlatten
  <2>3. QED
    BY <1>1, <1>4, <2>2
<1>9. ReadCol(c) \in Seq(T)
  <2>1. reads \in Seq(Seq(T))
    BY <1>6 DEF ST
  <2>2. QED
    BY <1>4, <2>1, FlattenType
<1>10. Len(ReadCol(c)) = Len(all) /\ \A k \in 1 .. Len(all) : Reads(c, ReadCol(c)[k], all[k])
  BY <1>8 DEF Paired, R
<1>11. ReadCol(c) = [k \in 1 .. Len(all) |-> ReadCol(c)[k]]
  BY <1>9, <1>10
<1>12. QED
  BY <1>10, <1>11 DEF ReadsAll

-----------------------------------------------------------------------------
(***************************************************************************)
(* The loops of submit_dict, merge_dicts and estimate_jaccard are folds.   *)
(* Their steps, and the recursion they have in common.                     *)
(***************************************************************************)
Known(self, s, v) == IF v \in ToSet(self) THEN Append(s, v) ELSE s
Mean(q, w) == <<q[1] * w.collected + w.common * q[2], q[2] * w.collected>>

Work(kind, p, x, y) ==
  CASE kind = "common" -> Known(p, x, y)
    [] kind = "values" -> SubmitValues(x, y)
    [] kind = "submit" -> SubmitDict(x, y)
    [] kind = "finish" -> FinishCol(x, y, p)
    [] kind = "merge" -> MergeEdge(x, y)
    [] kind = "walk" -> WalkStep(x, p[1], p[2])
    [] kind = "mean" -> Mean(x, y)

LEMMA WorkIs ==
  ASSUME NEW p, NEW x, NEW y
  PROVE  /\ Work("common", p, x, y) = Known(p, x, y)
         /\ Work("values", p, x, y) = SubmitValues(x, y)
         /\ Work("submit", p, x, y) = SubmitDict(x, y)
         /\ Work("finish", p, x, y) = FinishCol(x, y, p)
         /\ Work("merge", p, x, y) = MergeEdge(x, y)
         /\ Work("walk", p, x, y) = WalkStep(x, p[1], p[2])
         /\ Work("mean", p, x, y) = Mean(x, y)
  BY Zenon DEF Work

Works(g, kind, p, base, seq, n) ==
  g = [s \in SUBSET (1 .. n) |->
         IF s = {} THEN base ELSE Work(kind, p, g[s \ {Max(s)}], seq[Max(s)])]

LEMMA WorkExists ==
  ASSUME NEW kind, NEW p, NEW base, NEW seq
  PROVE  \A n \in Nat : \E g : Works(g, kind, p, base, seq, n)
<1> DEFINE S == {n \in Nat : \E g : Works(g, kind, p, base, seq, n)}
<1>1. 0 \in S
  <2> DEFINE g == [s \in SUBSET (1 .. 0) |-> base]
  <2>1. \A s \in SUBSET (1 .. 0) : s = {}
    OBVIOUS
  <2>2. Works(g, kind, p, base, seq, 0)
    BY <2>1 DEF Works
  <2>3. QED
    BY <2>2
<1>2. ASSUME NEW n \in Nat, n \in S
      PROVE  n + 1 \in S
  <2>1. PICK g : Works(g, kind, p, base, seq, n)
    BY <1>2
  <2> DEFINE h == [s \in SUBSET (1 .. n + 1) |->
                     IF n + 1 \in s THEN Work(kind, p, g[s \ {n + 1}], seq[n + 1]) ELSE g[s]]
  <2>2. ASSUME NEW s \in SUBSET (1 .. n + 1)
        PROVE  h[s] = IF s = {} THEN base ELSE Work(kind, p, h[s \ {Max(s)}], seq[Max(s)])
    <3>1. CASE n + 1 \in s
      <4>1. s # {} /\ n + 1 \in Nat
        BY <3>1
      <4>2. Max(s) = n + 1
        <5>1. Max(s) \in 1 .. n + 1 /\ Max(s) >= n + 1
          BY <3>1, <4>1, MaxOf
        <5>2. QED
          BY <5>1
      <4>3. s \ {n + 1} \in SUBSET (1 .. n + 1) /\ n + 1 \notin s \ {n + 1}
        OBVIOUS
      <4>4. h[s \ {n + 1}] = g[s \ {n + 1}]
        BY <4>3
      <4>5. h[s] = Work(kind, p, g[s \ {n + 1}], seq[n + 1])
        BY <3>1
      <4>6. QED
        BY <4>1, <4>2, <4>4, <4>5
    <3>2. CASE n + 1 \notin s
      <4>1. s \in SUBSET (1 .. n)
        BY <3>2
      <4>2. h[s] = g[s]
        BY <3>2
      <4>3. g[s] = IF s = {} THEN base ELSE Work(kind, p, g[s \ {Max(s)}], seq[Max(s)])
        BY <2>1, <4>1 DEF Works
      <4>4. s \ {Max(s)} \in SUBSET (1 .. n + 1) /\ n + 1 \notin s \ {Max(s)}
        BY <3>2
      <4>5. h[s \ {Max(s)}] = g[s \ {Max(s)}]
        BY <4>4
      <4>6. QED
        BY <4>2, <4>3, <4>5
    <3>3. QED
      BY <3>1, <3>2
  <2>3. h = [s \in SUBSET (1 .. n + 1) |-> h[s]]
    OBVIOUS
  <2> HIDE DEF h
  <2>4. Works(h, kind, p, base, seq, n + 1)
    <3> DEFINE r == [s \in SUBSET (1 .. n + 1) |->
                       IF s = {} THEN base ELSE Work(kind, p, h[s \ {Max(s)}], seq[Max(s)])]
    <3>1. h = r
      BY <2>2, <2>3
    <3>2. QED
      BY <3>1 DEF Works
  <2>5. QED
    BY <2>4
<1> HIDE DEF S
<1>3. \A n \in Nat : n \in S
  BY <1>1, <1>2, AllNaturals
<1>4. QED
  BY <1>3 DEF S

(* The recursion along the sequence.                                       *)
Runs(h, kind, p, base, seq, n) ==
  h[0] = base /\ \A k \in 1 .. n : h[k] = Work(kind, p, h[k - 1], seq[k])

LEMMA WorkSteps ==
  ASSUME NEW kind, NEW p, NEW base, NEW seq, NEW n \in Nat, NEW c, Works(c, kind, p, base, seq, n)
  PROVE  \E h : Runs(h, kind, p, base, seq, n) /\ h[n] = c[1 .. n]
<1>1. \A s \in SUBSET (1 .. n) :
        c[s] = IF s = {} THEN base ELSE Work(kind, p, c[s \ {Max(s)}], seq[Max(s)])
  BY DEF Works
<1> DEFINE h == [k \in 0 .. n |-> c[1 .. k]]
<1>2. h[0] = base /\ h[n] = c[1 .. n]
  <2>1. 1 .. 0 = {} /\ {} \in SUBSET (1 .. n) /\ 0 \in 0 .. n /\ n \in 0 .. n
    OBVIOUS
  <2>2. QED
    BY <1>1, <2>1
<1>3. ASSUME NEW k \in 1 .. n
      PROVE  h[k] = Work(kind, p, h[k - 1], seq[k])
  <2>1. k \in Nat /\ k # 0 /\ k \in 0 .. n /\ k - 1 \in 0 .. n /\ 1 .. k \in SUBSET (1 .. n)
    OBVIOUS
  <2>2. 1 .. k # {} /\ Max(1 .. k) = k /\ (1 .. k) \ {k} = 1 .. k - 1
    BY <2>1, MaxPrefix
  <2>3. c[1 .. k] = Work(kind, p, c[1 .. k - 1], seq[k])
    BY <1>1, <2>1, <2>2
  <2>4. QED
    BY <2>1, <2>3
<1> HIDE DEF h
<1>4. QED
  BY <1>2, <1>3 DEF Runs

LEMMA CommonFold ==
  ASSUME NEW T, NEW self, NEW other \in Seq(T)
  PROVE  \E h : /\ h[0] = << >> /\ Common(self, other) = h[Len(other)]
                /\ \A k \in 1 .. Len(other) : h[k] = Known(self, h[k - 1], other[k])
<1> DEFINE n == Len(other)
           Is(f) == f = [s \in SUBSET DOMAIN other |->
                      IF s = {} THEN << >> ELSE Known(self, f[s \ {Max(s)}], other[Max(s)])]
           c == CHOOSE f : Is(f)
<1>1. n \in Nat /\ DOMAIN other = 1 .. n
  OBVIOUS
<1>2. \A x, y : Work("common", self, x, y) = Known(self, x, y)
  BY WorkIs, Zenon
<1>3. \A f : Works(f, "common", self, << >>, other, n) <=> Is(f)
  BY <1>1, <1>2 DEF Works
<1>4. \E f : Is(f)
  BY <1>1, <1>3, WorkExists
<1>5. Is(c)
  BY <1>4, Zenon
<1>6. Common(self, other) = c[DOMAIN other]
  BY Zenon DEF Common, FoldLeft, MapThenFoldSet, Known
<1> HIDE DEF c
<1>7. Works(c, "common", self, << >>, other, n)
  BY <1>3, <1>5
<1> HIDE DEF Is, n
<1>8. PICK h : Runs(h, "common", self, << >>, other, n) /\ h[n] = c[1 .. n]
  BY <1>1, <1>7, WorkSteps
<1>9. QED
  BY <1>1, <1>2, <1>6, <1>8 DEF n, Runs

-----------------------------------------------------------------------------
(***************************************************************************)
(* merge_with.                                                             *)
(***************************************************************************)
LEMMA AppendNew ==
  ASSUME NEW V, NEW d \in Seq(V), IsInjective(d), NEW v \in V, v \notin ToSet(d)
  PROVE  /\ Append(d, v) \in Seq(V) /\ IsInjective(Append(d, v))
         /\ \A x : x \in ToSet(Append(d, v)) <=> x \in ToSet(d) \/ x = v
<1> DEFINE a == Append(d, v)
<1>1. /\ a \in Seq(V) /\ Len(a) = Len(d) + 1 /\ Len(d) \in Nat /\ a[Len(d) + 1] = v
      /\ \A i \in 1 .. Len(d) : a[i] = d[i]
  BY AppendIs
<1> HIDE DEF a
<1>2. DOMAIN d = 1 .. Len(d) /\ \A i \in 1 .. Len(d) : d[i] # v /\ d[i] \in ToSet(d)
  BY InToSet
<1>3. IsInjective(a)
  <2> SUFFICES ASSUME NEW x \in 1 .. Len(d) + 1, NEW y \in 1 .. Len(d) + 1, a[x] = a[y]
               PROVE  x = y
    BY <1>1 DEF IsInjective
  <2>1. CASE x \in 1 .. Len(d) /\ y \in 1 .. Len(d)
    BY <1>1, <1>2, <2>1 DEF IsInjective
  <2>2. CASE x = Len(d) + 1 \/ y = Len(d) + 1
    BY <1>1, <1>2, <2>2
  <2>3. QED
    BY <1>1, <2>1, <2>2
<1>4. \A x : x \in ToSet(a) <=> x \in ToSet(d) \/ x = v
  <2>1. \A x \in ToSet(d) : \E i \in 1 .. Len(d) : d[i] = x
    BY InToSet
  <2>2. /\ \A i \in 1 .. Len(a) : a[i] \in ToSet(a)
        /\ \A x \in ToSet(a) : \E i \in 1 .. Len(a) : a[i] = x
    BY <1>1, InToSet
  <2>3. QED
    BY <1>1, <1>2, <2>1, <2>2
<1>5. QED
  BY <1>1, <1>3, <1>4 DEF a

(* The common values, in the order of the other dictionary.                *)
LEMMA CommonIs ==
  ASSUME NEW V, NEW self \in Seq(V), NEW other \in Seq(V), IsInjective(other)
  PROVE  /\ Common(self, other) \in Seq(V) /\ IsInjective(Common(self, other))
         /\ \A x : x \in ToSet(Common(self, other)) <=> x \in ToSet(self) /\ x \in ToSet(other)
<1> DEFINE n == Len(other)
<1>1. n \in Nat /\ DOMAIN other = 1 .. n /\ \A i \in 1 .. n : other[i] \in V
  OBVIOUS
<1>2. PICK h : /\ h[0] = << >> /\ Common(self, other) = h[n]
               /\ \A k \in 1 .. n : h[k] = Known(self, h[k - 1], other[k])
  BY CommonFold
<1>2a. /\ \A i \in 1 .. n : other[i] \in ToSet(other)
       /\ \A x \in ToSet(other) : \E i \in 1 .. n : other[i] = x
  BY InToSet
<1> HIDE DEF n
<1> DEFINE Good(k) == /\ h[k] \in Seq(V) /\ IsInjective(h[k])
                      /\ \A x : x \in ToSet(h[k]) <=> x \in ToSet(self) /\ \E i \in 1 .. k : other[i] = x
           S == {k \in Nat : k <= n => Good(k)}
<1>3. 0 \in S
  <2>1. h[0] \in Seq(V) /\ IsInjective(h[0]) /\ ToSet(h[0]) = {}
    BY <1>2 DEF IsInjective, ToSet
  <2>2. 1 .. 0 = {}
    OBVIOUS
  <2>3. QED
    BY <2>1, <2>2
<1>4. ASSUME NEW k \in Nat, k \in S
      PROVE  k + 1 \in S
  <2> SUFFICES ASSUME k + 1 <= n PROVE Good(k + 1)
    OBVIOUS
  <2>1. Good(k) /\ k + 1 \in 1 .. n /\ k + 1 - 1 = k
    BY <1>1, <1>4
  <2> DEFINE e == h[k]
             v == other[k + 1]
  <2>2. h[k + 1] = Known(self, e, v) /\ v \in V
    BY <1>1, <1>2, <2>1
  <2>3. /\ e \in Seq(V) /\ IsInjective(e)
        /\ \A x : x \in ToSet(e) <=> x \in ToSet(self) /\ \E i \in 1 .. k : other[i] = x
    BY <2>1
  <2>4. \A x : (\E i \in 1 .. k + 1 : other[i] = x) <=> (\E i \in 1 .. k : other[i] = x) \/ x = v
    <3>1. \A i : i \in 1 .. k + 1 <=> i \in 1 .. k \/ i = k + 1
      OBVIOUS
    <3>2. QED
      BY <3>1
  <2>5. CASE v \notin ToSet(self)
    <3>1. h[k + 1] = e
      BY <2>2, <2>5 DEF Known
    <3>2. QED
      BY <2>3, <2>4, <2>5, <3>1
  <2>6. CASE v \in ToSet(self)
    <3>1. h[k + 1] = Append(e, v)
      BY <2>2, <2>6 DEF Known
    <3>2. v \notin ToSet(e)
      <4>1. k + 1 \in 1 .. n /\ \A i \in 1 .. k : i \in 1 .. n /\ i # k + 1
        BY <1>1
      <4>2. \A x, y \in 1 .. n : other[x] = other[y] => x = y
        BY <1>1 DEF IsInjective
      <4>2a. \A i \in 1 .. k : other[i] # other[k + 1]
        BY <4>1, <4>2
      <4> HIDE DEF e
      <4>3. QED
        BY <2>3, <4>2a
    <3> HIDE DEF e, v
    <3>3. /\ Append(e, v) \in Seq(V) /\ IsInjective(Append(e, v))
          /\ \A x : x \in ToSet(Append(e, v)) <=> x \in ToSet(e) \/ x = v
      BY <2>2, <2>3, <3>2, AppendNew
    <3>4. QED
      BY <2>3, <2>4, <2>6, <3>1, <3>3
  <2>7. QED
    BY <2>5, <2>6
<1> HIDE DEF S, Good
<1>5. \A k \in Nat : k \in S
  BY <1>3, <1>4, AllNaturals
<1>6. Good(n)
  BY <1>1, <1>5 DEF S
<1>7. \A x : x \in ToSet(other) <=> \E i \in 1 .. n : other[i] = x
  BY <1>2a
<1>8. /\ h[n] \in Seq(V) /\ IsInjective(h[n])
      /\ \A x : x \in ToSet(h[n]) <=> x \in ToSet(self) /\ \E i \in 1 .. n : other[i] = x
  BY <1>6 DEF Good
<1>9. QED
  BY <1>2, <1>7, <1>8

(* submit_values adds nothing but the values, and nothing if it has them.  *)
LEMMA SubmitOnly ==
  ASSUME NEW V, NEW d \in Seq(V), NEW values \in Seq(V \cup {Null})
  PROVE  /\ \A x \in ToSet(Submit(d, values)) : x \in ToSet(d) \/ \E i \in 1 .. Len(values) : values[i] = x
         /\ (\A i \in 1 .. Len(values) : values[i] # Null => values[i] \in ToSet(d)) =>
              Submit(d, values) = d
<1> DEFINE n == Len(values)
<1>1. n \in Nat /\ \A i \in 1 .. n : values[i] \in V \cup {Null}
  OBVIOUS
<1>2. PICK h : /\ h[0] = d
               /\ \A k \in 1 .. n : h[k] = Submitted(h[k - 1], values[k])
               /\ Submit(d, values) = h[n]
  BY SubmitFold
<1> HIDE DEF n
<1> DEFINE All == \A i \in 1 .. n : values[i] # Null => values[i] \in ToSet(d)
           Good(k) == /\ h[k] \in Seq(V)
                      /\ \A x \in ToSet(h[k]) : x \in ToSet(d) \/ \E i \in 1 .. n : values[i] = x
                      /\ All => h[k] = d
           S == {k \in Nat : k <= n => Good(k)}
<1> HIDE DEF All
<1>3. 0 \in S
  BY <1>2
<1>4. ASSUME NEW k \in Nat, k \in S
      PROVE  k + 1 \in S
  <2> SUFFICES ASSUME k + 1 <= n PROVE Good(k + 1)
    OBVIOUS
  <2>1. Good(k) /\ k + 1 \in 1 .. n /\ k + 1 - 1 = k
    BY <1>1, <1>4
  <2> DEFINE e == h[k]
             v == values[k + 1]
  <2>2. h[k + 1] = Submitted(e, v) /\ v \in V \cup {Null}
    BY <1>1, <1>2, <2>1
  <2>3. CASE v = Null \/ v \in ToSet(e)
    BY <2>1, <2>2, <2>3 DEF Submitted
  <2>4. CASE ~(v = Null \/ v \in ToSet(e))
    <3>1. h[k + 1] = Append(e, v) /\ v \in V /\ e \in Seq(V)
      BY <2>1, <2>2, <2>4 DEF Submitted
    <3>2. ~ All
      BY <2>1, <2>4 DEF All
    <3>3. /\ Append(e, v) \in Seq(V) /\ Len(Append(e, v)) = Len(e) + 1 /\ Len(e) \in Nat
          /\ Append(e, v)[Len(e) + 1] = v /\ \A i \in 1 .. Len(e) : Append(e, v)[i] = e[i]
      BY <3>1, AppendIs
    <3>4. \A x \in ToSet(Append(e, v)) : \E i \in 1 .. Len(e) + 1 : Append(e, v)[i] = x
      BY <3>3, InToSet, ZenonT(30)
    <3>5. \A i \in 1 .. Len(e) : e[i] \in ToSet(e)
      BY <3>1, InToSet
    <3>6. \A x \in ToSet(Append(e, v)) : x \in ToSet(e) \/ x = v
      BY <3>3, <3>4, <3>5
    <3> HIDE DEF e
    <3>7. QED
      BY <2>1, <3>1, <3>2, <3>3, <3>6 DEF e
  <2>5. QED
    BY <2>3, <2>4
<1> HIDE DEF S
<1>5. \A k \in Nat : k \in S
  BY <1>3, <1>4, AllNaturals
<1>6. Good(n)
  BY <1>1, <1>5 DEF S
<1>7. QED
  BY <1>2, <1>6 DEF n, All

(* e has the values of d in another order, those of c in front.            *)
Reordered(V, d, e, c) ==
  /\ e \in Seq(V) /\ IsInjective(e) /\ Begins(e, c)
  /\ \A x : x \in ToSet(e) <=> x \in ToSet(d)

(* Both dictionaries keep their values, and start with the common ones.    *)
LEMMA MergeWithIs ==
  ASSUME NEW V, Null \notin V, NEW self \in Seq(V), NEW other \in Seq(V),
         IsInjective(self), IsInjective(other)
  PROVE  LET r == MergeWith(self, other)
             c == Common(self, other)
         IN /\ r.len = Len(c) /\ c \in Seq(V)
            /\ \A x : x \in ToSet(c) <=> x \in ToSet(self) /\ x \in ToSet(other)
            /\ r.len # 0 => Reordered(V, self, r.self, c) /\ Reordered(V, other, r.other, c)
<1> DEFINE r == MergeWith(self, other)
           c == Common(self, other)
<1>1. /\ c \in Seq(V) /\ IsInjective(c) /\ Len(c) \in Nat
      /\ \A x : x \in ToSet(c) <=> x \in ToSet(self) /\ x \in ToSet(other)
  BY CommonIs
<1>2. /\ r.len = Len(c) /\ r.self = (IF c = << >> THEN self ELSE Submit(c, self))
      /\ r.other = (IF c = << >> THEN other ELSE Submit(c, other))
  BY DEF MergeWith
<1> HIDE DEF r, c
<1>3. ASSUME NEW d \in Seq(V), IsInjective(d), \A x \in ToSet(c) : x \in ToSet(d)
      PROVE  Reordered(V, d, Submit(c, d), c)
  <2> DEFINE e == Submit(c, d)
  <2>0. d \in Seq(V \cup {Null}) /\ Len(d) \in Nat
    BY <1>3
  <2>1. /\ e \in Seq(V) /\ IsInjective(e) /\ Begins(e, c)
        /\ \A i \in 1 .. Len(d) : d[i] # Null => d[i] \in ToSet(e)
    BY <1>1, <2>0, SubmitIs
  <2>2. \A x \in ToSet(e) : x \in ToSet(c) \/ \E i \in 1 .. Len(d) : d[i] = x
    BY <1>1, <2>0, SubmitOnly
  <2>3. /\ \A i \in 1 .. Len(d) : d[i] \in V /\ d[i] \in ToSet(d)
        /\ \A x \in ToSet(d) : \E i \in 1 .. Len(d) : d[i] = x
    BY <1>3, InToSet
  <2> HIDE DEF e
  <2>4. \A x : x \in ToSet(e) <=> x \in ToSet(d)
    <3>1. ASSUME NEW x \in ToSet(e) PROVE x \in ToSet(d)
      BY <1>3, <2>2, <2>3
    <3>2. ASSUME NEW x \in ToSet(d) PROVE x \in ToSet(e)
      BY <2>1, <2>3
    <3>3. QED
      BY <3>1, <3>2
  <2>5. QED
    BY <2>1, <2>4 DEF Reordered, e
<1>4. Reordered(V, self, Submit(c, self), c) /\ Reordered(V, other, Submit(c, other), c)
  BY <1>1, <1>3
<1>5. r.len # 0 => c # << >>
  BY <1>2
<1>6. QED
  BY <1>1, <1>2, <1>4, <1>5 DEF r, c

-----------------------------------------------------------------------------
(***************************************************************************)
(* merge_dicts: the estimates are fractions, so the pairs have an order.   *)
(***************************************************************************)
LEMMA MinOfTwo ==
  ASSUME NEW a \in Nat, NEW b \in Nat
  PROVE  (Min({a, b}) = a \/ Min({a, b}) = b) /\ Min({a, b}) <= a /\ Min({a, b}) <= b
<1>1. \E x \in {a, b} : \A y \in {a, b} : x <= y
  <2>1. CASE a <= b
    BY <2>1
  <2>2. CASE b <= a
    BY <2>2
  <2>3. QED
    BY <2>1, <2>2
<1>2. Min({a, b}) \in {a, b} /\ \A y \in {a, b} : Min({a, b}) <= y
  BY <1>1 DEF Min
<1>3. QED
  BY <1>2

(* A sketch of a dictionary with values is not empty.                      *)
LEMMA BottomKIs ==
  ASSUME NEW V, NEW d \in Seq(V), Len(d) # 0, NEW h
  PROVE  Len(BottomK(d, h)) \in Nat \ {0}
<1> DEFINE n == Len(d)
           iter == DictHashIter(d, h)
           Nth(k) == CHOOSE x \in ToSet(iter) :
                       /\ Cardinality({i \in DOMAIN iter : iter[i] < x}) < k
                       /\ Cardinality({i \in DOMAIN iter : iter[i] <= x}) >= k
           all == Sorted(iter)
           m == Min({SketchLen, Len(all)})
           T == {Nth(k) : k \in 1 .. n}
<1>1. n \in Nat \ {0} /\ DOMAIN d = 1 .. n
  OBVIOUS
<1>2. DOMAIN iter = 1 .. n
  BY <1>1 DEF DictHashIter
<1>3. all = [k \in 1 .. n |-> Nth(k)]
  BY <1>2, Zenon DEF Sorted
<1> HIDE DEF Nth, iter, all
<1>4. all \in Seq(T) /\ Len(all) = n
  BY <1>1, <1>3
<1>5. m \in Nat \ {0} /\ m <= n
  BY <1>1, <1>4, SketchAssumption, MinOfTwo
<1> HIDE DEF m, T, n
<1>6. Len(SubSeq(all, 1, m)) = m
  BY <1>1, <1>4, <1>5
<1>7. BottomK(d, h) = SubSeq(all, 1, m)
  BY Zenon DEF BottomK, all, iter, m
<1>8. QED
  BY <1>5, <1>6, <1>7

Walks(a, b) == [i : 0 .. Len(a), j : 0 .. Len(b), collected : Nat, common : Nat, done : BOOLEAN]
WalkStart == [i |-> 0, j |-> 0, collected |-> 0, common |-> 0, done |-> FALSE]
WalkTurns == [k \in 1 .. SketchLen |-> k]

LEMMA WalkFold ==
  ASSUME NEW p, WalkTurns \in Seq(Nat)
  PROVE  \E h : /\ h[0] = WalkStart /\ Walk(p[1], p[2]) = h[Len(WalkTurns)]
                /\ \A k \in 1 .. Len(WalkTurns) : h[k] = WalkStep(h[k - 1], p[1], p[2])
<1> DEFINE n == Len(WalkTurns)
           Is(f) == f = [s \in SUBSET DOMAIN WalkTurns |->
                      IF s = {} THEN WalkStart ELSE WalkStep(f[s \ {Max(s)}], p[1], p[2])]
           c == CHOOSE f : Is(f)
<1>1. n \in Nat /\ DOMAIN WalkTurns = 1 .. n
  OBVIOUS
<1>2. \A x, y : Work("walk", p, x, y) = WalkStep(x, p[1], p[2])
  BY WorkIs, Zenon
<1>3. \A f : Works(f, "walk", p, WalkStart, WalkTurns, n) <=> Is(f)
  BY <1>1, <1>2 DEF Works
<1>4. \E f : Is(f)
  BY <1>1, <1>3, WorkExists
<1>5. Is(c)
  BY <1>4, Zenon
<1>6. Walk(p[1], p[2]) = c[DOMAIN WalkTurns]
  BY Zenon DEF Walk, WalkStart, WalkTurns, FoldLeft, MapThenFoldSet
<1> HIDE DEF c
<1>7. Works(c, "walk", p, WalkStart, WalkTurns, n)
  BY <1>3, <1>5
<1> HIDE DEF Is, n
<1>8. PICK h : Runs(h, "walk", p, WalkStart, WalkTurns, n) /\ h[n] = c[1 .. n]
  BY <1>1, <1>7, WorkSteps
<1>9. QED
  BY <1>1, <1>2, <1>6, <1>8 DEF n, Runs

LEMMA WalkStepIs ==
  ASSUME NEW a, NEW b, Len(a) \in Nat \ {0}, Len(b) \in Nat \ {0}, NEW s \in Walks(a, b)
  PROVE  LET t == WalkStep(s, a, b)
         IN /\ t \in Walks(a, b)
            /\ s.collected # 0 \/ s = WalkStart => t.collected # 0
<1> DEFINE t == WalkStep(s, a, b)
           la == Len(a)
           lb == Len(b)
<1>1. /\ s.i \in 0 .. la /\ s.j \in 0 .. lb /\ s.collected \in Nat /\ s.common \in Nat
      /\ s.done \in BOOLEAN /\ la \in Nat \ {0} /\ lb \in Nat \ {0}
  BY DEF Walks
<1> DEFINE W == [i : 0 .. la, j : 0 .. lb, collected : Nat, common : Nat, done : BOOLEAN]
           Rec(i, j, n, m, d) == [i |-> i, j |-> j, collected |-> n, common |-> m, done |-> d]
<1>2. W = Walks(a, b) /\ s = Rec(s.i, s.j, s.collected, s.common, s.done)
  BY DEF Walks
<1> SUFFICES t \in W /\ (s.collected # 0 \/ s = WalkStart => t.collected # 0)
  BY <1>2 DEF t
<1> HIDE DEF t, la, lb, W, Rec
<1>4. CASE s.done
  <2>1. t = s
    BY <1>4 DEF WalkStep, t
  <2>2. s # WalkStart
    BY <1>4 DEF WalkStart
  <2>3. QED
    BY <1>2, <2>1, <2>2
<1>5. CASE ~ s.done /\ s.i = la
  <2> DEFINE n == Min({SketchLen, s.collected + lb - s.j})
  <2>1. t = Rec(s.i, s.j, n, s.common, TRUE)
    BY <1>2, <1>5, Zenon DEF WalkStep, t, la, lb, Rec
  <2>2. s.collected + lb - s.j \in Nat /\ (s.collected # 0 => s.collected + lb - s.j # 0)
    BY <1>1, SMTT(30)
  <2>3. n \in Nat /\ (s.collected # 0 => n # 0)
    BY <2>2, SketchAssumption, MinOfTwo
  <2>4. s # WalkStart
    BY <1>1, <1>5 DEF WalkStart
  <2> HIDE DEF n
  <2>5. t \in W /\ t.collected = n
    BY <1>1, <2>1, <2>3, Zenon DEF Rec, W
  <2>6. QED
    BY <1>2, <2>3, <2>4, <2>5
<1>6. CASE ~ s.done /\ s.i # la /\ s.j = lb
  <2> DEFINE n == Min({SketchLen, s.collected + la - s.i})
  <2>1. t = Rec(s.i, s.j, n, s.common, TRUE)
    BY <1>2, <1>6, Zenon DEF WalkStep, t, la, lb, Rec
  <2>2. s.collected + la - s.i \in Nat /\ (s.collected # 0 => s.collected + la - s.i # 0)
    BY <1>1, SMTT(30)
  <2>3. n \in Nat /\ (s.collected # 0 => n # 0)
    BY <2>2, SketchAssumption, MinOfTwo
  <2>4. s # WalkStart
    BY <1>1, <1>6 DEF WalkStart
  <2> HIDE DEF n
  <2>5. t \in W /\ t.collected = n
    BY <1>1, <2>1, <2>3, Zenon DEF Rec, W
  <2>6. QED
    BY <1>2, <2>3, <2>4, <2>5
<1>7. CASE ~ s.done /\ s.i # la /\ s.j # lb
  <2> DEFINE x == a[s.i + 1]
             y == b[s.j + 1]
             m == IF x = y THEN s.common + 1 ELSE s.common
             i == IF x <= y THEN s.i + 1 ELSE s.i
             j == IF y <= x THEN s.j + 1 ELSE s.j
  <2>1. t = Rec(i, j, s.collected + 1, m, s.done)
    BY <1>2, <1>7, Zenon DEF WalkStep, t, la, lb, Rec
  <2>2. (m = s.common + 1 \/ m = s.common) /\ (i = s.i + 1 \/ i = s.i) /\ (j = s.j + 1 \/ j = s.j)
    BY Zenon
  <2> DEFINE si == s.i
             sj == s.j
             sm == s.common
             sn == s.collected
  <2>3. m \in Nat /\ i \in 0 .. la /\ j \in 0 .. lb /\ s.collected + 1 \in Nat /\ s.collected + 1 # 0
    <3>1. /\ si \in 0 .. la /\ sj \in 0 .. lb /\ sn \in Nat /\ sm \in Nat /\ la \in Nat /\ lb \in Nat
          /\ si # la /\ sj # lb
          /\ (m = sm + 1 \/ m = sm) /\ (i = si + 1 \/ i = si) /\ (j = sj + 1 \/ j = sj)
      BY <1>1, <1>7, <2>2, Zenon
    <3> HIDE DEF x, y, m, i, j, si, sj, sm, sn
    <3>2. m \in Nat /\ sn + 1 \in Nat /\ sn + 1 # 0
      BY <3>1
    <3>3. i \in 0 .. la
      BY <3>1
    <3>4. j \in 0 .. lb
      BY <3>1
    <3>5. QED
      BY <3>2, <3>3, <3>4, Zenon DEF sn
  <2> HIDE DEF m, i, j
  <2>4. t \in W /\ t.collected = s.collected + 1
    BY <1>1, <2>1, <2>3, Zenon DEF Rec, W
  <2>5. QED
    BY <1>2, <2>3, <2>4
<1>8. QED
  BY <1>1, <1>4, <1>5, <1>6, <1>7

(* A walk over two sketches collects something.                            *)
LEMMA WalkIs ==
  ASSUME NEW a, NEW b, Len(a) \in Nat \ {0}, Len(b) \in Nat \ {0}
  PROVE  Walk(a, b).collected \in Nat \ {0} /\ Walk(a, b).common \in Nat
<1> DEFINE p == <<a, b>>
<1>1. p[1] = a /\ p[2] = b
  OBVIOUS
<1> HIDE DEF p
<1>2. WalkTurns \in Seq(Nat) /\ Len(WalkTurns) = SketchLen /\ SketchLen \in Nat \ {0}
  BY SketchAssumption DEF WalkTurns
<1>3. PICK h : /\ h[0] = WalkStart /\ Walk(a, b) = h[SketchLen]
               /\ \A k \in 1 .. SketchLen : h[k] = WalkStep(h[k - 1], a, b)
  BY <1>1, <1>2, WalkFold
<1> DEFINE Good(k) == h[k] \in Walks(a, b) /\ (h[k].collected # 0 \/ (k = 0 /\ h[k] = WalkStart))
           S == {k \in Nat : k <= SketchLen => Good(k)}
<1>4. 0 \in S
  <2>1. WalkStart \in Walks(a, b)
    BY DEF Walks, WalkStart
  <2>2. QED
    BY <1>3, <2>1
<1>5. ASSUME NEW k \in Nat, k \in S
      PROVE  k + 1 \in S
  <2> SUFFICES ASSUME k + 1 <= SketchLen PROVE Good(k + 1)
    OBVIOUS
  <2>1. Good(k) /\ k + 1 \in 1 .. SketchLen /\ k + 1 - 1 = k
    BY <1>2, <1>5
  <2>2. h[k + 1] = WalkStep(h[k], a, b)
    BY <1>3, <2>1
  <2>3. QED
    BY <2>1, <2>2, WalkStepIs
<1> HIDE DEF S, Good
<1>5a. \A k \in Nat : k \in S
  BY <1>4, <1>5, AllNaturals
<1>6. Good(SketchLen)
  BY <1>2, <1>5a DEF S
<1>7. h[SketchLen] \in Walks(a, b) /\ h[SketchLen].collected # 0
  BY <1>2, <1>6 DEF Good
<1>8. QED
  BY <1>3, <1>7 DEF Walks

(* Fractions with a positive denominator.                                  *)
Fraction(q) == q[1] \in Nat /\ q[2] \in Nat \ {0}
MeanOf(ws) == FoldLeft(Mean, <<0, 1>>, ws)
Walked(w) == w.collected \in Nat \ {0} /\ w.common \in Nat

LEMMA MeanFold ==
  ASSUME NEW T, NEW ws \in Seq(T)
  PROVE  \E h : /\ h[0] = <<0, 1>> /\ MeanOf(ws) = h[Len(ws)]
                /\ \A k \in 1 .. Len(ws) : h[k] = Mean(h[k - 1], ws[k])
<1> DEFINE n == Len(ws)
           Is(f) == f = [s \in SUBSET DOMAIN ws |->
                      IF s = {} THEN <<0, 1>> ELSE Mean(f[s \ {Max(s)}], ws[Max(s)])]
           c == CHOOSE f : Is(f)
<1>1. n \in Nat /\ DOMAIN ws = 1 .. n
  OBVIOUS
<1>2. \A x, y : Work("mean", 0, x, y) = Mean(x, y)
  BY WorkIs, ZenonT(30)
<1>3. \A f : Works(f, "mean", 0, <<0, 1>>, ws, n) <=> Is(f)
  BY <1>1, <1>2 DEF Works
<1>4. \E f : Is(f)
  BY <1>1, <1>3, WorkExists
<1>5. Is(c)
  BY <1>4, Zenon
<1>6. MeanOf(ws) = c[DOMAIN ws]
  BY Zenon DEF MeanOf, FoldLeft, MapThenFoldSet
<1> HIDE DEF c
<1>7. Works(c, "mean", 0, <<0, 1>>, ws, n)
  BY <1>3, <1>5
<1> HIDE DEF Is, n
<1>8. PICK h : Runs(h, "mean", 0, <<0, 1>>, ws, n) /\ h[n] = c[1 .. n]
  BY <1>1, <1>7, WorkSteps
<1>9. QED
  BY <1>1, <1>2, <1>6, <1>8 DEF n, Runs

LEMMA MeanIs ==
  ASSUME NEW T, NEW ws \in Seq(T), \A k \in 1 .. Len(ws) : Walked(ws[k])
  PROVE  Fraction(MeanOf(ws))
<1> DEFINE n == Len(ws)
<1>1. n \in Nat
  OBVIOUS
<1>2. PICK h : /\ h[0] = <<0, 1>> /\ MeanOf(ws) = h[n]
               /\ \A k \in 1 .. n : h[k] = Mean(h[k - 1], ws[k])
  BY MeanFold
<1> HIDE DEF n
<1> DEFINE S == {k \in Nat : k <= n => Fraction(h[k])}
<1>3. 0 \in S
  <2>1. Fraction(<<0, 1>>)
    BY DEF Fraction
  <2>2. QED
    BY <1>2, <2>1
<1>4. ASSUME NEW k \in Nat, k \in S
      PROVE  k + 1 \in S
  <2> SUFFICES ASSUME k + 1 <= n PROVE Fraction(h[k + 1])
    OBVIOUS
  <2>1. Fraction(h[k]) /\ k + 1 \in 1 .. n /\ k + 1 - 1 = k
    BY <1>1, <1>4
  <2>2. h[k + 1] = Mean(h[k], ws[k + 1]) /\ Walked(ws[k + 1])
    BY <1>2, <2>1 DEF n
  <2> DEFINE q == h[k]
             w == ws[k + 1]
  <2>3. q[1] \in Nat /\ q[2] \in Nat \ {0} /\ w.collected \in Nat \ {0} /\ w.common \in Nat
    BY <2>1, <2>2 DEF Fraction, Walked
  <2>4. h[k + 1] = <<q[1] * w.collected + w.common * q[2], q[2] * w.collected>>
    BY <2>2 DEF Mean
  <2> HIDE DEF q, w
  <2>5. \A x \in Nat \ {0}, y \in Nat \ {0} : x * y \in Nat \ {0}
    OBVIOUS
  <2>6. \A x \in Nat, y \in Nat : x * y \in Nat
    OBVIOUS
  <2>7. q[1] * w.collected \in Nat /\ w.common * q[2] \in Nat /\ q[2] * w.collected \in Nat \ {0}
    BY <2>3, <2>5, <2>6
  <2>8. q[1] * w.collected + w.common * q[2] \in Nat
    BY <2>7
  <2>9. QED
    BY <2>4, <2>7, <2>8 DEF Fraction
<1> HIDE DEF S
<1>5. \A k \in Nat : k \in S
  BY <1>3, <1>4, AllNaturals
<1>6. QED
  BY <1>1, <1>2, <1>5 DEF S

LEMMA EstimateIs ==
  ASSUME NEW V, NEW d1 \in Seq(V), NEW d2 \in Seq(V), Len(d1) # 0, Len(d2) # 0,
         NEW n \in Nat \ {0}, NEW H, NEW hashes \in [1 .. n -> H]
  PROVE  Fraction(EstimateJaccard(d1, d2, hashes))
<1> DEFINE W(i) == Walk(BottomK(d1, hashes[i]), BottomK(d2, hashes[i]))
           ws == [i \in DOMAIN hashes |-> W(i)]
           total == MeanOf(ws)
           T == {W(i) : i \in 1 .. n}
<1>1. DOMAIN hashes = 1 .. n /\ Len(hashes) = n
  OBVIOUS
<1>2. ASSUME NEW i \in 1 .. n PROVE Walked(W(i))
  BY BottomKIs, WalkIs DEF Walked
<1>3. EstimateJaccard(d1, d2, hashes) = <<total[1], total[2] * Len(hashes)>>
  BY Zenon DEF EstimateJaccard, MeanOf, Mean, FoldLeft, MapThenFoldSet
<1> HIDE DEF W
<1>4. ws \in Seq(T) /\ Len(ws) = n /\ \A i \in 1 .. n : ws[i] = W(i)
  <2>1. ws = [i \in 1 .. n |-> W(i)] /\ \A i \in 1 .. n : W(i) \in T
    BY <1>1
  <2> HIDE DEF ws, T
  <2>2. QED
    BY <2>1
<1>5. Fraction(total)
  BY <1>2, <1>4, MeanIs
<1> HIDE DEF total, ws
<1>6. total[2] * n \in Nat \ {0}
  <2>1. \A x \in Nat \ {0}, y \in Nat \ {0} : x * y \in Nat \ {0}
    OBVIOUS
  <2>2. QED
    BY <1>5, <2>1 DEF Fraction
<1>7. QED
  BY <1>1, <1>3, <1>5, <1>6 DEF Fraction

(* Comparing fractions is comparing numbers.                               *)
LEMMA FractionsCompare ==
  ASSUME NEW q, NEW r, NEW s, Fraction(q), Fraction(r), Fraction(s)
  PROVE  /\ AtLeast(q, q) /\ (AtLeast(q, r) \/ AtLeast(r, q))
         /\ AtLeast(q, r) /\ AtLeast(r, s) => AtLeast(q, s)
<1>1. /\ q[1] \in Nat /\ q[2] \in Nat \ {0} /\ r[1] \in Nat /\ r[2] \in Nat \ {0}
      /\ s[1] \in Nat /\ s[2] \in Nat \ {0}
  BY DEF Fraction
<1>2. ASSUME NEW a \in Nat, NEW b \in Nat \ {0}, NEW c \in Nat, NEW d \in Nat \ {0},
             NEW e \in Nat, NEW f \in Nat \ {0}, a * d >= c * b, c * f >= e * d
      PROVE  a * f >= e * b
  <2>1. (a * d) * f >= (c * b) * f /\ (c * f) * b >= (e * d) * b
    BY <1>2
  <2>2. (c * b) * f = (c * f) * b
    OBVIOUS
  <2>3. (a * d) * f >= (e * d) * b
    BY <2>1, <2>2
  <2>4. (a * d) * f = d * (a * f) /\ (e * d) * b = d * (e * b)
    OBVIOUS
  <2>5. d * (a * f) >= d * (e * b)
    BY <2>3, <2>4
  <2>6. \A x, y \in Nat : d * x >= d * y => x >= y
    OBVIOUS
  <2>7. a * f \in Nat /\ e * b \in Nat
    OBVIOUS
  <2>8. QED
    BY <2>5, <2>6, <2>7
<1>3. AtLeast(q, r) \/ AtLeast(r, q)
  <2>1. q[1] * r[2] \in Nat /\ r[1] * q[2] \in Nat
    BY <1>1
  <2>2. QED
    BY <2>1 DEF AtLeast
<1>4. AtLeast(q, q)
  <2>1. q[1] * q[2] \in Nat
    BY <1>1
  <2>2. QED
    BY <2>1 DEF AtLeast
<1>5. AtLeast(q, r) /\ AtLeast(r, s) => AtLeast(q, s)
  BY <1>1, <1>2, SMTT(30) DEF AtLeast
<1>6. QED
  BY <1>3, <1>4, <1>5

(* A strict order of a finite set that compares all has an element of each *)
(* rank.                                                                   *)
LEMMA RankExists ==
  ASSUME NEW P, IsFiniteSet(P), NEW R, NEW k \in 1 .. Cardinality(P),
         \A x \in P : <<x, x>> \notin R,
         \A x, y \in P : x = y \/ <<x, y>> \in R \/ <<y, x>> \in R,
         \A x, y, z \in P : <<x, y>> \in R /\ <<y, z>> \in R => <<x, z>> \in R
  PROVE  \E x \in P : Cardinality({y \in P : <<y, x>> \in R}) = k - 1
<1> DEFINE n == Cardinality(P)
           D(x) == {y \in P : <<y, x>> \in R}
           rank == [x \in P |-> Cardinality(D(x))]
<1>1. n \in Nat
  BY FS_CardinalityType
<1>2. ASSUME NEW x \in P
      PROVE  IsFiniteSet(D(x)) /\ Cardinality(D(x)) \in 0 .. n - 1
  <2>1. D(x) \in SUBSET P /\ D(x) # P
    OBVIOUS
  <2> HIDE DEF D
  <2>2. IsFiniteSet(D(x)) /\ Cardinality(D(x)) <= n /\ Cardinality(D(x)) # n
    BY <2>1, FS_Subset
  <2>3. Cardinality(D(x)) \in Nat
    BY <2>2, FS_CardinalityType
  <2>4. QED
    BY <1>1, <2>2, <2>3
<1>3. ASSUME NEW x \in P, NEW y \in P, <<x, y>> \in R
      PROVE  Cardinality(D(x)) < Cardinality(D(y))
  <2>1. D(x) \in SUBSET D(y) /\ x \in D(y) /\ x \notin D(x)
    BY <1>3
  <2>2. D(x) # D(y)
    BY <2>1
  <2>3. IsFiniteSet(D(y)) /\ Cardinality(D(y)) \in 0 .. n - 1 /\ Cardinality(D(x)) \in 0 .. n - 1
    BY <1>2
  <2> HIDE DEF D
  <2>4. Cardinality(D(x)) <= Cardinality(D(y)) /\ Cardinality(D(x)) # Cardinality(D(y))
    BY <2>1, <2>2, <2>3, FS_Subset
  <2>5. QED
    BY <1>1, <2>3, <2>4
<1> HIDE DEF D
<1>4. rank \in [P -> 0 .. n - 1]
  BY <1>2
<1>5. \A x, y \in P : rank[x] = rank[y] => x = y
  <2> SUFFICES ASSUME NEW x \in P, NEW y \in P, Cardinality(D(x)) = Cardinality(D(y)) PROVE x = y
    OBVIOUS
  <2>1. Cardinality(D(x)) \in Int /\ Cardinality(D(y)) \in Int
    BY <1>1, <1>2
  <2>2. <<x, y>> \notin R /\ <<y, x>> \notin R
    BY <1>3, <2>1
  <2>3. QED
    BY <2>2
<1>6. rank \in Injection(P, 0 .. n - 1)
  BY <1>4, <1>5 DEF Injection, IsInjective
<1>7. IsFiniteSet(0 .. n - 1) /\ Cardinality(0 .. n - 1) = n
  <2>1. 0 \in Int /\ n - 1 \in Int
    BY <1>1
  <2>2. /\ IsFiniteSet(0 .. n - 1)
        /\ Cardinality(0 .. n - 1) = IF 0 > n - 1 THEN 0 ELSE (n - 1) - 0 + 1
    BY <2>1, FS_Interval
  <2>3. QED
    BY <1>1, <2>2
<1>8. rank \in Surjection(P, 0 .. n - 1)
  BY <1>6, <1>7, FS_Injection
<1>9. k - 1 \in 0 .. n - 1
  BY <1>1
<1>10. \E x \in P : rank[x] = k - 1
  BY <1>8, <1>9 DEF Surjection
<1>11. QED
  BY <1>10 DEF D

(* The pairs merge_dicts looks at, and the order it takes them in.         *)
Pairs(ds) ==
  LET known == {i \in DOMAIN ds : DictLen(ds[i]) > 0}
  IN {p \in known \X known : p[1] > p[2] /\ ds[p[1]].datatype = ds[p[2]].datatype}
Alike(ds, p) == EstimateJaccard(ds[p[1]].dictionary, ds[p[2]].dictionary, coeffs)
Sooner(ds, p, q) ==
  \/ Below(Alike(ds, q), Alike(ds, p))
  \/ /\ AtLeast(Alike(ds, p), Alike(ds, q)) /\ AtLeast(Alike(ds, q), Alike(ds, p))
     /\ p[1] < q[1] \/ (p[1] = q[1] /\ p[2] < q[2])
Ranked(ds, k) == CHOOSE x \in Pairs(ds) : Cardinality({y \in Pairs(ds) : Sooner(ds, y, x)}) = k - 1
EdgeOf(ds, p) == [i |-> p[2], j |-> p[1], similar |-> Alike(ds, p)]

LEMMA EdgesAre ==
  ASSUME NEW ds
  PROVE  Edges(ds) = [k \in 1 .. Cardinality(Pairs(ds)) |-> EdgeOf(ds, Ranked(ds, k))]
  BY Zenon DEF Edges, Pairs, Alike, Sooner, Ranked, EdgeOf

LEMMA PairIs ==
  ASSUME NEW ds \in Seq(Dicts), coeffs \in [1 .. NumHashes -> HashFns], NEW p \in Pairs(ds)
  PROVE  /\ p[1] \in 1 .. Len(ds) /\ p[2] \in 1 .. Len(ds) /\ p[1] > p[2] /\ p = <<p[1], p[2]>>
         /\ ds[p[1]].datatype = ds[p[2]].datatype /\ Fraction(Alike(ds, p))
<1>1. /\ p[1] \in DOMAIN ds /\ p[2] \in DOMAIN ds /\ p[1] > p[2] /\ p = <<p[1], p[2]>>
      /\ ds[p[1]].datatype = ds[p[2]].datatype /\ DictLen(ds[p[1]]) > 0 /\ DictLen(ds[p[2]]) > 0
  BY DEF Pairs
<1>2. DOMAIN ds = 1 .. Len(ds) /\ ds[p[1]] \in Dicts /\ ds[p[2]] \in Dicts
  BY <1>1
<1> DEFINE d1 == ds[p[1]].dictionary
           d2 == ds[p[2]].dictionary
<1>3. /\ d1 \in Seq(cfg.values) /\ d2 \in Seq(cfg.values) /\ Len(d1) # 0 /\ Len(d2) # 0
  BY <1>1, <1>2, DictIs DEF DictLen
<1> HIDE DEF d1, d2
<1>4. Fraction(EstimateJaccard(d1, d2, coeffs))
  BY <1>3, EstimateIs, HashesAssumption
<1>5. QED
  BY <1>1, <1>2, <1>4 DEF Alike, d1, d2

LEMMA SoonerOrders ==
  ASSUME NEW ds \in Seq(Dicts), coeffs \in [1 .. NumHashes -> HashFns],
         NEW p \in Pairs(ds), NEW q \in Pairs(ds), NEW r \in Pairs(ds)
  PROVE  /\ ~ Sooner(ds, p, p) /\ (p = q \/ Sooner(ds, p, q) \/ Sooner(ds, q, p))
         /\ Sooner(ds, p, q) /\ Sooner(ds, q, r) => Sooner(ds, p, r)
<1> DEFINE a == Alike(ds, p)
           b == Alike(ds, q)
           c == Alike(ds, r)
<1>1. /\ p[1] \in Nat /\ p[2] \in Nat /\ q[1] \in Nat /\ q[2] \in Nat /\ r[1] \in Nat /\ r[2] \in Nat
      /\ p = <<p[1], p[2]>> /\ q = <<q[1], q[2]>> /\ Fraction(a) /\ Fraction(b) /\ Fraction(c)
  <2>1. \A x \in 1 .. Len(ds) : x \in Nat
    OBVIOUS
  <2>2. QED
    BY <2>1, PairIs
<1>2. p[1] = q[1] /\ p[2] = q[2] => p = q
  BY <1>1
<1>3. /\ AtLeast(a, a) /\ (AtLeast(a, b) \/ AtLeast(b, a))
      /\ AtLeast(a, b) /\ AtLeast(b, c) => AtLeast(a, c)
      /\ AtLeast(b, c) /\ AtLeast(c, a) => AtLeast(b, a)
      /\ AtLeast(c, a) /\ AtLeast(a, b) => AtLeast(c, b)
      /\ AtLeast(c, b) /\ AtLeast(b, a) => AtLeast(c, a)
      /\ AtLeast(b, a) /\ AtLeast(a, c) => AtLeast(b, c)
      /\ AtLeast(a, c) /\ AtLeast(c, b) => AtLeast(a, b)
  BY <1>1, FractionsCompare
<1> DEFINE First(x, y) == x[1] < y[1] \/ (x[1] = y[1] /\ x[2] < y[2])
<1>4. /\ Sooner(ds, p, p) <=> ~ AtLeast(a, a) \/ (AtLeast(a, a) /\ First(p, p))
      /\ Sooner(ds, p, q) <=> ~ AtLeast(b, a) \/ (AtLeast(a, b) /\ AtLeast(b, a) /\ First(p, q))
      /\ Sooner(ds, q, p) <=> ~ AtLeast(a, b) \/ (AtLeast(b, a) /\ AtLeast(a, b) /\ First(q, p))
      /\ Sooner(ds, q, r) <=> ~ AtLeast(c, b) \/ (AtLeast(b, c) /\ AtLeast(c, b) /\ First(q, r))
      /\ Sooner(ds, p, r) <=> ~ AtLeast(c, a) \/ (AtLeast(a, c) /\ AtLeast(c, a) /\ First(p, r))
  BY Zenon DEF Sooner, Below
<1>5. /\ ~ First(p, p) /\ (First(p, q) \/ First(q, p) \/ (p[1] = q[1] /\ p[2] = q[2]))
      /\ First(p, q) /\ First(q, r) => First(p, r)
  BY <1>1
<1>6. AtLeast(b, c) \/ AtLeast(c, b)
  BY <1>1, FractionsCompare
<1>7. AtLeast(a, c) \/ AtLeast(c, a)
  BY <1>1, FractionsCompare
<1> HIDE DEF a, b, c, First
<1>8. QED
  BY <1>2, <1>3, <1>4, <1>5, <1>6, <1>7, Zenon

(* Every edge joins two dictionaries of one type.                          *)
LEMMA EdgesJoin ==
  ASSUME NEW ds \in Seq(Dicts), coeffs \in [1 .. NumHashes -> HashFns]
  PROVE  /\ \E T : Edges(ds) \in Seq(T)
         /\ \A k \in 1 .. Len(Edges(ds)) :
              LET e == Edges(ds)[k]
              IN /\ e.i \in 1 .. Len(ds) /\ e.j \in 1 .. Len(ds) /\ e.i < e.j
                 /\ ds[e.i].datatype = ds[e.j].datatype
<1> DEFINE P == Pairs(ds)
           n == Cardinality(P)
           R == {z \in P \X P : Sooner(ds, z[1], z[2])}
           E(k) == EdgeOf(ds, Ranked(ds, k))
           T == {E(k) : k \in 1 .. n}
<1>1. IsFiniteSet(P)
  <2> DEFINE D == DOMAIN ds
  <2>1. D = 1 .. Len(ds) /\ Len(ds) \in Int /\ 1 \in Int
    OBVIOUS
  <2>2. IsFiniteSet(D)
    BY <2>1, FS_Interval
  <2> HIDE DEF D
  <2>3. IsFiniteSet(D \X D)
    BY <2>2, FS_Product
  <2>4. P \in SUBSET (D \X D)
    BY DEF Pairs, D
  <2>5. QED
    BY <2>3, <2>4, FS_Subset
<1>2. n \in Nat
  BY <1>1, FS_CardinalityType
<1>3. \A x, y \in P : <<x, y>> \in R <=> Sooner(ds, x, y)
  OBVIOUS
<1> HIDE DEF P, n, R
<1>4. /\ \A x \in P : <<x, x>> \notin R
      /\ \A x, y \in P : x = y \/ <<x, y>> \in R \/ <<y, x>> \in R
      /\ \A x, y, z \in P : <<x, y>> \in R /\ <<y, z>> \in R => <<x, z>> \in R
  <2>1. \A x, y, z \in P : /\ ~ Sooner(ds, x, x) /\ (x = y \/ Sooner(ds, x, y) \/ Sooner(ds, y, x))
                           /\ Sooner(ds, x, y) /\ Sooner(ds, y, z) => Sooner(ds, x, z)
    BY SoonerOrders DEF P
  <2>2. QED
    BY <1>3, <2>1
<1>5. ASSUME NEW k \in 1 .. n
      PROVE  Ranked(ds, k) \in P
  <2>1. \E x \in P : Cardinality({y \in P : <<y, x>> \in R}) = k - 1
    BY <1>1, <1>4, RankExists, ZenonT(30) DEF n
  <2>2. \A x \in P : {y \in P : <<y, x>> \in R} = {y \in P : Sooner(ds, y, x)}
    BY <1>3
  <2>3. \E x \in P : Cardinality({y \in P : Sooner(ds, y, x)}) = k - 1
    BY <2>1, <2>2
  <2>4. QED
    BY <2>3, Zenon DEF Ranked, P
<1>6. Edges(ds) = [k \in 1 .. n |-> E(k)]
  BY EdgesAre DEF n, P
<1>7. ASSUME NEW k \in 1 .. n
      PROVE  LET e == E(k)
             IN /\ e.i \in 1 .. Len(ds) /\ e.j \in 1 .. Len(ds) /\ e.i < e.j
                /\ ds[e.i].datatype = ds[e.j].datatype
  <2> DEFINE p == Ranked(ds, k)
  <2>1. p[1] \in 1 .. Len(ds) /\ p[2] \in 1 .. Len(ds) /\ p[1] > p[2] /\ ds[p[1]].datatype = ds[p[2]].datatype
    BY <1>5, PairIs DEF P
  <2>2. E(k).i = p[2] /\ E(k).j = p[1]
    BY DEF EdgeOf
  <2>3. QED
    BY <2>1, <2>2
<1>8. \A k \in 1 .. n : E(k) \in T
  OBVIOUS
<1> HIDE DEF E, T
<1>9. Edges(ds) \in Seq(T) /\ Len(Edges(ds)) = n /\ \A k \in 1 .. n : Edges(ds)[k] = E(k)
  BY <1>2, <1>6, <1>8
<1>10. QED
  BY <1>7, <1>9

(* Two dictionaries start with the same l values, the ones they share.     *)
Shares(d, e, l) ==
  /\ d.datatype = e.datatype /\ l \in Nat \ {0}
  /\ l <= Len(d.dictionary) /\ l <= Len(e.dictionary)
  /\ \A k \in 1 .. l : d.dictionary[k] = e.dictionary[k]
  /\ \A x \in ToSet(d.dictionary) : x \in ToSet(e.dictionary) => \E k \in 1 .. l : d.dictionary[k] = x

(* The same dictionary up to the order of its values.                      *)
SameDict(d, e) ==
  d.datatype = e.datatype /\ \A x : x \in ToSet(d.dictionary) <=> x \in ToSet(e.dictionary)

LEMMA SameDictTrans ==
  ASSUME NEW d, NEW e, NEW f, SameDict(d, e), SameDict(e, f)
  PROVE  SameDict(d, f)
  BY DEF SameDict

LEMMA SharesBack ==
  ASSUME NEW d, NEW e, NEW l, Shares(d, e, l)
  PROVE  Shares(e, d, l)
  BY DEF Shares

LEMMA MergeDictionariesIs ==
  ASSUME cfg \in Configs, NEW d \in Dicts, NEW e \in Dicts, d.datatype = e.datatype
  PROVE  LET r == MergeDictionaries(d, e)
         IN /\ r.len \in Nat
            /\ r.len # 0 => /\ r.self \in Dicts /\ SameDict(r.self, d)
                            /\ r.other \in Dicts /\ SameDict(r.other, e)
                            /\ Shares(r.self, r.other, r.len)
<1> DEFINE V == cfg.values
           s == d.dictionary
           o == e.dictionary
           r == MergeDictionaries(d, e)
           m == MergeWith(s, o)
           c == Common(s, o)
<1>1. /\ s \in Seq(V) /\ o \in Seq(V) /\ IsInjective(s) /\ IsInjective(o) /\ Null \notin V
      /\ d \in [datatype : DictTypes, dictionary : Seq(V)] /\ d.datatype \in DictTypes
      /\ e \in [datatype : DictTypes, dictionary : Seq(V)] /\ e.datatype \in DictTypes
  BY DictIs, CfgIs
<1>2. r.len = m.len /\ r.self = [d EXCEPT !.dictionary = m.self] /\ r.other = [e EXCEPT !.dictionary = m.other]
  BY Zenon DEF MergeDictionaries
<1> HIDE DEF V, s, o, r, m, c
<1>3. /\ m.len = Len(c) /\ c \in Seq(V)
      /\ \A x : x \in ToSet(c) <=> x \in ToSet(s) /\ x \in ToSet(o)
      /\ m.len # 0 => Reordered(V, s, m.self, c) /\ Reordered(V, o, m.other, c)
  BY <1>1, MergeWithIs DEF m, c
<1>4. ASSUME m.len # 0
      PROVE  /\ r.self \in Dicts /\ SameDict(r.self, d) /\ r.other \in Dicts /\ SameDict(r.other, e)
             /\ Shares(r.self, r.other, r.len)
  <2>1. /\ m.self \in Seq(V) /\ IsInjective(m.self) /\ Begins(m.self, c)
        /\ \A x : x \in ToSet(m.self) <=> x \in ToSet(s)
    BY <1>3, <1>4 DEF Reordered
  <2>2. /\ m.other \in Seq(V) /\ IsInjective(m.other) /\ Begins(m.other, c)
        /\ \A x : x \in ToSet(m.other) <=> x \in ToSet(o)
    BY <1>3, <1>4 DEF Reordered
  <2>3. /\ r.self = [datatype |-> d.datatype, dictionary |-> m.self]
        /\ r.other = [datatype |-> e.datatype, dictionary |-> m.other]
    BY <1>1, <1>2
  <2>4. /\ r.self.datatype = d.datatype /\ r.self.dictionary = m.self
        /\ r.other.datatype = e.datatype /\ r.other.dictionary = m.other
    BY <2>3
  <2>5. r.self \in Dicts /\ r.other \in Dicts
    BY <1>1, <2>1, <2>2, <2>3, <2>4 DEF Dicts, V
  <2>6. SameDict(r.self, d) /\ SameDict(r.other, e)
    BY <2>1, <2>2, <2>4 DEF SameDict, s, o
  <2>7. Len(c) \in Nat /\ \A x \in ToSet(c) : \E k \in 1 .. Len(c) : c[k] = x
    BY <1>3, InToSet
  <2>8. \A x \in ToSet(m.self) : x \in ToSet(m.other) => \E k \in 1 .. Len(c) : m.self[k] = x
    BY <1>3, <2>1, <2>2, <2>7 DEF Begins
  <2>9. Len(c) \in Nat \ {0} /\ Len(c) <= Len(m.self) /\ Len(c) <= Len(m.other)
    BY <1>3, <1>4, <2>1, <2>2, <2>7 DEF Begins
  <2>10. \A k \in 1 .. Len(c) : m.self[k] = m.other[k]
    BY <2>1, <2>2 DEF Begins
  <2>11. Shares(r.self, r.other, r.len)
    BY <1>2, <1>3, <2>4, <2>8, <2>9, <2>10 DEF Shares
  <2>12. QED
    BY <2>5, <2>6, <2>11
<1>5. r.len \in Nat
  BY <1>2, <1>3
<1>6. QED
  BY <1>2, <1>4, <1>5 DEF r

(* What merge_dicts keeps: peers are each other's and share what they say. *)
Peered(ds, peers) ==
  /\ peers \in [1 .. Len(ds) -> [peer : Nat, len : Nat]]
  /\ \A i \in 1 .. Len(ds) :
       IF peers[i].peer = None THEN peers[i].len = 0
       ELSE LET p == peers[i].peer
            IN /\ p \in 1 .. Len(ds) /\ p # i /\ peers[p].peer = i /\ peers[p].len = peers[i].len
               /\ Shares(ds[i], ds[p], peers[i].len)

MergeOK(old, m) ==
  /\ m.dicts \in Seq(Dicts) /\ Len(m.dicts) = Len(old)
  /\ \A i \in 1 .. Len(old) : SameDict(m.dicts[i], old[i])
  /\ Peered(m.dicts, m.peers)

Put(f, i, a, j, b) == [f EXCEPT ![i] = a, ![j] = b]
Puts(g, n, T, f, i, a, j, b) ==
  /\ g \in [1 .. n -> T] /\ g[i] = a /\ g[j] = b
  /\ \A x \in 1 .. n : x # i /\ x # j => g[x] = f[x]

LEMMA PutIs ==
  ASSUME NEW T, NEW n, NEW f \in [1 .. n -> T], NEW i \in 1 .. n, NEW j \in 1 .. n, i # j,
         NEW a \in T, NEW b \in T
  PROVE  Puts(Put(f, i, a, j, b), n, T, f, i, a, j, b)
  BY DEF Put, Puts

LEMMA MergeEdgeIs ==
  ASSUME cfg \in Configs, NEW old \in Seq(Dicts), NEW m, MergeOK(old, m), NEW edge,
         edge.i \in 1 .. Len(old), edge.j \in 1 .. Len(old), edge.i < edge.j,
         old[edge.i].datatype = old[edge.j].datatype
  PROVE  MergeOK(old, MergeEdge(m, edge))
<1> DEFINE n == Len(old)
           i == edge.i
           j == edge.j
           r == MergeDictionaries(m.dicts[i], m.dicts[j])
           P == [peer : Nat, len : Nat]
           pi == [peer |-> j, len |-> r.len]
           pj == [peer |-> i, len |-> r.len]
           ds == Put(m.dicts, i, r.self, j, r.other)
           peers == Put(m.peers, i, pi, j, pj)
<1>1. /\ n \in Nat /\ i \in 1 .. n /\ j \in 1 .. n /\ i # j /\ i \in Nat \ {0} /\ j \in Nat \ {0}
      /\ m.dicts \in Seq(Dicts) /\ Len(m.dicts) = n
      /\ \A x \in 1 .. n : SameDict(m.dicts[x], old[x])
      /\ Peered(m.dicts, m.peers)
  BY DEF MergeOK
<1>2. \/ MergeEdge(m, edge) = m
      \/ /\ WorthMerging(m, edge) /\ r.len # 0 /\ MergeEdge(m, edge) = [dicts |-> ds, peers |-> peers]
  BY Zenon DEF MergeEdge, Put
<1>3. ASSUME WorthMerging(m, edge), r.len # 0, MergeEdge(m, edge) = [dicts |-> ds, peers |-> peers]
      PROVE  MergeOK(old, MergeEdge(m, edge))
  <2>1. m.peers[i].peer = None /\ m.peers[j].peer = None
    BY <1>3 DEF WorthMerging
  <2>2. m.dicts[i] \in Dicts /\ m.dicts[j] \in Dicts /\ m.dicts[i].datatype = m.dicts[j].datatype
    BY <1>1 DEF SameDict
  <2>3. /\ r.len \in Nat /\ r.self \in Dicts /\ SameDict(r.self, m.dicts[i])
        /\ r.other \in Dicts /\ SameDict(r.other, m.dicts[j]) /\ Shares(r.self, r.other, r.len)
    BY <1>3, <2>2, MergeDictionariesIs, SMTT(30)
  <2>4. /\ m.peers \in [1 .. n -> P] /\ m.dicts \in [1 .. n -> Dicts]
        /\ pi \in P /\ pj \in P /\ pi.peer = j /\ pi.len = r.len /\ pj.peer = i /\ pj.len = r.len
    BY <1>1, <2>3 DEF Peered
  <2>5. \A x \in 1 .. n : /\ m.peers[x].peer = None => m.peers[x].len = 0
                          /\ m.peers[x].peer # None =>
                               LET p == m.peers[x].peer
                               IN /\ p \in 1 .. n /\ p # x /\ m.peers[p].peer = x
                                  /\ m.peers[p].len = m.peers[x].len
                                  /\ Shares(m.dicts[x], m.dicts[p], m.peers[x].len)
    BY <1>1 DEF Peered
  <2>6. Shares(r.other, r.self, r.len)
    BY <2>3, SharesBack
  <2> HIDE DEF n, i, j, r, P, pi, pj
  <2>7. /\ ds \in [1 .. n -> Dicts] /\ ds[i] = r.self /\ ds[j] = r.other
        /\ \A x \in 1 .. n : x # i /\ x # j => ds[x] = m.dicts[x]
    <3>1. Puts(ds, n, Dicts, m.dicts, i, r.self, j, r.other)
      BY <1>1, <2>3, <2>4, PutIs, Zenon
    <3>2. QED
      BY <3>1, Zenon DEF Puts
  <2>8. /\ peers \in [1 .. n -> P] /\ peers[i] = pi /\ peers[j] = pj
        /\ \A x \in 1 .. n : x # i /\ x # j => peers[x] = m.peers[x]
    <3>1. Puts(peers, n, P, m.peers, i, pi, j, pj)
      BY <1>1, <2>4, PutIs, Zenon
    <3>2. QED
      BY <3>1, Zenon DEF Puts
  <2> HIDE DEF ds, peers
  <2>9. ds \in Seq(Dicts) /\ Len(ds) = n
    BY <1>1, <2>7
  <2>10. \A x \in 1 .. n : SameDict(ds[x], old[x])
    <3> SUFFICES ASSUME NEW x \in 1 .. n PROVE SameDict(ds[x], old[x])
      OBVIOUS
    <3>1. SameDict(ds[x], m.dicts[x])
      <4>1. CASE x = i \/ x = j
        BY <2>3, <2>7, <4>1
      <4>2. CASE x # i /\ x # j
        BY <2>7, <4>2 DEF SameDict
      <4>3. QED
        BY <4>1, <4>2
    <3>2. QED
      BY <1>1, <3>1, SameDictTrans
  <2>11. ASSUME NEW x \in 1 .. n
         PROVE  /\ peers[x].peer = None => peers[x].len = 0
                /\ peers[x].peer # None =>
                     LET p == peers[x].peer
                     IN /\ p \in 1 .. n /\ p # x /\ peers[p].peer = x /\ peers[p].len = peers[x].len
                        /\ Shares(ds[x], ds[p], peers[x].len)
    <3>0. None = 0
      BY DEF None
    <3>1. CASE x = i
      BY <1>1, <2>3, <2>4, <2>7, <2>8, <3>0, <3>1
    <3>2. CASE x = j
      BY <1>1, <2>6, <2>4, <2>7, <2>8, <3>0, <3>2
    <3>3. CASE x # i /\ x # j
      <4>1. peers[x] = m.peers[x] /\ ds[x] = m.dicts[x]
        BY <2>7, <2>8, <3>3
      <4>2. CASE m.peers[x].peer = None
        BY <2>5, <4>1, <4>2
      <4>3. CASE m.peers[x].peer # None
        <5> DEFINE p == m.peers[x].peer
        <5>1. /\ p \in 1 .. n /\ p # x /\ m.peers[p].peer = x /\ m.peers[p].len = m.peers[x].len
              /\ Shares(m.dicts[x], m.dicts[p], m.peers[x].len)
          BY <2>5, <4>3
        <5>2. p # i /\ p # j
          BY <1>1, <2>1, <3>0, <5>1, SMTT(30)
        <5>3. peers[p] = m.peers[p] /\ ds[p] = m.dicts[p]
          BY <2>7, <2>8, <5>1, <5>2
        <5>4. peers[x].peer = p /\ peers[x].len = m.peers[x].len
          BY <4>1
        <5> HIDE DEF p
        <5>5. peers[p].peer = x /\ peers[p].len = peers[x].len /\ Shares(ds[x], ds[p], peers[x].len)
          BY <4>1, <5>1, <5>3, <5>4
        <5>6. QED
          BY <4>1, <4>3, <5>1, <5>4, <5>5
      <4>4. QED
        BY <4>2, <4>3
    <3>4. QED
      BY <3>1, <3>2, <3>3
  <2>12. Peered(ds, peers)
    BY <2>8, <2>9, <2>11 DEF Peered, P
  <2>13. MergeEdge(m, edge).dicts = ds /\ MergeEdge(m, edge).peers = peers
    BY <1>3 DEF ds, peers
  <2>14. QED
    BY <2>9, <2>10, <2>12, <2>13 DEF MergeOK, n
<1>4. QED
  BY <1>2, <1>3

Unmerged(ds) == [dicts |-> ds, peers |-> [i \in DOMAIN ds |-> [peer |-> None, len |-> 0]]]

LEMMA MergeFold ==
  ASSUME NEW ds, NEW T, Edges(ds) \in Seq(T)
  PROVE  \E h : /\ h[0] = Unmerged(ds) /\ MergeDicts(ds) = h[Len(Edges(ds))]
                /\ \A k \in 1 .. Len(Edges(ds)) : h[k] = MergeEdge(h[k - 1], Edges(ds)[k])
<1> DEFINE n == Len(Edges(ds))
           Is(f) == f = [s \in SUBSET DOMAIN Edges(ds) |->
                      IF s = {} THEN Unmerged(ds) ELSE MergeEdge(f[s \ {Max(s)}], Edges(ds)[Max(s)])]
           c == CHOOSE f : Is(f)
<1>1. n \in Nat /\ DOMAIN Edges(ds) = 1 .. n
  OBVIOUS
<1>2. \A x, y : Work("merge", 0, x, y) = MergeEdge(x, y)
  BY WorkIs, ZenonT(30)
<1>3. \A f : Works(f, "merge", 0, Unmerged(ds), Edges(ds), n) <=> Is(f)
  BY <1>1, <1>2 DEF Works
<1>4. \E f : Is(f)
  BY <1>1, <1>3, WorkExists
<1>5. Is(c)
  BY <1>4, Zenon
<1>6. MergeDicts(ds) = c[DOMAIN Edges(ds)]
  BY Zenon DEF MergeDicts, Unmerged, FoldLeft, MapThenFoldSet
<1> HIDE DEF c
<1>7. Works(c, "merge", 0, Unmerged(ds), Edges(ds), n)
  BY <1>3, <1>5
<1> HIDE DEF Is, n
<1>8. PICK h : Runs(h, "merge", 0, Unmerged(ds), Edges(ds), n) /\ h[n] = c[1 .. n]
  BY <1>1, <1>7, WorkSteps
<1>9. QED
  BY <1>1, <1>2, <1>6, <1>8 DEF n, Runs

LEMMA MergeDictsIs ==
  ASSUME cfg \in Configs, NEW ds \in Seq(Dicts), coeffs \in [1 .. NumHashes -> HashFns]
  PROVE  MergeOK(ds, MergeDicts(ds))
<1> DEFINE edges == Edges(ds)
           n == Len(edges)
<1>1. PICK T : edges \in Seq(T)
  BY EdgesJoin
<1>2. n \in Nat
  BY <1>1
<1>3. PICK h : /\ h[0] = Unmerged(ds) /\ MergeDicts(ds) = h[n]
               /\ \A k \in 1 .. n : h[k] = MergeEdge(h[k - 1], edges[k])
  BY <1>1, MergeFold
<1>4. \A k \in 1 .. n : /\ edges[k].i \in 1 .. Len(ds) /\ edges[k].j \in 1 .. Len(ds)
                        /\ edges[k].i < edges[k].j /\ ds[edges[k].i].datatype = ds[edges[k].j].datatype
  BY EdgesJoin
<1> HIDE DEF edges, n
<1> DEFINE S == {k \in Nat : k <= n => MergeOK(ds, h[k])}
<1>5. 0 \in S
  <2> DEFINE m == Unmerged(ds)
             none == [peer |-> None, len |-> 0]
  <2>1. m.dicts = ds /\ m.peers = [i \in 1 .. Len(ds) |-> none]
    BY DEF Unmerged
  <2>2. none \in [peer : Nat, len : Nat] /\ none.peer = None /\ none.len = 0
    BY DEF None
  <2> HIDE DEF m, none
  <2>3. Peered(ds, m.peers)
    BY <2>1, <2>2 DEF Peered
  <2>4. MergeOK(ds, m)
    BY <2>1, <2>3 DEF MergeOK, SameDict
  <2>5. QED
    BY <1>3, <2>4 DEF m
<1>6. ASSUME NEW k \in Nat, k \in S
      PROVE  k + 1 \in S
  <2> SUFFICES ASSUME k + 1 <= n PROVE MergeOK(ds, h[k + 1])
    OBVIOUS
  <2>1. MergeOK(ds, h[k]) /\ k + 1 \in 1 .. n /\ k + 1 - 1 = k
    BY <1>2, <1>6
  <2>2. h[k + 1] = MergeEdge(h[k], edges[k + 1])
    BY <1>3, <2>1
  <2>3. QED
    BY <1>4, <2>1, <2>2, MergeEdgeIs
<1> HIDE DEF S
<1>7. \A k \in Nat : k \in S
  BY <1>5, <1>6, AllNaturals
<1>8. QED
  BY <1>2, <1>3, <1>7 DEF S

-----------------------------------------------------------------------------
(***************************************************************************)
(* submit_dict: every column gets a dictionary of all its values.          *)
(***************************************************************************)

AllValues(d, arrays) == FoldLeft(SubmitValues, d, arrays)

LEMMA ValuesFold ==
  ASSUME NEW d, NEW T, NEW arrays \in Seq(T)
  PROVE  \E h : /\ h[0] = d /\ AllValues(d, arrays) = h[Len(arrays)]
                /\ \A k \in 1 .. Len(arrays) : h[k] = SubmitValues(h[k - 1], arrays[k])
<1> DEFINE n == Len(arrays)
           Is(f) == f = [s \in SUBSET DOMAIN arrays |->
                      IF s = {} THEN d ELSE SubmitValues(f[s \ {Max(s)}], arrays[Max(s)])]
           c == CHOOSE f : Is(f)
<1>1. n \in Nat /\ DOMAIN arrays = 1 .. n
  OBVIOUS
<1>2. \A x, y : Work("values", 0, x, y) = SubmitValues(x, y)
  BY WorkIs, ZenonT(30)
<1>3. \A f : Works(f, "values", 0, d, arrays, n) <=> Is(f)
  BY <1>1, <1>2 DEF Works
<1>4. \E f : Is(f)
  BY <1>1, <1>3, WorkExists
<1>5. Is(c)
  BY <1>4, Zenon
<1>6. AllValues(d, arrays) = c[DOMAIN arrays]
  BY Zenon DEF AllValues, FoldLeft, MapThenFoldSet
<1> HIDE DEF c
<1>7. Works(c, "values", 0, d, arrays, n)
  BY <1>3, <1>5
<1> HIDE DEF Is, n
<1>8. PICK h : Runs(h, "values", 0, d, arrays, n) /\ h[n] = c[1 .. n]
  BY <1>1, <1>7, WorkSteps
<1>9. QED
  BY <1>1, <1>2, <1>6, <1>8 DEF n, Runs

(* The dictionary d has every value of these arrays.                       *)
Knows(d, arrays) ==
  \A k \in 1 .. Len(arrays) : \A i \in 1 .. Len(arrays[k]) :
    arrays[k][i] # Null => arrays[k][i] \in ToSet(d.dictionary)

LEMMA SubmitValuesIs ==
  ASSUME NEW d \in Dicts, NEW array \in Arrays
  PROVE  /\ SubmitValues(d, array) \in Dicts /\ SubmitValues(d, array).datatype = d.datatype
         /\ \A x \in ToSet(d.dictionary) : x \in ToSet(SubmitValues(d, array).dictionary)
         /\ \A i \in 1 .. Len(array) :
              array[i] # Null => array[i] \in ToSet(SubmitValues(d, array).dictionary)
<1> DEFINE s == Submit(d.dictionary, array)
           e == SubmitValues(d, array)
           V == cfg.values
<1>1. /\ d \in [datatype : DictTypes, dictionary : Seq(V)] /\ d.datatype \in DictTypes
      /\ d.dictionary \in Seq(V) /\ IsInjective(d.dictionary) /\ Len(d.dictionary) \in Nat
  BY DictIs
<1>2. /\ s \in Seq(V) /\ IsInjective(s) /\ Begins(s, d.dictionary)
      /\ \A i \in 1 .. Len(array) : array[i] # Null => array[i] \in ToSet(s)
  BY <1>1, SubmitIs DEF Arrays
<1>3. e = [d EXCEPT !.dictionary = s]
  BY DEF SubmitValues
<1> HIDE DEF s, e, V
<1>4. e = [datatype |-> d.datatype, dictionary |-> s]
  BY <1>1, <1>3
<1>5. e \in Dicts /\ e.datatype = d.datatype /\ e.dictionary = s
  BY <1>1, <1>2, <1>4 DEF Dicts, V
<1>6. \A x \in ToSet(d.dictionary) : x \in ToSet(s)
  <2>1. \A x \in ToSet(d.dictionary) : \E i \in 1 .. Len(d.dictionary) : d.dictionary[i] = x
    BY <1>1, InToSet
  <2>2. Len(s) \in Nat /\ \A i \in 1 .. Len(s) : s[i] \in ToSet(s)
    BY <1>2, InToSet
  <2>3. QED
    BY <1>1, <1>2, <2>1, <2>2 DEF Begins
<1>7. QED
  BY <1>2, <1>5, <1>6 DEF e

LEMMA ValuesIs ==
  ASSUME NEW d \in Dicts, NEW arrays \in Seq(Arrays)
  PROVE  LET r == AllValues(d, arrays)
         IN r \in Dicts /\ r.datatype = d.datatype /\ Knows(r, arrays)
<1> DEFINE n == Len(arrays)
<1>1. n \in Nat /\ \A k \in 1 .. n : arrays[k] \in Arrays
  OBVIOUS
<1>2. PICK h : /\ h[0] = d /\ AllValues(d, arrays) = h[n]
               /\ \A k \in 1 .. n : h[k] = SubmitValues(h[k - 1], arrays[k])
  BY ValuesFold
<1> DEFINE Good(k) == /\ h[k] \in Dicts /\ h[k].datatype = d.datatype
                      /\ \A j \in 1 .. k : \A i \in 1 .. Len(arrays[j]) :
                           arrays[j][i] # Null => arrays[j][i] \in ToSet(h[k].dictionary)
           S == {k \in Nat : k <= n => Good(k)}
<1> HIDE DEF n
<1>3. 0 \in S
  <2>1. \A j \in 1 .. 0 : FALSE
    OBVIOUS
  <2>2. QED
    BY <1>2, <2>1
<1>4. ASSUME NEW k \in Nat, k \in S
      PROVE  k + 1 \in S
  <2> SUFFICES ASSUME k + 1 <= n PROVE Good(k + 1)
    OBVIOUS
  <2>1. Good(k) /\ k + 1 \in 1 .. n /\ k + 1 - 1 = k
    BY <1>1, <1>4
  <2> DEFINE e == h[k]
             f == h[k + 1]
             a == arrays[k + 1]
  <2>2. f = SubmitValues(e, a) /\ a \in Arrays /\ e \in Dicts /\ e.datatype = d.datatype
    BY <1>1, <1>2, <2>1
  <2> HIDE DEF f
  <2>3. /\ f \in Dicts /\ f.datatype = e.datatype
        /\ \A x \in ToSet(e.dictionary) : x \in ToSet(f.dictionary)
        /\ \A i \in 1 .. Len(a) : a[i] # Null => a[i] \in ToSet(f.dictionary)
    BY <2>2, SubmitValuesIs
  <2>4. \A j \in 1 .. k + 1 : j \in 1 .. k \/ j = k + 1
    OBVIOUS
  <2>5. QED
    BY <2>1, <2>2, <2>3, <2>4 DEF f
<1> HIDE DEF S, Good
<1>5. \A k \in Nat : k \in S
  BY <1>3, <1>4, AllNaturals
<1>6. Good(n)
  BY <1>1, <1>5 DEF S
<1>7. QED
  BY <1>2, <1>6 DEF Good, Knows, n

(* The updates of submit_dict and encode_dict_scope, field by field.       *)
IsWriter(w) == w = [enc |-> w.enc, dicts |-> w.dicts, chunks |-> w.chunks]
SetSubDicts(w, c, i, ds) == [w EXCEPT !.enc[c].submitted = i, !.dicts = ds]

SubFields(w, c, a, ds) ==
  SetSubDicts(w, c, a, ds) =
    [enc |-> [w.enc EXCEPT ![c] = [w.enc[c] EXCEPT !.submitted = a]],
     dicts |-> ds, chunks |-> w.chunks]
EmitFields(w, c, a, ds, new) ==
  Emit(SetBufDicts(w, c, a, ds), c, new) =
    [enc |-> [w.enc EXCEPT ![c] = [w.enc[c] EXCEPT !.buffered = a]],
     dicts |-> ds, chunks |-> [w.chunks EXCEPT ![c] = w.chunks[c] \o new]]

LEMMA FieldsAre ==
  ASSUME NEW w, IsWriter(w), NEW c, NEW new, NEW a, NEW ds
  PROVE  /\ SubFields(w, c, a, ds) /\ EmitFields(w, c, a, ds, new)
         /\ [w EXCEPT !.dicts = ds] = [enc |-> w.enc, dicts |-> ds, chunks |-> w.chunks]
<1> DEFINE Rec(e, d) == [enc |-> [w.enc EXCEPT ![c] = e], dicts |-> d, chunks |-> w.chunks]
           r == [enc |-> w.enc, dicts |-> w.dicts, chunks |-> w.chunks]
<1>a. \A e, d, cs, x : [[enc |-> e, dicts |-> d, chunks |-> cs] EXCEPT !.enc = x] =
                        [enc |-> x, dicts |-> d, chunks |-> cs]
  OBVIOUS
<1>c. \A e, d, cs, x : [[enc |-> e, dicts |-> d, chunks |-> cs] EXCEPT !.chunks = x] =
                        [enc |-> e, dicts |-> d, chunks |-> x]
  OBVIOUS
<1>d. \A e, d, cs : [enc |-> e, dicts |-> d, chunks |-> cs].chunks = cs
  OBVIOUS
<1>1. w = r
  BY DEF IsWriter
<1>2. ASSUME NEW x
      PROVE  /\ [w EXCEPT !.enc = x] = [enc |-> x, dicts |-> w.dicts, chunks |-> w.chunks]
             /\ [w EXCEPT !.dicts = x] = [enc |-> w.enc, dicts |-> x, chunks |-> w.chunks]
  <2>1. [r EXCEPT !.enc = x] = [enc |-> x, dicts |-> w.dicts, chunks |-> w.chunks]
    BY <1>a, ZenonT(30)
  <2>2. [r EXCEPT !.dicts = x] = [enc |-> w.enc, dicts |-> x, chunks |-> w.chunks]
    OBVIOUS
  <2> HIDE DEF r
  <2>3. QED
    BY <1>1, <2>1, <2>2, Zenon
<1>3. ASSUME NEW x, NEW d PROVE [Rec(x, d) EXCEPT !.dicts = ds] = Rec(x, ds)
  <2>1. \A e, cs : [[enc |-> e, dicts |-> d, chunks |-> cs] EXCEPT !.dicts = ds] =
                     [enc |-> e, dicts |-> ds, chunks |-> cs]
    OBVIOUS
  <2>2. QED
    BY <2>1, Zenon
<1>4. [w EXCEPT !.enc[c].submitted = a] = Rec([w.enc[c] EXCEPT !.submitted = a], w.dicts)
  BY <1>2, Zenon
<1>5. [w EXCEPT !.enc[c].buffered = a] = Rec([w.enc[c] EXCEPT !.buffered = a], w.dicts)
  BY <1>2, Zenon
<1>6. SetSubDicts(w, c, a, ds) = Rec([w.enc[c] EXCEPT !.submitted = a], ds)
  BY <1>3, <1>4, ZenonT(30) DEF SetSubDicts
<1>7. SetBufDicts(w, c, a, ds) = Rec([w.enc[c] EXCEPT !.buffered = a], ds)
  BY <1>3, <1>5, ZenonT(30) DEF SetBufDicts
<1>8. ASSUME NEW e, NEW d
      PROVE  Emit(Rec(e, d), c, new) =
               [enc |-> [w.enc EXCEPT ![c] = e], dicts |-> d,
                chunks |-> [w.chunks EXCEPT ![c] = w.chunks[c] \o new]]
  <2>1. Rec(e, d).chunks = w.chunks
    BY <1>d, Zenon
  <2>2. Emit(Rec(e, d), c, new) =
          [Rec(e, d) EXCEPT !.chunks = [Rec(e, d).chunks EXCEPT ![c] = Rec(e, d).chunks[c] \o new]]
    BY Zenon DEF Emit
  <2>3. Emit(Rec(e, d), c, new) = [Rec(e, d) EXCEPT !.chunks = [w.chunks EXCEPT ![c] = w.chunks[c] \o new]]
    BY <2>1, <2>2, Zenon
  <2>4. QED
    BY <1>c, <2>3, Zenon
<1> HIDE DEF Rec
<1>9. Emit(SetBufDicts(w, c, a, ds), c, new) = Emit(Rec([w.enc[c] EXCEPT !.buffered = a], ds), c, new)
  BY <1>7
<1>10. Rec([w.enc[c] EXCEPT !.submitted = a], ds) =
         [enc |-> [w.enc EXCEPT ![c] = [w.enc[c] EXCEPT !.submitted = a]],
          dicts |-> ds, chunks |-> w.chunks]
  BY Zenon DEF Rec
<1>11. QED
  BY <1>2, <1>6, <1>8, <1>9, <1>10, Zenon DEF SubFields, EmitFields

(* The writer after submit_dict of the first k columns.                    *)
Sub(e, i) == [acc |-> e.acc, buffered |-> e.buffered, submitted |-> i]

SubmittedTo(w, v, k) ==
  /\ IsWriter(v) /\ v.chunks = w.chunks
  /\ v.enc = [x \in Cols |-> IF x <= k THEN Sub(w.enc[x], Len(w.dicts) + x) ELSE w.enc[x]]
  /\ v.dicts \in Seq(Dicts) /\ Len(v.dicts) = Len(w.dicts) + k
  /\ \A x \in 1 .. k : LET d == v.dicts[Len(w.dicts) + x]
                       IN d.datatype = ColType[x] /\ Knows(d, w.enc[x].buffered)

LEMMA SubmitDictIs ==
  ASSUME cfg \in Configs, NEW w \in Writers, NEW k \in Nat, k + 1 \in Cols, NEW v, SubmittedTo(w, v, k)
  PROVE  SubmittedTo(w, SubmitDict(v, k + 1), k + 1)
<1> DEFINE c == k + 1
           n == Len(w.dicts)
           e == v.enc[c]
           b == e.buffered
           old == Append(v.dicts, NewDict(ColType[c]))
           id == Len(old)
           all == AllValues(old[id], b)
           ds == [old EXCEPT ![id] = all]
           u == SubmitDict(v, c)
           oldIf == IF e.submitted = None THEN old ELSE v.dicts
           idIf == IF e.submitted = None THEN Len(oldIf) ELSE e.submitted
           At(o, i) == SetSubDicts(v, c, i, [o EXCEPT ![i] = AllValues(o[i], b)])
<1>1. /\ w.enc \in [Cols -> EncStates] /\ w.enc[c] \in EncStates /\ w.enc[c].submitted = None
      /\ w.enc[c].buffered \in Seq(Arrays) /\ n \in Nat
  BY WriterIs
<1>2. ColType[c] \in DictTypes /\ Cols = 1 .. NumCols /\ NumCols \in Nat
  BY ColumnsAssumption DEF Cols
<1>3. /\ IsWriter(v) /\ v.chunks = w.chunks
      /\ v.enc = [x \in Cols |-> IF x <= k THEN Sub(w.enc[x], n + x) ELSE w.enc[x]]
      /\ v.dicts \in Seq(Dicts) /\ Len(v.dicts) = n + k
      /\ \A x \in 1 .. k : LET d == v.dicts[n + x]
                           IN d.datatype = ColType[x] /\ Knows(d, w.enc[x].buffered)
  BY DEF SubmittedTo
<1>4. e = w.enc[c]
  BY <1>2, <1>3
<1>5. u = At(oldIf, idIf)
  BY Zenon DEF SubmitDict, SetSubDicts, AllValues
<1> HIDE DEF u, At
<1>6. oldIf = old /\ idIf = id
  BY <1>1, <1>4
<1>7. u = At(old, id)
  BY <1>5, <1>6
<1>8. u = SetSubDicts(v, c, id, ds)
  BY <1>7, Zenon DEF At
<1> HIDE DEF oldIf, idIf, e
<1>9. NewDict(ColType[c]) \in Dicts /\ NewDict(ColType[c]).datatype = ColType[c]
  BY <1>2, NewDictIs
<1>10. /\ old \in Seq(Dicts) /\ Len(old) = n + k + 1 /\ old[id] = NewDict(ColType[c])
       /\ \A i \in 1 .. n + k : old[i] = v.dicts[i]
  <2> DEFINE nd == NewDict(ColType[c])
             ps == v.dicts
  <2>1. ps \in Seq(Dicts) /\ Len(ps) = n + k /\ nd \in Dicts
    BY <1>3, <1>9
  <2> HIDE DEF nd, ps, n, c
  <2>2. /\ Append(ps, nd) \in Seq(Dicts) /\ Len(Append(ps, nd)) = Len(ps) + 1
        /\ Append(ps, nd)[Len(ps) + 1] = nd /\ \A i \in 1 .. Len(ps) : Append(ps, nd)[i] = ps[i]
    BY <2>1, AppendIs
  <2>3. QED
    BY <2>1, <2>2 DEF nd, ps
<1> HIDE DEF old
<1>11. all \in Dicts /\ all.datatype = ColType[c] /\ Knows(all, w.enc[c].buffered)
  BY <1>1, <1>4, <1>9, <1>10, ValuesIs
<1> HIDE DEF all
<1>12. /\ ds \in Seq(Dicts) /\ Len(ds) = n + k + 1 /\ ds[n + k + 1] = all
       /\ \A i \in 1 .. n + k : ds[i] = v.dicts[i]
  <2>1. id \in 1 .. Len(old) /\ \A i \in 1 .. n + k : i # id /\ i \in 1 .. Len(old)
    BY <1>1, <1>10
  <2>2. ds \in Seq(Dicts) /\ Len(ds) = Len(old) /\ ds[id] = all /\ \A i \in 1 .. n + k : ds[i] = old[i]
    BY <1>10, <1>11, <2>1
  <2> HIDE DEF ds
  <2>3. QED
    BY <1>10, <2>2
<1> HIDE DEF ds
<1>13. id = n + c /\ n \in Nat
  <2>1. n \in Nat /\ Len(old) = n + k + 1
    BY <1>1, <1>10
  <2> HIDE DEF n
  <2>2. QED
    BY <2>1
<1>14. u = [enc |-> [v.enc EXCEPT ![c] = [v.enc[c] EXCEPT !.submitted = id]],
            dicts |-> ds, chunks |-> v.chunks]
  <2>1. IsWriter(v)
    BY <1>3
  <2> HIDE DEF id, c
  <2>2. SubFields(v, c, id, ds)
    BY <2>1, FieldsAre, Zenon
  <2>3. QED
    BY <1>8, <2>2, Zenon DEF SubFields
<1>15. /\ IsWriter(u) /\ u.chunks = w.chunks /\ u.dicts = ds
       /\ u.enc = [v.enc EXCEPT ![c] = [v.enc[c] EXCEPT !.submitted = id]]
  BY <1>3, <1>14 DEF IsWriter
<1>16. [v.enc[c] EXCEPT !.submitted = id] = Sub(w.enc[c], n + c)
  BY <1>1, <1>4, <1>13 DEF EncStates, Sub, e
<1>17. u.enc = [x \in Cols |-> IF x <= c THEN Sub(w.enc[x], n + x) ELSE w.enc[x]]
  <2> DEFINE f == [x \in Cols |-> IF x <= k THEN Sub(w.enc[x], n + x) ELSE w.enc[x]]
             s == Sub(w.enc[c], n + c)
  <2>1. u.enc = [f EXCEPT ![c] = s]
    BY <1>3, <1>15, <1>16
  <2>2. \A x \in Cols : x # c => (x <= c <=> x <= k)
    BY <1>2
  <2>3. c <= c
    OBVIOUS
  <2>4. [f EXCEPT ![c] = s] = [x \in Cols |-> IF x = c THEN s ELSE f[x]]
    OBVIOUS
  <2>5. QED
    BY <2>1, <2>2, <2>3, <2>4
<1>18. ASSUME NEW x \in 1 .. k + 1
       PROVE  LET d == ds[n + x] IN d.datatype = ColType[x] /\ Knows(d, w.enc[x].buffered)
  <2>1. CASE x = k + 1
    <3>1. ds[n + x] = all
      BY <1>1, <1>12, <2>1
    <3>2. QED
      BY <1>11, <2>1, <3>1
  <2>2. CASE x \in 1 .. k
    <3>1. ds[n + x] = v.dicts[n + x]
      BY <1>1, <1>12, <2>2, SMTT(30)
    <3>2. QED
      BY <1>3, <2>2, <3>1
  <2>3. QED
    BY <2>1, <2>2
<1>19. Len(u.dicts) = n + (k + 1) /\ u.dicts \in Seq(Dicts)
  BY <1>12, <1>13, <1>15
<1> HIDE DEF u
<1>20. SubmittedTo(w, u, k + 1)
  BY <1>15, <1>17, <1>18, <1>19 DEF SubmittedTo
<1>21. QED
  BY <1>20 DEF u

SubmitOver(w, seq) == FoldLeft(SubmitDict, w, seq)
FinishOver(w, seq, global) == FoldLeft(LAMBDA v, c : FinishCol(v, c, global), w, seq)

LEMMA SubmitOverFold ==
  ASSUME NEW w, NEW T, NEW seq \in Seq(T)
  PROVE  \E h : /\ h[0] = w /\ SubmitOver(w, seq) = h[Len(seq)]
                /\ \A k \in 1 .. Len(seq) : h[k] = SubmitDict(h[k - 1], seq[k])
<1> DEFINE n == Len(seq)
           Is(f) == f = [s \in SUBSET DOMAIN seq |->
                      IF s = {} THEN w ELSE SubmitDict(f[s \ {Max(s)}], seq[Max(s)])]
           c == CHOOSE f : Is(f)
<1>1. n \in Nat /\ DOMAIN seq = 1 .. n
  OBVIOUS
<1>2. \A x, y : Work("submit", 0, x, y) = SubmitDict(x, y)
  BY WorkIs, ZenonT(30)
<1>3. \A f : Works(f, "submit", 0, w, seq, n) <=> Is(f)
  BY <1>1, <1>2 DEF Works
<1>4. \E f : Is(f)
  BY <1>1, <1>3, WorkExists
<1>5. Is(c)
  BY <1>4, Zenon
<1>6. SubmitOver(w, seq) = c[DOMAIN seq]
  BY Zenon DEF SubmitOver, FoldLeft, MapThenFoldSet
<1> HIDE DEF c
<1>7. Works(c, "submit", 0, w, seq, n)
  BY <1>3, <1>5
<1> HIDE DEF Is, n
<1>8. PICK h : Runs(h, "submit", 0, w, seq, n) /\ h[n] = c[1 .. n]
  BY <1>1, <1>7, WorkSteps
<1>9. QED
  BY <1>1, <1>2, <1>6, <1>8 DEF n, Runs

LEMMA FinishOverFold ==
  ASSUME NEW w, NEW global, NEW T, NEW seq \in Seq(T)
  PROVE  \E h : /\ h[0] = w /\ FinishOver(w, seq, global) = h[Len(seq)]
                /\ \A k \in 1 .. Len(seq) : h[k] = FinishCol(h[k - 1], seq[k], global)
<1> DEFINE n == Len(seq)
           Is(f) == f = [s \in SUBSET DOMAIN seq |->
                      IF s = {} THEN w ELSE FinishCol(f[s \ {Max(s)}], seq[Max(s)], global)]
           c == CHOOSE f : Is(f)
<1>1. n \in Nat /\ DOMAIN seq = 1 .. n
  OBVIOUS
<1>2. \A x, y : Work("finish", global, x, y) = FinishCol(x, y, global)
  BY WorkIs, Zenon
<1>3. \A f : Works(f, "finish", global, w, seq, n) <=> Is(f)
  BY <1>1, <1>2 DEF Works
<1>4. \E f : Is(f)
  BY <1>1, <1>3, WorkExists
<1>5. Is(c)
  BY <1>4, Zenon
<1>6. FinishOver(w, seq, global) = c[DOMAIN seq]
  BY Zenon DEF FinishOver, FoldLeft, MapThenFoldSet
<1> HIDE DEF c
<1>7. Works(c, "finish", global, w, seq, n)
  BY <1>3, <1>5
<1> HIDE DEF Is, n
<1>8. PICK h : Runs(h, "finish", global, w, seq, n) /\ h[n] = c[1 .. n]
  BY <1>1, <1>7, WorkSteps
<1>9. QED
  BY <1>1, <1>2, <1>6, <1>8 DEF n, Runs

ColIds == [c \in Cols |-> c]

LEMMA ColIdsAre ==
  /\ ColIds \in Seq(Cols) /\ Len(ColIds) = NumCols /\ NumCols \in Nat
  /\ \A k \in 1 .. NumCols : k \in Cols /\ ColIds[k] = k
<1>1. NumCols \in Nat /\ Cols = 1 .. NumCols
  BY ColumnsAssumption DEF Cols
<1>2. QED
  BY <1>1 DEF ColIds

(* After submit_dict of all columns.                                       *)
LEMMA SubmitAllIs ==
  ASSUME cfg \in Configs, NEW w \in Writers
  PROVE  SubmittedTo(w, SubmitOver(w, ColIds), NumCols)
<1> DEFINE n == NumCols
<1>1. n \in Nat /\ Len(ColIds) = n /\ ColIds \in Seq(Cols) /\ \A k \in 1 .. n : k \in Cols /\ ColIds[k] = k
  BY ColIdsAre
<1>2. PICK h : /\ h[0] = w /\ SubmitOver(w, ColIds) = h[n]
               /\ \A k \in 1 .. n : h[k] = SubmitDict(h[k - 1], k)
  <2>1. PICK h : /\ h[0] = w /\ SubmitOver(w, ColIds) = h[Len(ColIds)]
                 /\ \A k \in 1 .. Len(ColIds) : h[k] = SubmitDict(h[k - 1], ColIds[k])
    BY <1>1, SubmitOverFold
  <2>2. QED
    BY <1>1, <2>1
<1> HIDE DEF n
<1> DEFINE S == {k \in Nat : k <= n => SubmittedTo(w, h[k], k)}
<1>3. 0 \in S
  <2>1. /\ w.enc \in [Cols -> EncStates] /\ w.dicts \in Seq(Dicts) /\ Len(w.dicts) \in Nat
        /\ w = [enc |-> w.enc, dicts |-> w.dicts, chunks |-> w.chunks]
    BY DEF Writers
  <2>2. \A x \in Cols : ~ (x <= 0)
    BY <1>1, ColumnsAssumption DEF Cols
  <2>3. w.enc = [x \in Cols |-> IF x <= 0 THEN Sub(w.enc[x], Len(w.dicts) + x) ELSE w.enc[x]]
    BY <2>1, <2>2
  <2>4. \A x \in 1 .. 0 : FALSE
    OBVIOUS
  <2>5. SubmittedTo(w, w, 0)
    BY <2>1, <2>3, <2>4 DEF SubmittedTo, IsWriter
  <2>6. QED
    BY <1>2, <2>5
<1>4. ASSUME NEW k \in Nat, k \in S
      PROVE  k + 1 \in S
  <2> SUFFICES ASSUME k + 1 <= n PROVE SubmittedTo(w, h[k + 1], k + 1)
    OBVIOUS
  <2>1. SubmittedTo(w, h[k], k) /\ k + 1 \in 1 .. n /\ k + 1 - 1 = k
    BY <1>1, <1>4
  <2>2. h[k + 1] = SubmitDict(h[k], k + 1) /\ k + 1 \in Cols
    BY <1>1, <1>2, <2>1
  <2>3. QED
    BY <2>1, <2>2, SubmitDictIs
<1> HIDE DEF S
<1>5. \A k \in Nat : k \in S
  BY <1>3, <1>4, AllNaturals
<1>6. QED
  BY <1>1, <1>2, <1>5 DEF S, n

-----------------------------------------------------------------------------
(***************************************************************************)
(* encode_dict_scope against a submitted dictionary, which has all values: *)
(* it stays as it is.                                                      *)
(***************************************************************************)
LEMMA ScopeSame ==
  ASSUME cfg \in Configs, NEW d \in Dicts, NEW arrays \in Seq(Arrays), Knows(d, arrays)
  PROVE  ScopeAll(d, arrays).dict = d
<1> DEFINE n == Len(arrays)
<1>1. n \in Nat /\ \A i \in 1 .. n : arrays[i] \in Arrays
  OBVIOUS
<1>2. PICK h : /\ h[0] = [dict |-> d, indices |-> << >>]
               /\ \A k \in 1 .. n : h[k] = ScopeStep(h[k - 1], arrays[k])
               /\ ScopeAll(d, arrays) = h[n]
  BY ScopeFold
<1>3. \A k \in 1 .. n : \A i \in 1 .. Len(arrays[k]) :
        arrays[k][i] # Null => arrays[k][i] \in ToSet(d.dictionary)
  BY DEF Knows
<1> HIDE DEF n
<1> DEFINE S == {k \in Nat : k <= n => h[k].dict = d}
<1>4. 0 \in S
  BY <1>2
<1>5. ASSUME NEW k \in Nat, k \in S
      PROVE  k + 1 \in S
  <2> SUFFICES ASSUME k + 1 <= n PROVE h[k + 1].dict = d
    OBVIOUS
  <2> DEFINE a == arrays[k + 1]
             s == Submit(d.dictionary, a)
             e == Extend(d.dictionary, a)
             x == ExtendAndGetIndex(d, a)
  <2>1. h[k].dict = d /\ k + 1 \in 1 .. n /\ k + 1 - 1 = k
    BY <1>1, <1>5
  <2>2. h[k + 1] = ScopeStep(h[k], a) /\ a \in Arrays
    BY <1>1, <1>2, <2>1
  <2>3. h[k + 1].dict = x.dict
    BY <2>1, <2>2 DEF ScopeStep
  <2>4. d \in [datatype : DictTypes, dictionary : Seq(cfg.values)] /\ d.dictionary \in Seq(cfg.values)
    BY DictIs
  <2>5. s = d.dictionary
    BY <1>3, <2>1, <2>2, <2>4, SubmitOnly DEF Arrays
  <2>6. x.dict = [d EXCEPT !.dictionary = e.dictionary] /\ e.dictionary = s
    BY DEF ExtendAndGetIndex, Extend
  <2> HIDE DEF s, e, x
  <2>7. x.dict = d
    BY <2>4, <2>5, <2>6
  <2>8. QED
    BY <2>3, <2>7
<1> HIDE DEF S
<1>6. \A k \in Nat : k \in S
  BY <1>4, <1>5, AllNaturals
<1>7. QED
  BY <1>1, <1>2, <1>6 DEF S

(* Chunks of one dictionary, at least one.                                 *)
AllUse(new, id) == Len(new) # 0 /\ \A k \in 1 .. Len(new) : new[k].dict = id

LEMMA InChunksUse ==
  ASSUME NEW label, NEW id, NEW units \in Seq(Units), units # << >>
  PROVE  AllUse(InChunks(label, id, units), id)
<1> DEFINE n == Len(units)
           each == [k \in DOMAIN units |-> [label |-> label, dict |-> id, units |-> <<units[k]>>]]
           one == << [label |-> label, dict |-> id, units |-> units] >>
<1>1. n \in Nat /\ n # 0 /\ DOMAIN units = 1 .. n
  OBVIOUS
<1>2. InChunks(label, id, units) = each \/ InChunks(label, id, units) = one
  BY DEF InChunks
<1>3. Len(one) = 1 /\ one[1].dict = id
  OBVIOUS
<1> HIDE DEF n
<1>4. Len(each) = n /\ \A k \in 1 .. n : each[k].dict = id
  <2>1. DOMAIN each = 1 .. n
    BY <1>1
  <2>2. \A k \in 1 .. n : each[k].dict = id
    BY <1>1
  <2> HIDE DEF each
  <2>3. QED
    BY <1>1, <2>1, <2>2
<1> HIDE DEF each, one
<1>5. AllUse(each, id)
  BY <1>1, <1>4 DEF AllUse
<1>6. AllUse(one, id)
  BY <1>3 DEF AllUse
<1>7. QED
  BY <1>2, <1>5, <1>6

(* Column c of w was submitted: its dictionary has all that is buffered.   *)
EncAny == [acc : Chunks, buffered : Seq(Arrays), submitted : Nat]
MergeWriters == [enc : [Cols -> EncAny], dicts : Seq(Dicts), chunks : [Cols -> Seq(Chunks)]]

Ready(w, c) ==
  LET e == w.enc[c]
  IN /\ e.buffered # << >> /\ e.submitted \in 1 .. Len(w.dicts)
     /\ w.dicts[e.submitted].datatype = ColType[c] /\ Knows(w.dicts[e.submitted], e.buffered)

Fresh(w, c, new) ==
  /\ new \in Seq(Chunks) /\ NewHold(w.dicts, c, new, w.enc[c].buffered)
  /\ AllUse(new, w.enc[c].submitted)

LEMMA MergeWriterIs ==
  ASSUME NEW w \in MergeWriters, NEW c \in Cols
  PROVE  /\ IsWriter(w) /\ w.enc \in [Cols -> EncAny] /\ w.dicts \in Seq(Dicts)
         /\ w.chunks \in [Cols -> Seq(Chunks)] /\ w.chunks[c] \in Seq(Chunks)
         /\ w.enc[c] \in EncAny /\ w.enc[c].buffered \in Seq(Arrays) /\ Len(w.dicts) \in Nat
<1>1. /\ IsWriter(w) /\ w.enc \in [Cols -> EncAny] /\ w.dicts \in Seq(Dicts)
      /\ w.chunks \in [Cols -> Seq(Chunks)]
  BY DEF MergeWriters, IsWriter
<1>2. w.enc[c] \in EncAny /\ w.chunks[c] \in Seq(Chunks) /\ Len(w.dicts) \in Nat
  BY <1>1
<1>3. w.enc[c].buffered \in Seq(Arrays)
  BY <1>2 DEF EncAny
<1>4. QED
  BY <1>1, <1>2, <1>3

LEMMA EncodeSubmitted ==
  ASSUME cfg \in Configs, NEW w \in MergeWriters, NEW c \in Cols, Ready(w, c)
  PROVE  \E new : Fresh(w, c, new) /\ EmitFields(w, c, << >>, w.dicts, new)
                  /\ EncodeScope(w, c) = Emit(SetBufDicts(w, c, << >>, w.dicts), c, new)
<1> DEFINE v == EncodeScope(w, c)
           ds == w.dicts
           arrays == w.enc[c].buffered
           id == w.enc[c].submitted
           all == ScopeAll(ds[id], arrays)
           units == [k \in DOMAIN all.indices |-> IndexUnit(all.indices[k], DictLen(all.dict))]
           new == InChunks("shared", id, units)
           oldIf == IF w.enc[c].submitted = None THEN Append(w.dicts, NewDict(ColType[c])) ELSE w.dicts
           idIf == IF w.enc[c].submitted = None THEN Len(oldIf) ELSE w.enc[c].submitted
           At(o, i) == LET x == ScopeAll(o[i], arrays)
                       IN Emit([w EXCEPT !.enc[c].buffered = << >>, !.dicts = [o EXCEPT ![i] = x.dict]],
                               c, InChunks("shared", i,
                                 [k \in DOMAIN x.indices |-> IndexUnit(x.indices[k], DictLen(x.dict))]))
<1>1. /\ IsWriter(w) /\ ds \in Seq(Dicts) /\ Len(ds) \in Nat /\ arrays \in Seq(Arrays)
  BY MergeWriterIs
<1>2. arrays # << >> /\ id \in 1 .. Len(ds) /\ ds[id].datatype = ColType[c] /\ Knows(ds[id], arrays)
  BY DEF Ready
<1>3. v = Emit([w EXCEPT !.enc[c].buffered = << >>, !.dicts = [ds EXCEPT ![id] = all.dict]], c, new)
  <2>1. v = At(oldIf, idIf)
    BY Zenon DEF EncodeScope, ScopeAll, ScopeStep, FoldLeft, MapThenFoldSet
  <2>2. oldIf = ds /\ idIf = id
    BY <1>1, <1>2 DEF None
  <2>3. At(ds, id) = Emit([w EXCEPT !.enc[c].buffered = << >>, !.dicts = [ds EXCEPT ![id] = all.dict]], c, new)
    BY Zenon
  <2> HIDE DEF v, At, oldIf, idIf
  <2>4. QED
    BY <2>1, <2>2, <2>3, Zenon
<1> HIDE DEF At, oldIf, idIf, v
<1>4. ds[id] \in Dicts /\ id \in Nat /\ DOMAIN ds = 1 .. Len(ds)
  BY <1>1, <1>2
<1>5. all.dict = ds[id]
  BY <1>1, <1>2, <1>4, ScopeSame
<1>6. /\ all \in ScopeStates /\ Len(all.indices) = Len(arrays)
      /\ \A k \in 1 .. Len(arrays) : Maps(all.dict.dictionary, all.indices[k], arrays[k])
  BY <1>1, <1>4, ScopeAllIs, SMTT(30)
<1>7. all.dict \in Dicts /\ all.indices \in Seq(IndexArrays)
  BY <1>6, ZenonT(30) DEF ScopeStates
<1> HIDE DEF all
<1>8. [ds EXCEPT ![id] = all.dict] = ds
  <2> HIDE DEF ds, id
  <2>1. QED
    BY <1>1, <1>4, <1>5
<1> DEFINE d == ds[id].dictionary
<1>9. d \in Seq(cfg.values) /\ DictLen(all.dict) = Len(d)
  BY <1>4, <1>5, DictIs DEF DictLen
<1>10. ASSUME NEW k \in 1 .. Len(arrays)
       PROVE  /\ units[k] = Unit(IndexType(Len(d)), all.indices[k])
              /\ units[k] \in Units /\ SharedHolds(d, units[k], arrays[k])
  <2>1. k \in DOMAIN all.indices /\ all.indices[k] \in IndexArrays
    BY <1>6, <1>7
  <2>2. units[k] = IndexUnit(all.indices[k], Len(d))
    BY <1>9, <2>1
  <2>3. Maps(d, all.indices[k], arrays[k])
    BY <1>5, <1>6
  <2> HIDE DEF units, d
  <2>4. units[k] = Unit(IndexType(Len(d)), all.indices[k])
    BY <1>9, <2>1, <2>2, <2>3, IndexUnitIs DEF IndexArrays
  <2>5. all.indices[k] \in Seq(cfg.values \cup {Null} \cup Nat)
    BY <2>1, SeqWidens DEF IndexArrays
  <2>6. IndexType(Len(d)) \in DictTypes \cup IndexTypes
    BY IndexTypeIs
  <2>7. QED
    BY <2>3, <2>4, <2>5, <2>6, UnitIs DEF SharedHolds
<1>11. units \in Seq(Units) /\ Len(units) = Len(arrays)
  <2>1. DOMAIN all.indices = 1 .. Len(arrays) /\ Len(arrays) \in Nat
    BY <1>1, <1>6, <1>7
  <2>2. units \in [1 .. Len(arrays) -> Units]
    BY <1>10, <2>1
  <2> HIDE DEF units
  <2>3. QED
    BY <2>1, <2>2
<1> HIDE DEF units, arrays
<1>12. UnitsHold(ds, c, "shared", id, units, arrays)
  <2>1. \A k \in 1 .. Len(arrays) : UnitHolds(ds, c, "shared", id, units[k], arrays[k])
    BY <1>2, <1>10 DEF UnitHolds
  <2> HIDE DEF ds, id
  <2>2. QED
    BY <1>11, <2>1 DEF UnitsHold
<1>13. "shared" \in Labels
  BY DEF Labels
<1>14. units # << >>
  BY <1>1, <1>2, <1>11
<1> HIDE DEF d, id
<1>15. new \in Seq(Chunks) /\ NewHold(ds, c, new, arrays) /\ AllUse(new, id)
  BY <1>1, <1>4, <1>11, <1>12, <1>13, <1>14, InChunksHold, InChunksUse
<1> HIDE DEF new
<1>16. Fresh(w, c, new)
  BY <1>15 DEF Fresh, arrays, id
<1>17. EmitFields(w, c, << >>, ds, new)
  BY <1>1, FieldsAre, Zenon
<1>18. v = Emit(SetBufDicts(w, c, << >>, ds), c, new)
  BY <1>3, <1>8, Zenon DEF SetBufDicts
<1>19. QED
  BY <1>16, <1>17, <1>18 DEF v

(* The writer after the first k columns were flushed.                      *)
FlushedTo(u, v, k) ==
  /\ v \in MergeWriters /\ v.dicts = u.dicts
  /\ \A x \in Cols : x > k => v.enc[x] = u.enc[x] /\ v.chunks[x] = u.chunks[x]
  /\ \A x \in Cols : x <= k => \E new : Fresh(u, x, new) /\ v.chunks[x] = u.chunks[x] \o new

LEMMA FinishColMerged ==
  ASSUME cfg \in Configs, cfg.mode = "multicol", NEW u \in MergeWriters, \A x \in Cols : Ready(u, x),
         NEW k \in Nat, k + 1 \in Cols, NEW v, FlushedTo(u, v, k), NEW global
  PROVE  FlushedTo(u, FinishCol(v, k + 1, global), k + 1)
<1> DEFINE c == k + 1
           t == FinishCol(v, c, global)
           e == [v.enc[c] EXCEPT !.buffered = << >>]
<1>1. /\ v \in MergeWriters /\ v.dicts = u.dicts
      /\ \A x \in Cols : x > k => v.enc[x] = u.enc[x] /\ v.chunks[x] = u.chunks[x]
      /\ \A x \in Cols : x <= k => \E new : Fresh(u, x, new) /\ v.chunks[x] = u.chunks[x] \o new
  BY DEF FlushedTo
<1>2. c \in Cols /\ c > k /\ \A x \in Cols : x > c => x > k /\ x # c
  BY ColumnsAssumption DEF Cols
<1>3. v.enc[c] = u.enc[c] /\ v.chunks[c] = u.chunks[c]
  BY <1>1, <1>2
<1>4. Ready(u, c)
  BY <1>2
<1>5. Ready(v, c) /\ v.enc[c].buffered # << >>
  BY <1>1, <1>3, <1>4 DEF Ready
<1>6. t = EncodeScope(v, c)
  <2>1. cfg.mode \in ScopeModes /\ cfg.mode \notin {"encoder", "local"} /\ cfg.mode # "glbest"
    BY DEF ScopeModes
  <2>2. QED
    BY <1>5, <2>1 DEF FinishCol
<1> HIDE DEF c, t
<1>7. PICK new : /\ Fresh(v, c, new) /\ EmitFields(v, c, << >>, v.dicts, new)
                 /\ EncodeScope(v, c) = Emit(SetBufDicts(v, c, << >>, v.dicts), c, new)
  BY <1>1, <1>2, <1>5, EncodeSubmitted
<1>8. t = [enc |-> [v.enc EXCEPT ![c] = e], dicts |-> v.dicts,
           chunks |-> [v.chunks EXCEPT ![c] = v.chunks[c] \o new]]
  BY <1>6, <1>7, Zenon DEF EmitFields
<1>9. /\ v.enc \in [Cols -> EncAny] /\ v.dicts \in Seq(Dicts) /\ v.chunks \in [Cols -> Seq(Chunks)]
      /\ v.enc[c] \in EncAny /\ v.chunks[c] \in Seq(Chunks)
  BY <1>1, <1>2, MergeWriterIs
<1>10. new \in Seq(Chunks) /\ Fresh(u, c, new)
  BY <1>1, <1>3, <1>7 DEF Fresh
<1>11. e \in EncAny
  BY <1>9, EmptySeqs DEF EncAny
<1> HIDE DEF e
<1>12. v.chunks[c] \o new \in Seq(Chunks)
  BY <1>9, <1>10
<1>13. /\ t.enc = [v.enc EXCEPT ![c] = e] /\ t.dicts = v.dicts
       /\ t.chunks = [v.chunks EXCEPT ![c] = v.chunks[c] \o new]
       /\ t = [enc |-> t.enc, dicts |-> t.dicts, chunks |-> t.chunks]
  BY <1>8
<1>14. t.enc \in [Cols -> EncAny] /\ t.chunks \in [Cols -> Seq(Chunks)]
  BY <1>9, <1>11, <1>12, <1>13
<1>15. t \in MergeWriters
  BY <1>9, <1>13, <1>14 DEF MergeWriters
<1>16. \A x \in Cols : x # c => t.enc[x] = v.enc[x] /\ t.chunks[x] = v.chunks[x]
  BY <1>9, <1>13
<1>17. t.chunks[c] = u.chunks[c] \o new
  BY <1>2, <1>3, <1>9, <1>13
<1>18. \A x \in Cols : x > c => t.enc[x] = u.enc[x] /\ t.chunks[x] = u.chunks[x]
  BY <1>1, <1>2, <1>16
<1>19. ASSUME NEW x \in Cols, x <= c
       PROVE  \E y : Fresh(u, x, y) /\ t.chunks[x] = u.chunks[x] \o y
  <2>1. x = c \/ (x # c /\ x <= k)
    BY <1>19, ColumnsAssumption DEF Cols, c
  <2>2. QED
    BY <1>1, <1>10, <1>16, <1>17, <2>1, ZenonT(30)
<1>20. QED
  BY <1>1, <1>13, <1>15, <1>18, <1>19 DEF FlushedTo, c, t

(* flush_pending_chunks after submit_dict.                                 *)
LEMMA FlushMerged ==
  ASSUME cfg \in Configs, cfg.mode = "multicol", NEW u \in MergeWriters, \A x \in Cols : Ready(u, x),
         NEW global
  PROVE  FlushedTo(u, FlushPending(u, global), NumCols)
<1> DEFINE n == NumCols
           v == FlushPending(u, global)
<1>1. n \in Nat /\ Len(ColIds) = n /\ ColIds \in Seq(Cols) /\ \A k \in 1 .. n : k \in Cols /\ ColIds[k] = k
  BY ColIdsAre
<1>2. v = FinishOver(u, ColIds, global)
  BY Zenon DEF FlushPending, FinishOver, ColIds
<1> HIDE DEF v
<1>3. PICK h : /\ h[0] = u /\ v = h[n]
               /\ \A k \in 1 .. n : h[k] = FinishCol(h[k - 1], k, global)
  <2>1. PICK h : /\ h[0] = u /\ FinishOver(u, ColIds, global) = h[Len(ColIds)]
                 /\ \A k \in 1 .. Len(ColIds) : h[k] = FinishCol(h[k - 1], ColIds[k], global)
    BY <1>1, FinishOverFold
  <2>2. QED
    BY <1>1, <1>2, <2>1
<1> HIDE DEF n
<1> DEFINE S == {k \in Nat : k <= n => FlushedTo(u, h[k], k)}
<1>4. 0 \in S
  <2>1. \A x \in Cols : ~ (x <= 0)
    BY ColumnsAssumption DEF Cols
  <2>2. QED
    BY <1>3, <2>1 DEF FlushedTo
<1>5. ASSUME NEW k \in Nat, k \in S
      PROVE  k + 1 \in S
  <2> SUFFICES ASSUME k + 1 <= n PROVE FlushedTo(u, h[k + 1], k + 1)
    OBVIOUS
  <2>1. FlushedTo(u, h[k], k) /\ k + 1 \in 1 .. n /\ k + 1 - 1 = k
    BY <1>1, <1>5
  <2>2. h[k + 1] = FinishCol(h[k], k + 1, global) /\ k + 1 \in Cols
    BY <1>1, <1>3, <2>1
  <2>3. QED
    BY <2>1, <2>2, FinishColMerged
<1> HIDE DEF S
<1>6. \A k \in Nat : k \in S
  BY <1>4, <1>5, AllNaturals
<1>7. QED
  BY <1>1, <1>3, <1>6 DEF S, n, v

(* u is w with merged dictionaries, one of them for each column.           *)
ReadyFrom(w, m, u) ==
  /\ u \in MergeWriters /\ u.dicts = m.dicts /\ u.chunks = w.chunks
  /\ Len(u.dicts) = Len(w.dicts) + NumCols
  /\ \A x \in Cols : /\ Ready(u, x) /\ u.enc[x].buffered = w.enc[x].buffered
                     /\ u.enc[x].submitted = Len(w.dicts) + x

(* After merge_dicts every column is ready to be flushed.                  *)
LEMMA MergedReady ==
  ASSUME cfg \in Configs, NEW w \in Writers, NEW v, SubmittedTo(w, v, NumCols),
         NEW m, MergeOK(v.dicts, m), \A c \in Cols : w.enc[c].buffered # << >>,
         NEW u, u = [v EXCEPT !.dicts = m.dicts]
  PROVE  ReadyFrom(w, m, u)
<1> DEFINE n == Len(w.dicts)
<1>1. /\ IsWriter(v) /\ v.chunks = w.chunks
      /\ v.enc = [x \in Cols |-> IF x <= NumCols THEN Sub(w.enc[x], n + x) ELSE w.enc[x]]
      /\ v.dicts \in Seq(Dicts) /\ Len(v.dicts) = n + NumCols
      /\ \A x \in 1 .. NumCols : /\ v.dicts[n + x].datatype = ColType[x]
                                 /\ Knows(v.dicts[n + x], w.enc[x].buffered)
  BY DEF SubmittedTo
<1>2. Cols = 1 .. NumCols /\ NumCols \in Nat /\ n \in Nat /\ 1 \in Cols
  BY WriterIs, ColumnsAssumption DEF Cols
<1>3. /\ m.dicts \in Seq(Dicts) /\ Len(m.dicts) = n + NumCols
      /\ \A i \in 1 .. n + NumCols : SameDict(m.dicts[i], v.dicts[i])
  BY <1>1 DEF MergeOK
<1>4. u = [enc |-> v.enc, dicts |-> m.dicts, chunks |-> v.chunks]
  BY <1>1, FieldsAre, Zenon
<1>5. u.enc = v.enc /\ u.dicts = m.dicts /\ u.chunks = v.chunks
  BY <1>4
<1> HIDE DEF n
<1>6. ASSUME NEW x \in Cols
      PROVE  /\ u.enc[x] = Sub(w.enc[x], n + x) /\ u.enc[x] \in EncAny
             /\ u.enc[x].buffered = w.enc[x].buffered /\ u.enc[x].submitted = n + x
  <2>1. u.enc[x] = Sub(w.enc[x], n + x)
    BY <1>1, <1>2, <1>5
  <2>2. w.enc[x].acc \in Chunks /\ w.enc[x].buffered \in Seq(Arrays) /\ n + x \in Nat
    BY <1>2, WriterIs
  <2>3. QED
    BY <2>1, <2>2 DEF Sub, EncAny
<1>7. ASSUME NEW x \in Cols
      PROVE  Ready(u, x)
  <2> DEFINE d == m.dicts[n + x]
             e == v.dicts[n + x]
             b == w.enc[x].buffered
  <2>1. n + x \in 1 .. n + NumCols /\ x \in 1 .. NumCols
    BY <1>2
  <2>2. SameDict(d, e) /\ e.datatype = ColType[x] /\ Knows(e, b)
    BY <1>1, <1>3, <2>1
  <2>3. d.datatype = ColType[x] /\ Knows(d, b)
    BY <2>2 DEF SameDict, Knows
  <2> HIDE DEF d, e
  <2>4. QED
    BY <1>3, <1>5, <1>6, <2>1, <2>3 DEF Ready, d
<1>8. u \in MergeWriters
  <2>1. u.enc \in [Cols -> EncAny]
    <3>1. u.enc = [x \in Cols |-> u.enc[x]]
      BY <1>1, <1>5
    <3>2. QED
      BY <1>6, <3>1
  <2>2. w.chunks \in [Cols -> Seq(Chunks)]
    BY <1>2, WriterIs
  <2>3. u = [enc |-> u.enc, dicts |-> u.dicts, chunks |-> u.chunks]
    BY <1>4, <1>5
  <2>4. QED
    BY <1>1, <1>3, <1>5, <2>1, <2>2, <2>3 DEF MergeWriters
<1>9. QED
  BY <1>1, <1>3, <1>5, <1>6, <1>7, <1>8 DEF n, ReadyFrom

-----------------------------------------------------------------------------
(***************************************************************************)
(* The dictionary part of a file with merged dictionaries.  A dictionary   *)
(* is stored in one chunk or in two, of which the first may be its peer's. *)
(***************************************************************************)
DictPart(d, rows) ==
  [label |-> "none", dict |-> None, units |-> << DictUnit(DictArray(d).type, rows) >>]
Cut(d, m) == IF m.peer = None THEN Len(d.dictionary) ELSE m.len
FirstPart(d, m) == DictPart(d, SubSeq(d.dictionary, 1, Cut(d, m)))
RestPart(d, m) == DictPart(d, SubSeq(d.dictionary, Cut(d, m) + 1, Len(d.dictionary)))
HasRest(d, m) == Len(d.dictionary) # Cut(d, m)
Home(m, i) == IF m.peer # None /\ m.peer < i THEN m.peer ELSE i
Own(d, m, i) ==
  (IF Home(m, i) = i THEN << FirstPart(d, m) >> ELSE << >>)
  \o (IF HasRest(d, m) THEN << RestPart(d, m) >> ELSE << >>)

LEMMA OwnIs ==
  ASSUME NEW ds \in Seq(Dicts), NEW peers, Peered(ds, peers), NEW i \in 1 .. Len(ds)
  PROVE  DictChunks(ds, peers, i) = Own(ds[i], peers[i], i)
<1> DEFINE d == DictArray(ds[i]).rows
           m == peers[i]
           mIf == IF i \in DOMAIN peers THEN peers[i] ELSE [peer |-> None, len |-> 0]
           Made(x) ==
             (IF x.peer # None /\ i < x.peer THEN << DictPart(ds[i], SubSeq(d, 1, x.len)) >> ELSE << >>)
             \o (IF x.peer # None /\ Len(d) = x.len
                 THEN << >> ELSE << DictPart(ds[i], SubSeq(d, x.len + 1, Len(d))) >>)
<1>1. /\ peers \in [1 .. Len(ds) -> [peer : Nat, len : Nat]] /\ m.peer \in Nat /\ m.len \in Nat
      /\ m.peer = None => m.len = 0
      /\ m.peer # None => m.peer # i
  BY DEF Peered
<1>2. ds[i] \in Dicts /\ i \in Nat
  OBVIOUS
<1>3. d = ds[i].dictionary /\ d \in Seq(cfg.values) /\ Len(d) \in Nat
  BY <1>2, DictIs DEF DictArray
<1>4. DictChunks(ds, peers, i) = Made(mIf)
  BY Zenon DEF DictChunks, DictPart
<1>5. mIf = m
  BY <1>1
<1>6. DictChunks(ds, peers, i) = Made(m)
  BY <1>4, <1>5
<1> HIDE DEF mIf, d, m
<1>7. \A x : << >> \o << x >> = << x >> /\ << x >> \o << >> = << x >>
  OBVIOUS
<1>8. CASE m.peer = None
  <2>1. Made(m) = << >> \o << DictPart(ds[i], SubSeq(d, 1, Len(d))) >>
    BY <1>1, <1>8
  <2>2. Cut(ds[i], m) = Len(d) /\ ~ HasRest(ds[i], m) /\ Home(m, i) = i
    BY <1>3, <1>8 DEF Cut, HasRest, Home
  <2>3. Own(ds[i], m, i) = << DictPart(ds[i], SubSeq(d, 1, Len(d))) >> \o << >>
    BY <1>3, <2>2 DEF Own, FirstPart
  <2>4. QED
    BY <1>6, <1>7, <2>1, <2>3 DEF m
<1>9. CASE m.peer # None
  <2>1. Cut(ds[i], m) = m.len /\ (HasRest(ds[i], m) <=> Len(d) # m.len)
    BY <1>3, <1>9 DEF Cut, HasRest
  <2>2. Home(m, i) = i <=> i < m.peer
    BY <1>1, <1>2, <1>9 DEF Home
  <2>3. /\ FirstPart(ds[i], m) = DictPart(ds[i], SubSeq(d, 1, m.len))
        /\ RestPart(ds[i], m) = DictPart(ds[i], SubSeq(d, m.len + 1, Len(d)))
    BY <1>3, <2>1 DEF FirstPart, RestPart
  <2>4. Own(ds[i], m, i) = Made(m)
    BY <1>9, <2>1, <2>2, <2>3 DEF Own
  <2>5. QED
    BY <1>6, <2>4 DEF m
<1>10. QED
  BY <1>8, <1>9

(* Where each sequence starts in their concatenation.                      *)
Starts(s, seqs, n) ==
  /\ s \in [1 .. n + 1 -> Nat \ {0}]
  /\ \A i \in 1 .. n : /\ s[i] = Count(SubSeq(seqs, 1, i - 1)) /\ s[i + 1] = s[i] + Len(seqs[i])
                       /\ \A k \in 1 .. Len(seqs[i]) :
                            /\ s[i] + k - 1 \in DOMAIN FlattenSeq(seqs)
                            /\ FlattenSeq(seqs)[s[i] + k - 1] = seqs[i][k]

LEMMA StartsAre ==
  ASSUME NEW T, NEW seqs \in Seq(Seq(T)), NEW n, n = Len(seqs), n # 0
  PROVE  \E s : Starts(s, seqs, n)
<1>0. n \in Nat /\ Len(seqs) = n
  OBVIOUS
<1>1. PICK f : Flattens(f, seqs, n) /\ FlattenSeq(seqs) = f[n]
  BY FlattenIs
<1>2. ASSUME NEW k \in 1 .. n
      PROVE  /\ seqs[k] \in Seq(T) /\ Len(seqs[k]) \in Nat /\ Before(f, k) \in Nat /\ f[k] \in Seq(T)
             /\ Len(f[k]) = Before(f, k) + Len(seqs[k]) /\ Len(f[k]) \in Nat
             /\ Before(f, k + 1) = Len(f[k])
             /\ Before(f, k) + Len(seqs[k]) <= Len(f[n])
             /\ \A x \in 1 .. Len(seqs[k]) : f[n][Before(f, k) + x] = seqs[k][x]
  <2>1. /\ seqs[k] \in Seq(T) /\ f[k] \in Seq(T) /\ Before(f, k) \in Nat
        /\ Len(f[k]) = Before(f, k) + Len(seqs[k])
    BY <1>1, FlattensPlace
  <2>2. /\ Before(f, k) + Len(seqs[k]) <= Len(f[n])
        /\ \A x \in 1 .. Len(seqs[k]) : f[n][Before(f, k) + x] = seqs[k][x]
    BY <1>1, FlattenPlace, SMTT(30)
  <2>3. k + 1 # 1 /\ k + 1 - 1 = k
    BY <1>0
  <2>4. Before(f, k + 1) = Len(f[k])
    BY <2>3 DEF Before
  <2>5. Len(seqs[k]) \in Nat /\ Len(f[k]) \in Nat
    BY <2>1
  <2>6. QED
    BY <2>1, <2>2, <2>4, <2>5
<1>3. Before(f, 1) = 0
  BY DEF Before
<1>4. f[n] \in Seq(T)
  BY <1>1, FlattenType
<1>5. ASSUME NEW i \in 1 .. n
      PROVE  Count(SubSeq(seqs, 1, i - 1)) = 1 + Before(f, i)
  <2> DEFINE b == SubSeq(seqs, 1, i - 1)
             m == i - 1
  <2>1. /\ b \in Seq(Seq(T)) /\ Len(b) = m /\ m \in Nat /\ i = m + 1 /\ m < n
        /\ \A k \in 1 .. m : b[k] = seqs[k] /\ k \in 1 .. n
    BY <1>0
  <2> HIDE DEF b, m
  <2>2. PICK h : /\ h[0] = 1 /\ Count(b) = h[Len(b)]
                 /\ \A k \in 1 .. Len(b) : h[k] = h[k - 1] + Len(b[k])
    BY <2>1, CountFold
  <2>3. \A k \in 1 .. m : h[k] = h[k - 1] + Len(seqs[k])
    BY <2>1, <2>2
  <2> DEFINE S == {k \in Nat : k <= m => h[k] = 1 + Before(f, k + 1)}
  <2>4. 0 \in S
    BY <1>3, <2>2
  <2>5. ASSUME NEW k \in Nat, k \in S
        PROVE  k + 1 \in S
    <3> SUFFICES ASSUME k + 1 <= m PROVE h[k + 1] = 1 + Before(f, k + 1 + 1)
      OBVIOUS
    <3>1. k + 1 \in 1 .. m /\ k + 1 - 1 = k /\ k + 1 \in 1 .. n
      BY <1>0, <2>1
    <3>2. h[k] = 1 + Before(f, k + 1) /\ h[k + 1] = h[k] + Len(seqs[k + 1])
      BY <2>1, <2>3, <2>5, <3>1
    <3>3. Before(f, k + 1 + 1) = Before(f, k + 1) + Len(seqs[k + 1]) /\ Before(f, k + 1) \in Nat
          /\ Len(seqs[k + 1]) \in Nat
      BY <1>2, <3>1
    <3> DEFINE p == Before(f, k + 1)
               q == Before(f, k + 1 + 1)
               l == Len(seqs[k + 1])
    <3>4. h[k + 1] = 1 + p + l /\ q = p + l /\ p \in Nat /\ l \in Nat
      BY <3>2, <3>3
    <3> HIDE DEF p, q, l
    <3>5. h[k + 1] = 1 + q
      BY <3>4
    <3>6. QED
      BY <3>5 DEF q
  <2> HIDE DEF S
  <2>6. \A k \in Nat : k \in S
    BY <2>4, <2>5, AllNaturals
  <2>7. h[m] = 1 + Before(f, m + 1)
    BY <2>1, <2>6 DEF S
  <2>8. QED
    BY <2>1, <2>2, <2>7 DEF b
<1> DEFINE s == [i \in 1 .. n + 1 |-> 1 + Before(f, i)]
<1>6. \A i \in 1 .. n + 1 : Before(f, i) \in Nat
  <2> SUFFICES ASSUME NEW i \in 1 .. n + 1 PROVE Before(f, i) \in Nat
    OBVIOUS
  <2>1. i \in 1 .. n \/ (n \in 1 .. n /\ i = n + 1)
    BY <1>0
  <2>2. QED
    BY <1>2, <2>1
<1>7. s \in [1 .. n + 1 -> Nat \ {0}] /\ \A i \in 1 .. n + 1 : s[i] = 1 + Before(f, i)
  BY <1>6
<1> HIDE DEF s
<1>8. ASSUME NEW i \in 1 .. n
      PROVE  /\ s[i] = Count(SubSeq(seqs, 1, i - 1)) /\ s[i + 1] = s[i] + Len(seqs[i])
             /\ \A k \in 1 .. Len(seqs[i]) :
                  /\ s[i] + k - 1 \in DOMAIN FlattenSeq(seqs)
                  /\ FlattenSeq(seqs)[s[i] + k - 1] = seqs[i][k]
  <2>1. i \in 1 .. n + 1 /\ i + 1 \in 1 .. n + 1
    BY <1>0
  <2>2. s[i] = 1 + Before(f, i) /\ s[i + 1] = 1 + Before(f, i + 1)
    BY <1>7, <2>1
  <2>3. s[i] = Count(SubSeq(seqs, 1, i - 1))
    BY <1>5, <2>2
  <2>4. s[i + 1] = s[i] + Len(seqs[i])
    BY <1>2, <2>2
  <2>5. ASSUME NEW k \in 1 .. Len(seqs[i])
        PROVE  s[i] + k - 1 \in DOMAIN f[n] /\ f[n][s[i] + k - 1] = seqs[i][k]
    <3>1. Before(f, i) \in Nat /\ Len(seqs[i]) \in Nat /\ Before(f, i) + Len(seqs[i]) <= Len(f[n])
      BY <1>2
    <3>2. s[i] + k - 1 = Before(f, i) + k
      BY <2>2, <3>1
    <3>3. Before(f, i) + k \in 1 .. Len(f[n])
      BY <1>4, <3>1
    <3>4. QED
      BY <1>2, <1>4, <3>2, <3>3
  <2>6. QED
    BY <1>1, <2>3, <2>4, <2>5
<1>9. Starts(s, seqs, n)
  BY <1>7, <1>8, Zenon DEF Starts
<1>10. QED
  BY <1>9

LEMMA OwnCases ==
  ASSUME NEW d, NEW m, NEW i
  PROVE  LET home == Home(m, i) = i
             rest == HasRest(d, m)
         IN /\ home /\ rest => Own(d, m, i) = << FirstPart(d, m), RestPart(d, m) >>
            /\ home /\ ~ rest => Own(d, m, i) = << FirstPart(d, m) >>
            /\ ~ home /\ rest => Own(d, m, i) = << RestPart(d, m) >>
            /\ ~ home /\ ~ rest => Own(d, m, i) = << >>
<1>1. \A x, y : /\ << >> \o << x >> = << x >> /\ << x >> \o << >> = << x >>
                /\ << x >> \o << y >> = << x, y >> /\ << >> \o << >> = << >>
  BY Tuples, Zenon
<1> DEFINE a == FirstPart(d, m)
           b == RestPart(d, m)
<1>2. Own(d, m, i) = (IF Home(m, i) = i THEN << a >> ELSE << >>) \o (IF HasRest(d, m) THEN << b >> ELSE << >>)
  BY DEF Own
<1> HIDE DEF a, b
<1>3. QED
  BY <1>1, <1>2, Zenon DEF a, b

(* The dictionary table t: the chunks of dictionary i start at s[i].       *)
Laid(t, ds, peers, s) ==
  /\ s \in [1 .. Len(ds) + 1 -> Nat \ {0}] /\ DOMAIN t.positions = 1 .. Len(ds)
  /\ \A i \in 1 .. Len(ds) :
       LET home == Home(peers[i], i)
           rest == HasRest(ds[i], peers[i])
       IN /\ s[i + 1] = s[i] + (IF home = i THEN 1 ELSE 0) + (IF rest THEN 1 ELSE 0)
          /\ t.positions[i] = IF rest THEN << s[home], s[i + 1] - 1 >> ELSE << s[home] >>
          /\ s[home] \in DOMAIN t.chunks /\ t.chunks[s[home]] = FirstPart(ds[i], peers[i])
          /\ rest => /\ s[i + 1] - 1 \in DOMAIN t.chunks
                     /\ t.chunks[s[i + 1] - 1] = RestPart(ds[i], peers[i])

(* The common values of two peers are one chunk.                           *)
LEMMA FirstShared ==
  ASSUME NEW ds \in Seq(Dicts), NEW peers, Peered(ds, peers), NEW i \in 1 .. Len(ds),
         Home(peers[i], i) # i
  PROVE  LET p == Home(peers[i], i)
         IN /\ p = peers[i].peer /\ p \in 1 .. Len(ds) /\ p < i /\ peers[p].peer = i /\ Home(peers[p], p) = p
            /\ FirstPart(ds[p], peers[p]) = FirstPart(ds[i], peers[i])
<1> DEFINE p == Home(peers[i], i)
           l == peers[i].len
           a == SubSeq(ds[p].dictionary, 1, l)
           b == SubSeq(ds[i].dictionary, 1, l)
<1>1. p = peers[i].peer /\ p < i /\ p # None
  BY DEF Home
<1>2. /\ p \in 1 .. Len(ds) /\ peers[p].peer = i /\ peers[p].len = l /\ Shares(ds[i], ds[p], l)
  BY <1>1 DEF Peered
<1>3. i # None /\ i \in Nat /\ p \in Nat /\ Len(ds) \in Nat
  BY <1>2 DEF None
<1> HIDE DEF p
<1>4. Home(peers[p], p) = p
  BY <1>1, <1>2, <1>3 DEF Home
<1>5. Cut(ds[p], peers[p]) = l /\ Cut(ds[i], peers[i]) = l
  BY <1>1, <1>2, <1>3 DEF Cut
<1>6. /\ ds[i].dictionary \in Seq(cfg.values) /\ ds[p].dictionary \in Seq(cfg.values)
  BY <1>2, DictIs
<1>7. /\ ds[i].datatype = ds[p].datatype /\ l \in Nat
      /\ l <= Len(ds[i].dictionary) /\ l <= Len(ds[p].dictionary)
      /\ \A k \in 1 .. l : ds[i].dictionary[k] = ds[p].dictionary[k]
  BY <1>2 DEF Shares
<1> HIDE DEF l
<1>8. a = b
  <2> DEFINE x == ds[p].dictionary
             y == ds[i].dictionary
  <2>0. x \in Seq(cfg.values) /\ y \in Seq(cfg.values) /\ l <= Len(y) /\ l <= Len(x) /\ l \in Nat
        /\ \A k \in 1 .. l : y[k] = x[k]
    BY <1>6, <1>7
  <2> HIDE DEF x, y
  <2>1. /\ SubSeq(x, 1, l) \in Seq(cfg.values) /\ Len(SubSeq(x, 1, l)) = l
        /\ \A k \in 1 .. l : SubSeq(x, 1, l)[k] = x[k]
    <3> DEFINE z == SubSeq(x, 0 + 1, l)
    <3>1. l = l - 0 /\ 0 \in Nat /\ l \in Nat /\ l <= Len(x) /\ x \in Seq(cfg.values)
      BY <2>0
    <3>2. IsSlice(z, cfg.values, x, 0, l)
      BY <3>1, Slice, Zenon
    <3>3. z = SubSeq(x, 1, l)
      OBVIOUS
    <3> HIDE DEF z
    <3>4. \A k \in 1 .. l : z[k] = x[k]
      BY <2>0, <3>2 DEF IsSlice
    <3>5. QED
      BY <3>2, <3>3, <3>4, Zenon DEF IsSlice
  <2>2. /\ SubSeq(y, 1, l) \in Seq(cfg.values) /\ Len(SubSeq(y, 1, l)) = l
        /\ \A k \in 1 .. l : SubSeq(y, 1, l)[k] = y[k]
    <3> DEFINE z == SubSeq(y, 0 + 1, l)
    <3>1. l = l - 0 /\ 0 \in Nat /\ l \in Nat /\ l <= Len(y) /\ y \in Seq(cfg.values)
      BY <2>0
    <3>2. IsSlice(z, cfg.values, y, 0, l)
      BY <3>1, Slice, Zenon
    <3>3. z = SubSeq(y, 1, l)
      OBVIOUS
    <3> HIDE DEF z
    <3>4. \A k \in 1 .. l : z[k] = y[k]
      BY <2>0, <3>2 DEF IsSlice
    <3>5. QED
      BY <3>2, <3>3, <3>4, Zenon DEF IsSlice
  <2>3. SubSeq(x, 1, l) = SubSeq(y, 1, l)
    BY <2>0, <2>1, <2>2, SameSeq
  <2>4. QED
    BY <2>3 DEF x, y
<1>9. FirstPart(ds[p], peers[p]) = DictPart(ds[p], a) /\ FirstPart(ds[i], peers[i]) = DictPart(ds[i], b)
  BY <1>5 DEF FirstPart
<1> HIDE DEF a, b
<1>10. DictPart(ds[p], a) = DictPart(ds[i], b)
  BY <1>7, <1>8 DEF DictPart, DictArray
<1>11. QED
  BY <1>1, <1>2, <1>4, <1>9, <1>10 DEF p

LEMMA TableLaid ==
  ASSUME NEW ds \in Seq(Dicts), Len(ds) # 0, NEW peers, Peered(ds, peers)
  PROVE  \E s : Laid(DictTable(ds, peers), ds, peers, s)
<1> DEFINE n == Len(ds)
           all == [i \in DOMAIN ds |-> DictChunks(ds, peers, i)]
           O(i) == Own(ds[i], peers[i], i)
           own(i) == [k \in DOMAIN all[i] |-> Count(SubSeq(all, 1, i - 1)) + k - 1]
           ByPeer(i) == i \in DOMAIN peers /\ peers[i].peer # None /\ peers[i].peer < i
           Both(i) == <<Count(SubSeq(all, 1, peers[i].peer - 1))>> \o own(i)
           T == {FirstPart(ds[i], peers[i]) : i \in 1 .. n} \cup {RestPart(ds[i], peers[i]) : i \in 1 .. n}
           t == DictTable(ds, peers)
<1>1. n \in Nat /\ n # 0 /\ DOMAIN ds = 1 .. n /\ DOMAIN peers = 1 .. n
  BY DEF Peered
<1>2. t = [chunks |-> FlattenSeq(all),
           positions |-> [i \in DOMAIN ds |-> IF ByPeer(i) THEN Both(i) ELSE own(i)]]
  BY Zenon DEF DictTable, Count
<1>3. all = [i \in 1 .. n |-> O(i)]
  BY <1>1, OwnIs
<1>4. ASSUME NEW i \in 1 .. n
      PROVE  O(i) \in Seq(T)
  <2>1. FirstPart(ds[i], peers[i]) \in T /\ RestPart(ds[i], peers[i]) \in T
    BY <1>4
  <2> HIDE DEF T
  <2>2. \A a, b \in T : <<a, b>> \in Seq(T) /\ <<a>> \in Seq(T) /\ << >> \in Seq(T)
    OBVIOUS
  <2>3. QED
    BY <2>1, <2>2, OwnCases
<1>5. t.chunks = FlattenSeq(all) /\ t.positions = [i \in 1 .. n |-> IF ByPeer(i) THEN Both(i) ELSE own(i)]
  <2> DEFINE F == FlattenSeq(all)
             P == [i \in DOMAIN ds |-> IF ByPeer(i) THEN Both(i) ELSE own(i)]
  <2>1. t = [chunks |-> F, positions |-> P]
    BY <1>2
  <2>2. P = [i \in 1 .. n |-> IF ByPeer(i) THEN Both(i) ELSE own(i)]
    BY <1>1, Zenon
  <2> HIDE DEF F, P, t
  <2>3. t.chunks = F /\ t.positions = P
    BY <2>1
  <2>4. QED
    BY <2>2, <2>3, Zenon DEF F
<1>6. \A i \in 1 .. n : ByPeer(i) <=> Home(peers[i], i) # i
  BY <1>1 DEF Home
<1> HIDE DEF T, O, t, n, ByPeer
<1>7. all \in Seq(Seq(T)) /\ Len(all) = n /\ \A i \in 1 .. n : all[i] = O(i)
  BY <1>1, <1>3, <1>4
<1> HIDE DEF all
<1>8. PICK s : Starts(s, all, n)
  BY <1>1, <1>7, StartsAre
<1>9. /\ s \in [1 .. n + 1 -> Nat \ {0}]
      /\ \A i \in 1 .. n : /\ s[i] = Count(SubSeq(all, 1, i - 1)) /\ s[i + 1] = s[i] + Len(all[i])
                           /\ \A k \in 1 .. Len(all[i]) :
                                /\ s[i] + k - 1 \in DOMAIN t.chunks
                                /\ t.chunks[s[i] + k - 1] = all[i][k]
  BY <1>5, <1>8 DEF Starts
<1>10. ASSUME NEW i \in 1 .. n
       PROVE  LET home == Home(peers[i], i)
                  rest == HasRest(ds[i], peers[i])
              IN /\ s[i + 1] = s[i] + (IF home = i THEN 1 ELSE 0) + (IF rest THEN 1 ELSE 0)
                 /\ t.positions[i] = IF rest THEN << s[home], s[i + 1] - 1 >> ELSE << s[home] >>
                 /\ s[home] \in DOMAIN t.chunks /\ t.chunks[s[home]] = FirstPart(ds[i], peers[i])
                 /\ rest => /\ s[i + 1] - 1 \in DOMAIN t.chunks
                            /\ t.chunks[s[i + 1] - 1] = RestPart(ds[i], peers[i])
  <2> DEFINE home == Home(peers[i], i)
             rest == HasRest(ds[i], peers[i])
             a == FirstPart(ds[i], peers[i])
             b == RestPart(ds[i], peers[i])
             x == s[i]
  <2>1. /\ home = i /\ rest => all[i] = << a, b >>
        /\ home = i /\ ~ rest => all[i] = << a >>
        /\ home # i /\ rest => all[i] = << b >>
        /\ home # i /\ ~ rest => all[i] = << >>
    BY <1>7, OwnCases DEF O
  <2>2. /\ x \in Nat \ {0} /\ x = Count(SubSeq(all, 1, i - 1)) /\ s[i + 1] = x + Len(all[i])
        /\ \A k \in 1 .. Len(all[i]) : x + k - 1 \in DOMAIN t.chunks /\ t.chunks[x + k - 1] = all[i][k]
    <3>1. i \in 1 .. n + 1
      BY <1>1
    <3>2. QED
      BY <1>9, <3>1
  <2>3. t.positions[i] = IF home # i THEN Both(i) ELSE own(i)
    BY <1>5, <1>6
  <2>4. own(i) = [k \in DOMAIN all[i] |-> x + k - 1]
    BY <2>2
  <2> HIDE DEF x, a, b, rest
  <2>5. CASE home = i
    <3>1. t.positions[i] = own(i)
      BY <2>3, <2>5
    <3>2. CASE rest
      <4>0. all[i] = << a, b >>
        BY <2>1, <2>5, <3>2, Zenon
      <4>1. all[i] = << a, b >> /\ Len(all[i]) = 2 /\ DOMAIN all[i] = 1 .. 2
        <5>1. Len(<< a, b >>) = 2 /\ DOMAIN << a, b >> = 1 .. 2
          BY Tuples, Zenon
        <5>2. QED
          BY <4>0, <5>1
      <4>2. own(i) = << x, x + 1 >>
        <5>1. own(i) = [k \in 1 .. Len(all[i]) |-> x + k - 1]
          BY <2>4, <4>1, Zenon
        <5>2. x \in Nat
          BY <2>2
        <5>3. QED
          BY <4>1, <5>1, <5>2, Upwards, Zenon
      <4>3. s[i + 1] = x + 2 /\ t.chunks[x] = a /\ t.chunks[x + 1] = b /\ x \in DOMAIN t.chunks
            /\ x + 1 \in DOMAIN t.chunks
        <5>1. 1 \in 1 .. Len(all[i]) /\ 2 \in 1 .. Len(all[i]) /\ all[i][1] = a /\ all[i][2] = b
          BY <4>1
        <5>2. x + 1 - 1 = x /\ x + 2 - 1 = x + 1
          BY <2>2
        <5>3. QED
          BY <2>2, <4>1, <5>1, <5>2
      <4>4. s[i + 1] - 1 = x + 1 /\ s[i + 1] = s[i] + 1 + 1
        BY <2>2, <4>3 DEF x
      <4>5. QED
        BY <2>5, <3>1, <3>2, <4>2, <4>3, <4>4 DEF x, a, b, rest
    <3>3. CASE ~ rest
      <4>0. all[i] = << a >>
        BY <2>1, <2>5, <3>3, Zenon
      <4>1. all[i] = << a >> /\ Len(all[i]) = 1 /\ DOMAIN all[i] = 1 .. 1
        BY <4>0, Tuples, Zenon
      <4>2. own(i) = << x >>
        <5>1. own(i) = [k \in 1 .. Len(all[i]) |-> x + k - 1]
          BY <2>4, <4>1, Zenon
        <5>2. x \in Nat
          BY <2>2
        <5>3. QED
          BY <4>1, <5>1, <5>2, Upwards, Zenon
      <4>3. s[i + 1] = x + 1 /\ t.chunks[x] = a /\ x \in DOMAIN t.chunks
        <5>1. 1 \in 1 .. Len(all[i]) /\ all[i][1] = a
          BY <4>1
        <5>2. x + 1 - 1 = x
          BY <2>2
        <5>3. QED
          BY <2>2, <4>1, <5>1, <5>2
      <4>4. s[i + 1] = s[i] + 1 + 0
        BY <2>2, <4>3 DEF x
      <4>5. QED
        BY <2>5, <3>1, <3>3, <4>2, <4>3, <4>4 DEF x, a, b, rest
    <3>4. QED
      BY <3>2, <3>3
  <2>6. CASE home # i
    <3> DEFINE p == peers[i].peer
               y == s[p]
    <3>1. /\ p = home /\ p \in 1 .. n /\ Home(peers[p], p) = p /\ FirstPart(ds[p], peers[p]) = a
      BY <2>6, FirstShared DEF n, a
    <3>2. y = Count(SubSeq(all, 1, p - 1)) /\ y \in Nat \ {0}
      <4>1. p \in 1 .. n + 1
        BY <1>1, <3>1
      <4>2. QED
        BY <1>9, <3>1, <4>1
    <3>3. t.positions[i] = << y >> \o own(i)
      BY <2>3, <2>6, <3>2
    <3>4. y \in DOMAIN t.chunks /\ t.chunks[y] = a
      <4>1. all[p] = << a, RestPart(ds[p], peers[p]) >> \/ all[p] = << a >>
        BY <1>7, <3>1, OwnCases, SMTT(30) DEF O
      <4>2. 1 \in 1 .. Len(all[p]) /\ all[p][1] = a
        <5> DEFINE q == RestPart(ds[p], peers[p])
                   z == all[p]
        <5>1. << a, q >>[1] = a /\ Len(<< a, q >>) = 2 /\ << a >>[1] = a /\ Len(<< a >>) = 1
          BY Tuples, Zenon
        <5>2. z = << a, q >> \/ z = << a >>
          BY <4>1
        <5> HIDE DEF q, z
        <5>3. z[1] = a /\ (Len(z) = 1 \/ Len(z) = 2)
          BY <5>1, <5>2, Zenon
        <5>4. 1 \in 1 .. Len(z)
          BY <5>3
        <5>5. QED
          BY <5>3, <5>4 DEF z
      <4>3. y + 1 - 1 = y
        BY <3>2
      <4>4. QED
        BY <1>9, <3>1, <4>2, <4>3
    <3> HIDE DEF p, y
    <3>5. CASE rest
      <4>0. all[i] = << b >>
        BY <2>1, <2>6, <3>5, Zenon
      <4>1. all[i] = << b >> /\ Len(all[i]) = 1 /\ DOMAIN all[i] = 1 .. 1
        BY <4>0, Tuples, Zenon
      <4>2. own(i) = << x >>
        <5>1. own(i) = [k \in 1 .. Len(all[i]) |-> x + k - 1]
          BY <2>4, <4>1, Zenon
        <5>2. x \in Nat
          BY <2>2
        <5>3. QED
          BY <4>1, <5>1, <5>2, Upwards, Zenon
      <4>3. s[i + 1] = x + 1 /\ t.chunks[x] = b /\ x \in DOMAIN t.chunks
        <5>1. 1 \in 1 .. Len(all[i]) /\ all[i][1] = b
          BY <4>1
        <5>2. x + 1 - 1 = x
          BY <2>2
        <5>3. QED
          BY <2>2, <4>1, <5>1, <5>2
      <4>4. s[i + 1] - 1 = x /\ s[i + 1] = s[i] + 0 + 1
        <5> DEFINE z == s[i + 1]
        <5>1. z = x + 1 /\ x \in Nat
          BY <2>2, <4>3
        <5> HIDE DEF z
        <5>2. z - 1 = x /\ z = x + 0 + 1
          BY <5>1
        <5>3. QED
          BY <5>2 DEF z, x
      <4>5. t.positions[i] = << y, x >>
        <5>1. << y >> \o << x >> = << y, x >>
          BY Tuples, Zenon
        <5>2. QED
          BY <3>3, <4>2, <5>1, Zenon
      <4>6. QED
        BY <2>6, <3>1, <3>4, <3>5, <4>3, <4>4, <4>5 DEF x, y, a, b, rest
    <3>6. CASE ~ rest
      <4>0. all[i] = << >>
        BY <2>1, <2>6, <3>6, Zenon
      <4>1. all[i] = << >> /\ Len(all[i]) = 0 /\ DOMAIN all[i] = {}
        BY <4>0, Tuples, Zenon
      <4>2. own(i) = << >>
        <5>1. own(i) = [k \in {} |-> x + k - 1]
          BY <2>4, <4>1, Zenon
        <5>2. x \in Nat
          BY <2>2
        <5>3. QED
          BY <5>1, <5>2, Upwards, Zenon
      <4>3. s[i + 1] = s[i] + 0 + 0
        BY <2>2, <4>1 DEF x
      <4>4. t.positions[i] = << y >>
        BY <3>3, <4>2, Tuples, Zenon
      <4>5. QED
        BY <2>6, <3>1, <3>4, <3>6, <4>3, <4>4 DEF x, y, a, b, rest
    <3>7. QED
      BY <3>5, <3>6
  <2>7. QED
    BY <2>5, <2>6
<1>11. DOMAIN t.positions = 1 .. n
  BY <1>5
<1>12. Laid(t, ds, peers, s)
  BY <1>9, <1>10, <1>11, Zenon DEF Laid, n
<1>13. QED
  BY <1>12 DEF t

(* What a reader makes of the parts of dictionary d it finds.              *)
PartRead(d, rows) ==
  IF rows = << >> THEN NullDict ELSE DecodeUnit(DictUnit(DictArray(d).type, rows), d.datatype)
PartAt(t, id, d) ==
  LET u == t.chunks[id].units[1]
  IN IF u.rows = << >> THEN NullDict ELSE DecodeUnit(u, d.datatype)
Parts(t, i, d) == [k \in DOMAIN t.positions[i] |-> PartAt(t, t.positions[i][k], d)]
Joined(parts) ==
  IF Len(parts) \notin {1, 2} \/ \E k \in DOMAIN parts : ~ parts[k].ok THEN Failed
  ELSE IF Len(parts) = 1 THEN parts[1]
  ELSE IF parts[1].type # parts[2].type THEN Failed
  ELSE [parts[1] EXCEPT !.rows = @ \o parts[2].rows]

LEMMA ReadIsJoined == \A i : ReadDict(i) = Joined(Parts(tail, i, dicts[i]))
  BY Zenon DEF ReadDict, Joined, Parts, PartAt

LEMMA PartAtIs ==
  ASSUME NEW t, NEW id, NEW d, NEW rows, t.chunks[id] = DictPart(d, rows)
  PROVE  PartAt(t, id, d) = PartRead(d, rows)
<1> DEFINE u == DictUnit(DictArray(d).type, rows)
<1>1. u.rows = rows
  BY DEF DictUnit
<1> HIDE DEF u
<1>2. DictPart(d, rows).units = << u >>
  BY DEF DictPart, u
<1>3. << u >>[1] = u
  BY Tuples, Zenon
<1>4. t.chunks[id].units[1] = u
  BY <1>2, <1>3
<1>5. QED
  BY <1>1, <1>4, Zenon DEF PartAt, PartRead, u

LEMMA JoinOne ==
  ASSUME NEW r, r.ok \in BOOLEAN, ~ r.ok => r = Failed
  PROVE  Joined(<< r >>) = r
<1> DEFINE p == << r >>
<1>1. Len(p) = 1 /\ p[1] = r /\ DOMAIN p = {1}
  OBVIOUS
<1> HIDE DEF p
<1>2. Joined(p) = r
  BY <1>1 DEF Joined
<1>3. QED
  BY <1>2 DEF p

LEMMA JoinFailed == Joined(<< Failed, Failed >>) = Failed
<1> DEFINE p == << Failed, Failed >>
<1>1. Len(p) = 2 /\ p[1] = Failed
  BY Tuples, Zenon
<1>2. DOMAIN p = {1, 2}
  OBVIOUS
<1>3. Failed.ok = FALSE
  BY DEF Failed
<1> HIDE DEF p
<1>4. ~ p[1].ok /\ 1 \in DOMAIN p
  BY <1>1, <1>2, <1>3
<1>5. Joined(p) = Failed
  BY <1>4, Zenon DEF Joined
<1>6. QED
  BY <1>5 DEF p

LEMMA JoinTwo ==
  ASSUME NEW type, NEW a, NEW b
  PROVE  Joined(<< [ok |-> TRUE, type |-> type, rows |-> a], [ok |-> TRUE, type |-> type, rows |-> b] >>)
         = [ok |-> TRUE, type |-> type, rows |-> a \o b]
<1> DEFINE r == [ok |-> TRUE, type |-> type, rows |-> a]
           q == [ok |-> TRUE, type |-> type, rows |-> b]
           p == << r, q >>
           y == a \o b
           yes == TRUE
<1>1. r.ok = TRUE /\ r.type = type /\ r.rows = a /\ q.ok = TRUE /\ q.type = type /\ q.rows = b
  OBVIOUS
<1> HIDE DEF q
<1>2. [r EXCEPT !.rows = r.rows \o q.rows] = [ok |-> TRUE, type |-> type, rows |-> a \o b]
  <2>1. r.rows \o q.rows = y
    BY <1>1
  <2> HIDE DEF y
  <2>2. [[ok |-> yes, type |-> type, rows |-> a] EXCEPT !.rows = y] = [ok |-> yes, type |-> type, rows |-> y]
    <3> HIDE DEF yes
    <3>1. QED
      OBVIOUS
  <2>3. QED
    BY <2>1, <2>2, Zenon DEF y
<1> HIDE DEF r
<1>3. Len(p) = 2 /\ p[1] = r /\ p[2] = q
  BY Tuples, Zenon
<1>4. DOMAIN p = {1, 2}
  OBVIOUS
<1> HIDE DEF p
<1>5. ~ (Len(p) \notin {1, 2} \/ \E k \in DOMAIN p : ~ p[k].ok)
  BY <1>1, <1>3, <1>4
<1>6. Len(p) # 1 /\ p[1].type = p[2].type
  BY <1>1, <1>3
<1>7. Joined(p) = [p[1] EXCEPT !.rows = @ \o p[2].rows]
  BY <1>5, <1>6, Zenon DEF Joined
<1>8. Joined(p) = [r EXCEPT !.rows = r.rows \o q.rows]
  BY <1>3, <1>7, Zenon
<1>9. QED
  BY <1>2, <1>8, Zenon DEF p, r, q

LEMMA PartReadIs ==
  ASSUME cfg \in Configs, NEW d, NEW rows, rows # << >>
  PROVE  LET r == PartRead(d, rows)
         IN /\ cfg.packed = TRUE => r = Failed
            /\ cfg.packed = FALSE =>
                 r = [ok |-> TRUE, type |-> IF cfg.wasm THEN d.datatype ELSE ViewOf(DictArray(d).type),
                      rows |-> rows]
<1> DEFINE u == DictUnit(DictArray(d).type, rows)
           r == PartRead(d, rows)
<1>1. u.type = DictArray(d).type /\ u.rows = rows /\ u.marked = cfg.packed /\ u.packed = FALSE
  BY Zenon DEF DictUnit
<1>2. r = DecodeUnit(u, d.datatype)
  BY Zenon DEF PartRead
<1>3. DecodeUnit(u, d.datatype) = IF u.marked # u.packed THEN Failed
        ELSE [ok |-> TRUE, type |-> IF cfg.wasm THEN d.datatype ELSE ViewOf(u.type), rows |-> u.rows]
  BY Zenon DEF DecodeUnit
<1> HIDE DEF u, r
<1>4. cfg.packed = TRUE => r = Failed
  BY <1>1, <1>2, <1>3
<1>5. cfg.packed = FALSE =>
        r = [ok |-> TRUE, type |-> IF cfg.wasm THEN d.datatype ELSE ViewOf(DictArray(d).type),
             rows |-> rows]
  BY <1>1, <1>2, <1>3
<1>6. QED
  BY <1>4, <1>5 DEF r

LEMMA LaidReads ==
  ASSUME cfg \in Configs, dicts \in Seq(Dicts), Peered(dicts, merged), NEW s,
         Laid(tail, dicts, merged, s), NEW i \in 1 .. Len(dicts)
  PROVE  ReadDict(i) = DictRead(dicts[i])
<1> DEFINE d == dicts[i]
           m == merged[i]
           x == d.dictionary
           n == Len(x)
           l == Cut(d, m)
           a == SubSeq(x, 1, l)
           b == SubSeq(x, l + 1, n)
           p == s[Home(m, i)]
           q == s[i + 1] - 1
           rest == HasRest(d, m)
           pos == tail.positions[i]
<1>1. d \in Dicts /\ x \in Seq(cfg.values) /\ n \in Nat
  BY DictIs
<1>2. /\ pos = IF rest THEN << p, q >> ELSE << p >>
      /\ tail.chunks[p] = FirstPart(d, m)
      /\ rest => tail.chunks[q] = RestPart(d, m)
  BY Zenon DEF Laid
<1>3. /\ tail.chunks[p] = DictPart(d, a) /\ (rest => tail.chunks[q] = DictPart(d, b))
  BY <1>2, Zenon DEF FirstPart, RestPart
<1>4. rest <=> n # l
  BY DEF HasRest
<1>5. m.peer # None => m.len \in Nat \ {0} /\ m.len <= n
  BY DEF Peered, Shares
<1>6. l \in Nat /\ l <= n /\ (rest => l # 0)
  <2> HIDE DEF m, d
  <2>1. l = IF m.peer = None THEN n ELSE m.len
    BY DEF Cut
  <2> HIDE DEF l, n, rest
  <2>2. QED
    BY <1>1, <1>4, <1>5, <2>1
<1>7. ReadDict(i) = Joined(Parts(tail, i, d))
  BY ReadIsJoined, Zenon
<1>8. Parts(tail, i, d) = [k \in DOMAIN pos |-> PartAt(tail, pos[k], d)]
  BY Zenon DEF Parts
<1>9. PartAt(tail, p, d) = PartRead(d, a) /\ (rest => PartAt(tail, q, d) = PartRead(d, b))
  <2>0. tail.chunks[p] = DictPart(d, a)
    BY <1>3
  <2>1. PartAt(tail, p, d) = PartRead(d, a)
    <3> HIDE DEF p, d, a
    <3>1. QED
      BY <2>0, PartAtIs
  <2>2. ASSUME rest PROVE PartAt(tail, q, d) = PartRead(d, b)
    <3>1. tail.chunks[q] = DictPart(d, b)
      BY <1>3, <2>2
    <3> HIDE DEF q, d, b
    <3>2. QED
      BY <3>1, PartAtIs
  <2>3. QED
    BY <2>1, <2>2
<1>10. DictRead(d) = PartRead(d, x)
  BY Zenon DEF DictRead, PartRead
<1> HIDE DEF d, m, p, q, rest, pos, l, n, x, a, b
<1>11. CASE ~ rest
  <2>1. pos = << p >> /\ n = l
    BY <1>2, <1>4, <1>11
  <2>2. a = x
    BY <1>1, <2>1 DEF a, n
  <2>3. DOMAIN pos = 1 .. 1 /\ pos[1] = p
    BY <2>1, Tuples, Zenon
  <2>4. Parts(tail, i, d) = << PartRead(d, a) >>
    BY <1>8, <1>9, <2>3
  <2> DEFINE r == DictRead(d)
  <2>5. r.ok \in BOOLEAN /\ (~ r.ok => r = Failed)
    BY <1>1, DictReadIs
  <2>6. Parts(tail, i, d) = << r >>
    BY <1>10, <2>2, <2>4
  <2> HIDE DEF r
  <2>7. Joined(<< r >>) = r
    BY <2>5, JoinOne
  <2>8. QED
    BY <1>7, <2>6, <2>7 DEF r, d
<1>12. CASE rest
  <2> DEFINE r == PartRead(d, a)
             e == PartRead(d, b)
             z == PartRead(d, x)
             type == IF cfg.wasm THEN d.datatype ELSE ViewOf(DictArray(d).type)
  <2>1. pos = << p, q >> /\ n # l
    BY <1>2, <1>4, <1>12
  <2>2. DOMAIN pos = 1 .. 2 /\ pos[1] = p /\ pos[2] = q
    BY <2>1, Tuples, Zenon
  <2>3. Parts(tail, i, d) = << r, e >>
    <3>1. \A k \in 1 .. 2 : PartAt(tail, pos[k], d) = << r, e >>[k]
      <4>1. << r, e >>[1] = r /\ << r, e >>[2] = e
        BY Tuples, Zenon
      <4>2. 1 .. 2 = {1, 2}
        OBVIOUS
      <4> HIDE DEF r, e
      <4>3. PartAt(tail, pos[1], d) = r /\ PartAt(tail, pos[2], d) = e
        BY <1>9, <1>12, <2>2, Zenon DEF r, e
      <4>4. QED
        BY <4>1, <4>2, <4>3
    <3> HIDE DEF r, e
    <3>2. << r, e >> = [k \in 1 .. 2 |-> << r, e >>[k]]
      OBVIOUS
    <3>3. QED
      BY <1>8, <2>2, <3>1, <3>2
  <2>4. a \o b = x
    BY <1>1, <1>6, JoinSlices DEF a, b, n
  <2>5. a # << >> /\ b # << >> /\ x # << >>
    <3>1. 0 \in Nat /\ l = l - 0 /\ n - l \in Nat /\ n - l # 0 /\ l # 0 /\ n # 0 /\ l <= Len(x) /\ n <= Len(x)
      BY <1>1, <1>6, <1>12, <2>1 DEF n
    <3> DEFINE g == n - l
    <3>2. IsSlice(SubSeq(x, 0 + 1, l), cfg.values, x, 0, l)
      BY <1>1, <1>6, <3>1, Slice, Zenon
    <3>3. Len(a) = l
      <4>1. 0 + 1 = 1
        OBVIOUS
      <4>2. QED
        BY <3>2, <4>1, Zenon DEF a, IsSlice
    <3>4. g \in Nat /\ g = n - l
      BY <3>1
    <3> HIDE DEF g
    <3>5. IsSlice(SubSeq(x, l + 1, n), cfg.values, x, l, g)
      BY <1>1, <1>6, <3>1, <3>4, Slice, Zenon
    <3>6. Len(b) = g /\ g # 0
      BY <3>1, <3>4, <3>5 DEF b, IsSlice
    <3>7. QED
      BY <3>1, <3>3, <3>6 DEF n
  <2>6. cfg.packed \in BOOLEAN
    BY CfgIs DEF Flags
  <2>7. CASE cfg.packed = TRUE
    <3>1. r = Failed /\ e = Failed /\ z = Failed
      BY <2>5, <2>7, PartReadIs
    <3> HIDE DEF r, e, z
    <3>4. QED
      BY <1>7, <1>10, <2>3, <3>1, JoinFailed, Zenon DEF z, d
  <2>8. CASE cfg.packed = FALSE
    <3> HIDE DEF type
    <3>1. r = [ok |-> TRUE, type |-> type, rows |-> a]
      BY <2>5, <2>8, PartReadIs DEF type
    <3>2. e = [ok |-> TRUE, type |-> type, rows |-> b]
      BY <2>5, <2>8, PartReadIs DEF type
    <3>3. z = [ok |-> TRUE, type |-> type, rows |-> x]
      BY <2>5, <2>8, PartReadIs DEF type
    <3> HIDE DEF r, e, z
    <3>4. Joined(<< r, e >>) = [ok |-> TRUE, type |-> type, rows |-> a \o b]
      BY <3>1, <3>2, JoinTwo, Zenon
    <3>5. QED
      BY <1>7, <1>10, <2>3, <2>4, <3>3, <3>4, Zenon DEF z, d
  <2>9. QED
    BY <2>6, <2>7, <2>8
<1>13. QED
  BY <1>11, <1>12

LEMMA LaidLoads ==
  ASSUME cfg \in Configs, dicts \in Seq(Dicts), Peered(dicts, merged), NEW s, Laid(tail, dicts, merged, s)
  PROVE  Loads
<1>1. DOMAIN tail.positions = 1 .. Len(dicts)
  BY DEF Laid
<1>2. QED
  BY <1>1, LaidReads DEF Loads

-----------------------------------------------------------------------------
(***************************************************************************)
(* Which columns share chunks of the dictionary table.                     *)
(***************************************************************************)
(* x is a chunk that dictionary i wrote.                                   *)
Within(s, i, x) == s[i] <= x /\ x < s[i + 1]

LEMMA WithinOne ==
  ASSUME NEW n \in Nat, NEW s \in [1 .. n + 1 -> Nat], \A i \in 1 .. n : s[i] <= s[i + 1],
         NEW i \in 1 .. n, NEW j \in 1 .. n, NEW x \in Nat, Within(s, i, x), Within(s, j, x)
  PROVE  i = j
<1>1. \A a, b \in 1 .. n + 1 : a <= b => s[a] <= s[b]
  BY Ascending
<1>2. ASSUME NEW a \in 1 .. n, NEW b \in 1 .. n, Within(s, a, x), Within(s, b, x) PROVE ~ (a < b)
  <2>1. a + 1 \in 1 .. n + 1 /\ b \in 1 .. n + 1 /\ (a < b => a + 1 <= b)
    OBVIOUS
  <2>2. s[a + 1] \in Nat /\ s[b] \in Nat /\ (a < b => s[a + 1] <= s[b])
    BY <1>1, <2>1
  <2>3. QED
    BY <1>2, <2>2, SMTT(30) DEF Within
<1>3. ~ (i < j) /\ ~ (j < i)
  BY <1>2
<1>4. QED
  BY <1>3

LEMMA HomeIs ==
  ASSUME NEW ds \in Seq(Dicts), NEW peers, Peered(ds, peers), NEW i \in 1 .. Len(ds)
  PROVE  LET h == Home(peers[i], i)
         IN /\ h \in 1 .. Len(ds) /\ Home(peers[h], h) = h
            /\ h # i => peers[i].peer = h /\ peers[h].peer = i
<1>1. CASE Home(peers[i], i) = i
  BY <1>1
<1>2. CASE Home(peers[i], i) # i
  BY <1>2, FirstShared
<1>3. QED
  BY <1>1, <1>2

(* The chunks a reader takes for dictionary i.                             *)
Places(t, s, d, m, i) ==
  LET h == Home(m, i)
      rest == HasRest(d, m)
  IN /\ ToSet(t.positions[i]) = IF rest THEN {s[h], s[i + 1] - 1} ELSE {s[h]}
     /\ s[h] \in Nat /\ Within(s, h, s[h]) /\ s[h] \in DOMAIN t.chunks
     /\ t.chunks[s[h]] = FirstPart(d, m)
     /\ rest => /\ s[i + 1] - 1 \in Nat /\ Within(s, i, s[i + 1] - 1)
                /\ (h = i => s[i + 1] - 1 # s[i])
                /\ t.chunks[s[i + 1] - 1] = RestPart(d, m)

LEMMA LaidStarts ==
  ASSUME NEW ds \in Seq(Dicts), NEW peers, NEW t, NEW s, Laid(t, ds, peers, s)
  PROVE  /\ s \in [1 .. Len(ds) + 1 -> Nat] /\ Len(ds) \in Nat
         /\ \A i \in 1 .. Len(ds) : s[i] <= s[i + 1]
<1> DEFINE n == Len(ds)
<1>1. n \in Nat /\ s \in [1 .. n + 1 -> Nat \ {0}]
  BY DEF Laid
<1>2. s \in [1 .. n + 1 -> Nat]
  BY <1>1
<1>3. ASSUME NEW i \in 1 .. n PROVE s[i] <= s[i + 1]
  <2> DEFINE a == IF Home(peers[i], i) = i THEN 1 ELSE 0
             b == IF HasRest(ds[i], peers[i]) THEN 1 ELSE 0
  <2>1. s[i + 1] = s[i] + a + b
    BY DEF Laid
  <2>2. a \in Nat /\ b \in Nat
    OBVIOUS
  <2> HIDE DEF n, a, b
  <2>3. i \in 1 .. n + 1 /\ s[i] \in Nat
    BY <1>1
  <2>4. QED
    BY <2>1, <2>2, <2>3
<1>4. QED
  BY <1>1, <1>2, <1>3

LEMMA LaidPlaces ==
  ASSUME NEW ds \in Seq(Dicts), NEW peers, Peered(ds, peers), NEW t, NEW s, Laid(t, ds, peers, s),
         NEW i \in 1 .. Len(ds)
  PROVE  Places(t, s, ds[i], peers[i], i)
<1> DEFINE n == Len(ds)
           h == Home(peers[i], i)
           rest == HasRest(ds[i], peers[i])
           x == s[h]
           y == s[i + 1] - 1
           b == IF rest THEN 1 ELSE 0
<1>1. n \in Nat /\ s \in [1 .. n + 1 -> Nat] /\ \A k \in 1 .. n : s[k] <= s[k + 1]
  BY LaidStarts
<1>2. /\ s[i + 1] = s[i] + (IF h = i THEN 1 ELSE 0) + b
      /\ t.positions[i] = IF rest THEN << x, y >> ELSE << x >>
      /\ x \in DOMAIN t.chunks /\ t.chunks[x] = FirstPart(ds[i], peers[i])
      /\ rest => t.chunks[y] = RestPart(ds[i], peers[i])
  BY Zenon DEF Laid
<1>3. h \in 1 .. n /\ Home(peers[h], h) = h
  BY HomeIs
<1>4. \E z \in {0, 1} : s[h + 1] = s[h] + 1 + z
  <2> DEFINE z == IF HasRest(ds[h], peers[h]) THEN 1 ELSE 0
  <2>1. s[h + 1] = s[h] + (IF Home(peers[h], h) = h THEN 1 ELSE 0) + z
    <3> HIDE DEF h
    <3>1. QED
      BY <1>3 DEF Laid
  <2>2. z \in {0, 1}
    OBVIOUS
  <2> HIDE DEF z, h
  <2>3. s[h + 1] = s[h] + 1 + z
    BY <1>3, <2>1
  <2>4. QED
    BY <2>2, <2>3
<1> HIDE DEF h, rest, n
<1>5. s[i] \in Nat /\ s[i + 1] \in Nat /\ s[h] \in Nat /\ s[h + 1] \in Nat
  <2>1. i \in 1 .. n + 1 /\ i + 1 \in 1 .. n + 1 /\ h \in 1 .. n + 1 /\ h + 1 \in 1 .. n + 1
    BY <1>1, <1>3 DEF n
  <2>2. QED
    BY <1>1, <2>1
<1>6. x \in Nat /\ Within(s, h, x)
  BY <1>4, <1>5 DEF Within
<1>7. ASSUME rest PROVE y \in Nat /\ Within(s, i, y) /\ (h = i => y # s[i])
  <2> DEFINE p == s[i]
             q == s[i + 1]
  <2>1. p \in Nat /\ q \in Nat /\ q = p + (IF h = i THEN 1 ELSE 0) + 1
    BY <1>2, <1>5, <1>7
  <2> HIDE DEF p, q
  <2>2. q - 1 \in Nat /\ p <= q - 1 /\ q - 1 < q /\ (h = i => q - 1 # p)
    BY <2>1
  <2>3. QED
    BY <2>2 DEF p, q, Within
<1>8. ToSet(t.positions[i]) = IF rest THEN {x, y} ELSE {x}
  <2> HIDE DEF x, y
  <2>1. ToSet(<< x, y >>) = {x, y} /\ ToSet(<< x >>) = {x}
    BY DEF ToSet
  <2>2. CASE rest
    BY <1>2, <2>1, <2>2, Zenon
  <2>3. CASE ~ rest
    BY <1>2, <2>1, <2>3, Zenon
  <2>4. QED
    BY <2>2, <2>3
<1>9. QED
  BY <1>2, <1>6, <1>7, <1>8, Zenon DEF Places, h, rest

(* A chunk two dictionaries have is one they share.                        *)
LEMMA SharedPlace ==
  ASSUME NEW ds \in Seq(Dicts), NEW peers, Peered(ds, peers), NEW t, NEW s, Laid(t, ds, peers, s),
         NEW c \in 1 .. Len(ds), NEW p \in 1 .. Len(ds), c # p,
         NEW x \in ToSet(t.positions[c]), x \in ToSet(t.positions[p])
  PROVE  peers[c].peer = p
<1> DEFINE n == Len(ds)
           hc == Home(peers[c], c)
           hp == Home(peers[p], p)
<1>1. n \in Nat /\ s \in [1 .. n + 1 -> Nat] /\ \A k \in 1 .. n : s[k] <= s[k + 1]
  BY LaidStarts
<1>2. \A i, j \in 1 .. n : \A z \in Nat : Within(s, i, z) /\ Within(s, j, z) => i = j
  BY <1>1, WithinOne
<1>3. /\ hc \in 1 .. n /\ Home(peers[hc], hc) = hc
      /\ hc # c => peers[c].peer = hc /\ peers[hc].peer = c
  BY HomeIs
<1>4. /\ hp \in 1 .. n /\ Home(peers[hp], hp) = hp
      /\ hp # p => peers[p].peer = hp /\ peers[hp].peer = p
  BY HomeIs
<1>5. /\ s[hc] \in Nat /\ Within(s, hc, s[hc])
      /\ \/ x = s[hc]
         \/ x = s[c + 1] - 1 /\ x \in Nat /\ Within(s, c, x) /\ (hc = c => x # s[c])
  <2> DEFINE rest == HasRest(ds[c], peers[c])
             y == s[c + 1] - 1
             T == ToSet(t.positions[c])
  <2>1. Places(t, s, ds[c], peers[c], c)
    BY LaidPlaces
  <2>2. /\ T = IF rest THEN {s[hc], y} ELSE {s[hc]}
        /\ s[hc] \in Nat /\ Within(s, hc, s[hc])
        /\ rest => y \in Nat /\ Within(s, c, y) /\ (hc = c => y # s[c])
    BY <2>1, Zenon DEF Places
  <2>3. x \in T
    OBVIOUS
  <2> HIDE DEF hc, rest, y, T
  <2>4. x = s[hc] \/ (rest /\ x = y)
    BY <2>2, <2>3
  <2>5. QED
    BY <2>2, <2>4, Zenon DEF y
<1>6. /\ s[hp] \in Nat /\ Within(s, hp, s[hp])
      /\ \/ x = s[hp]
         \/ x = s[p + 1] - 1 /\ x \in Nat /\ Within(s, p, x) /\ (hp = p => x # s[p])
  <2> DEFINE rest == HasRest(ds[p], peers[p])
             y == s[p + 1] - 1
             T == ToSet(t.positions[p])
  <2>1. Places(t, s, ds[p], peers[p], p)
    BY LaidPlaces
  <2>2. /\ T = IF rest THEN {s[hp], y} ELSE {s[hp]}
        /\ s[hp] \in Nat /\ Within(s, hp, s[hp])
        /\ rest => y \in Nat /\ Within(s, p, y) /\ (hp = p => y # s[p])
    BY <2>1, Zenon DEF Places
  <2>3. x \in T
    OBVIOUS
  <2> HIDE DEF hp, rest, y, T
  <2>4. x = s[hp] \/ (rest /\ x = y)
    BY <2>2, <2>3
  <2>5. QED
    BY <2>2, <2>4, Zenon DEF y
<1> HIDE DEF n, hc, hp
<1>7. c \in 1 .. n /\ p \in 1 .. n /\ c # p
  BY DEF n
<1>8. x = s[hc] /\ x = s[hp]
  <2>1. CASE x # s[hc] /\ x # s[hp]
    <3>1. c = p
      BY <1>2, <1>5, <1>6, <1>7, <2>1
    <3>2. QED
      BY <1>7, <3>1
  <2>2. CASE x = s[hc] /\ x # s[hp]
    <3>1. hc = p
      BY <1>2, <1>3, <1>5, <1>6, <1>7, <2>2
    <3>2. hp = p
      BY <1>3, <3>1 DEF hp
    <3>3. QED
      BY <2>2, <3>1, <3>2
  <2>3. CASE x # s[hc] /\ x = s[hp]
    <3>1. hp = c
      BY <1>2, <1>4, <1>5, <1>6, <1>7, <2>3
    <3>2. hc = c
      BY <1>4, <3>1 DEF hc
    <3>3. QED
      BY <2>3, <3>1, <3>2
  <2>4. QED
    BY <2>1, <2>2, <2>3
<1>9. hc = hp
  BY <1>2, <1>3, <1>4, <1>5, <1>6, <1>8
<1>10. CASE hc = c
  <2>1. peers[c].peer = p
    BY <1>4, <1>7, <1>9, <1>10
  <2>2. QED
    BY <2>1
<1>11. CASE hc # c
  <2>1. peers[c].peer = hc /\ peers[hc].peer = c
    BY <1>3, <1>11
  <2>2. hp = p
    BY <1>4, <1>7, <1>9, <2>1
  <2>3. QED
    BY <1>9, <2>1, <2>2
<1>12. QED
  BY <1>10, <1>11

LEMMA PeersShare ==
  ASSUME NEW ds \in Seq(Dicts), NEW peers, Peered(ds, peers), NEW t, NEW s, Laid(t, ds, peers, s),
         NEW c \in 1 .. Len(ds), NEW p \in 1 .. Len(ds), peers[c].peer = p
  PROVE  ToSet(t.positions[p]) \cap ToSet(t.positions[c]) # {}
<1>1. /\ p # c /\ peers[p].peer = c /\ p # None /\ c # None /\ c \in Nat /\ p \in Nat
  BY DEF Peered, None
<1>2. Home(peers[c], c) = Home(peers[p], p)
  BY <1>1 DEF Home
<1>3. s[Home(peers[c], c)] \in ToSet(t.positions[c]) /\ s[Home(peers[p], p)] \in ToSet(t.positions[p])
  <2> DEFINE a == s[Home(peers[c], c)]
             b == s[Home(peers[p], p)]
  <2>1. Places(t, s, ds[c], peers[c], c) /\ Places(t, s, ds[p], peers[p], p)
    BY LaidPlaces
  <2>2. /\ ToSet(t.positions[c]) = IF HasRest(ds[c], peers[c]) THEN {a, s[c + 1] - 1} ELSE {a}
        /\ ToSet(t.positions[p]) = IF HasRest(ds[p], peers[p]) THEN {b, s[p + 1] - 1} ELSE {b}
    BY <2>1, Zenon DEF Places
  <2> HIDE DEF a, b
  <2>3. a \in ToSet(t.positions[c]) /\ b \in ToSet(t.positions[p])
    BY <2>2
  <2>4. QED
    BY <2>3 DEF a, b
<1>4. QED
  BY <1>2, <1>3

(* A value of the rest of a dictionary is none of its peer's.              *)
LEMMA RestApart ==
  ASSUME NEW d \in Dicts, NEW e \in Dicts, NEW m, Shares(d, e, m.len), m.peer # None,
         NEW v \in ToSet(RestPart(d, m).units[1].rows), v \in ToSet(d.dictionary)
  PROVE  v \notin ToSet(e.dictionary)
<1> DEFINE x == d.dictionary
           l == m.len
           n == Len(x)
           g == n - l
           z == SubSeq(x, l + 1, n)
<1>1. x \in Seq(cfg.values) /\ IsInjective(x) /\ n \in Nat
  BY DictIs
<1>2. l \in Nat /\ l <= n /\ g \in Nat /\ g = n - l /\ n <= Len(x)
      /\ \A y \in ToSet(x) : y \in ToSet(e.dictionary) => \E k \in 1 .. l : x[k] = y
  BY <1>1 DEF Shares
<1>3. RestPart(d, m).units[1].rows = z
  <2> DEFINE u == DictUnit(DictArray(d).type, z)
  <2>1. RestPart(d, m) = DictPart(d, z)
    BY Zenon DEF RestPart, Cut
  <2>2. u.rows = z
    BY DEF DictUnit
  <2> HIDE DEF z
  <2>3. DictPart(d, z).units = << u >>
    BY DEF DictPart
  <2> HIDE DEF u
  <2>4. << u >>[1] = u
    BY Tuples, Zenon
  <2>5. QED
    BY <2>1, <2>2, <2>3, <2>4
<1> HIDE DEF x, l, n, g
<1>4. IsSlice(SubSeq(x, l + 1, n), cfg.values, x, l, g)
  BY <1>1, <1>2, Slice, Zenon
<1>5. z \in Seq(cfg.values) /\ Len(z) = g /\ \A k \in 1 .. g : z[k] = x[l + k]
  BY <1>4, Zenon DEF IsSlice
<1> HIDE DEF z
<1>6. PICK k \in 1 .. g : z[k] = v
  BY <1>3, <1>5 DEF ToSet
<1>7. l + k \in 1 .. n /\ x[l + k] = v /\ l + k > l
  BY <1>1, <1>2, <1>5, <1>6
<1>8. SUFFICES ASSUME v \in ToSet(e.dictionary) PROVE FALSE
  OBVIOUS
<1>9. PICK j \in 1 .. l : x[j] = v
  BY <1>2, <1>8 DEF x
<1>10. j \in 1 .. n /\ j # l + k
  BY <1>1, <1>2, <1>7, <1>9
<1>11. DOMAIN x = 1 .. n
  BY <1>1 DEF n
<1>12. QED
  BY <1>1, <1>7, <1>9, <1>10, <1>11 DEF IsInjective

LEMMA FirstInBoth ==
  ASSUME NEW d \in Dicts, NEW e \in Dicts, NEW m, Shares(d, e, m.len), m.peer # None
  PROVE  ToSet(FirstPart(d, m).units[1].rows) \cap ToSet(d.dictionary) \cap ToSet(e.dictionary) # {}
<1> DEFINE x == d.dictionary
           y == e.dictionary
           l == m.len
           z == SubSeq(x, 1, l)
<1>1. x \in Seq(cfg.values) /\ y \in Seq(cfg.values)
  BY DictIs
<1>2. l \in Nat /\ l # 0 /\ l <= Len(x) /\ l <= Len(y) /\ \A k \in 1 .. l : x[k] = y[k]
  BY DEF Shares
<1>3. FirstPart(d, m).units[1].rows = z
  <2> DEFINE u == DictUnit(DictArray(d).type, z)
  <2>1. FirstPart(d, m) = DictPart(d, z)
    BY Zenon DEF FirstPart, Cut
  <2>2. u.rows = z
    BY DEF DictUnit
  <2> HIDE DEF z
  <2>3. DictPart(d, z).units = << u >>
    BY DEF DictPart
  <2> HIDE DEF u
  <2>4. << u >>[1] = u
    BY Tuples, Zenon
  <2>5. QED
    BY <2>1, <2>2, <2>3, <2>4
<1> HIDE DEF x, y, l
<1>4. 0 \in Nat /\ l = l - 0 /\ 0 + 1 = 1 /\ l \in Nat /\ l <= Len(x)
  BY <1>2
<1>5. IsSlice(SubSeq(x, 0 + 1, l), cfg.values, x, 0, l)
  BY <1>1, <1>4, Slice, Zenon
<1>6. IsSlice(z, cfg.values, x, 0, l)
  BY <1>4, <1>5, Zenon
<1> HIDE DEF z
<1>7. 1 \in 1 .. l /\ 1 \in 1 .. Len(x) /\ 1 \in 1 .. Len(y) /\ 1 \in 1 .. Len(z) /\ z \in Seq(cfg.values)
  BY <1>1, <1>2, <1>6 DEF IsSlice
<1>8. z[1] = x[1] /\ y[1] = x[1]
  BY <1>2, <1>6, <1>7 DEF IsSlice
<1>9. x[1] \in ToSet(z) /\ x[1] \in ToSet(x) /\ x[1] \in ToSet(y)
  BY <1>1, <1>7, <1>8 DEF ToSet
<1>10. QED
  BY <1>3, <1>9 DEF x, y

(* The values dictionaries i and j have in common are in one chunk.        *)
StoredOnce(t, ds, i, j) ==
  Cardinality({x \in DOMAIN t.chunks :
    /\ x \in ToSet(t.positions[i]) \cup ToSet(t.positions[j])
    /\ ToSet(t.chunks[x].units[1].rows) \cap ToSet(ds[i].dictionary)
          \cap ToSet(ds[j].dictionary) # {}}) = 1

LEMMA SharedOnce ==
  ASSUME NEW ds \in Seq(Dicts), NEW peers, Peered(ds, peers), NEW t, NEW s, Laid(t, ds, peers, s),
         NEW i \in 1 .. Len(ds), NEW j \in 1 .. Len(ds), i < j, peers[i].peer = j
  PROVE  StoredOnce(t, ds, i, j)
<1> DEFINE d == ds[i]
           e == ds[j]
           m == peers[i]
           q == peers[j]
           A == ToSet(t.positions[i])
           B == ToSet(t.positions[j])
           In(x) == ToSet(t.chunks[x].units[1].rows) \cap ToSet(d.dictionary) \cap ToSet(e.dictionary)
           a == s[i]
           b == s[i + 1] - 1
           c == s[j + 1] - 1
           ri == HasRest(d, m)
           rj == HasRest(e, q)
<1>1. i # None /\ j # None /\ i \in Nat /\ j \in Nat
  BY DEF None
<1>2. /\ m.peer = j /\ q.peer = i /\ q.len = m.len /\ Shares(d, e, m.len)
  BY <1>1 DEF Peered
<1>3. Shares(e, d, q.len)
  BY <1>1, <1>2 DEF Peered
<1>4. Home(m, i) = i /\ Home(q, j) = i
  BY <1>1, <1>2 DEF Home
<1>5. Places(t, s, d, m, i) /\ Places(t, s, e, q, j)
  BY LaidPlaces
<1>6. /\ A = IF ri THEN {a, b} ELSE {a}
      /\ a \in DOMAIN t.chunks /\ t.chunks[a] = FirstPart(d, m)
      /\ ri => t.chunks[b] = RestPart(d, m)
      /\ B = IF rj THEN {a, c} ELSE {a}
      /\ rj => t.chunks[c] = RestPart(e, q)
  BY <1>4, <1>5 DEF Places
<1>7. d \in Dicts /\ e \in Dicts
  OBVIOUS
<1> HIDE DEF d, e, m, q, a, b, c, ri, rj, A, B
<1>8. In(a) # {}
  BY <1>1, <1>2, <1>6, <1>7, FirstInBoth
<1>9. ri => In(b) = {}
  BY <1>1, <1>2, <1>6, <1>7, RestApart
<1>10. rj => In(c) = {}
  BY <1>1, <1>2, <1>3, <1>6, <1>7, RestApart
<1> HIDE DEF In
<1> DEFINE X == {x \in DOMAIN t.chunks : x \in A \cup B /\ In(x) # {}}
<1>11. X = {a}
  BY <1>6, <1>8, <1>9, <1>10
<1>12. Cardinality(X) = 1
  BY <1>11, FS_Singleton
<1>13. QED
  BY <1>12 DEF StoredOnce, In, A, B, d, e

-----------------------------------------------------------------------------
(***************************************************************************)
(* The inductive invariant: every column holds the arrays of the batches   *)
(* written, in chunks and in its encoder; after finish() in its chunks     *)
(* alone.  Merging moves the indices of values, so that chunks of an       *)
(* earlier row group are not read as they were written: a file with merged *)
(* dictionaries holds its rows if they are fewer than a row group has.     *)
(***************************************************************************)
Given(tbl, bs, c, all) ==
  /\ FlattenSeq(all) = tbl[c] /\ Len(all) = Len(bs)
  /\ \A k \in 1 .. Len(bs) : Len(all[k]) = bs[k]

Held(w, tbl, bs) == \A c \in Cols : \E all : Has(w, c, all) /\ Given(tbl, bs, c, all)

Ended(w) == (\A c \in Cols : Idle(w, c)) /\ Stored(tail, w.dicts)

(* All rows are in the encoders when finish() merges the dictionaries.     *)
OneGroup == cfg.mode = "multicol" => cfg.rows < cfg.cut

Merging == cfg.mode = "multicol" /\ phase = "finished"

MergedIn(ds, peers, t) == /\ ds \in Seq(Dicts) /\ Peered(ds, peers)
                          /\ \E s : Laid(t, ds, peers, s)

(* Nothing has left the encoders.                                          *)
Unwritten(ds, ch, rows, tbl) ==
  ds = << >> /\ \A c \in Cols : ch[c] = << >> /\ Len(tbl[c]) = rows

(* Every column has its chunks, which use the dictionary it submitted.     *)
Columns(ds, ch, tbl, bs) ==
  /\ Len(ds) = NumCols
  /\ \A c \in Cols : /\ ch[c] \in Seq(Chunks) /\ AllUse(ch[c], c)
                     /\ \E all : /\ all \in Seq(Arrays) /\ NewHold(ds, c, ch[c], all)
                                 /\ Given(tbl, bs, c, all)

DInv ==
  /\ cfg \in Configs /\ phase \in {"writing", "finished", "panicked"}
  /\ table \in [Cols -> Arrays] /\ batches \in Seq(Nat)
  /\ cfg.mode = "multicol" => coeffs \in [1 .. NumHashes -> HashFns]
  /\ ~ Merging => Writer \in Writers /\ Held(Writer, table, batches)
  /\ phase = "finished" /\ ~ Merging => Ended(Writer)
  /\ phase = "panicked" => cfg.mode = "multicol" /\ SubmitPanics
  /\ Merging => MergedIn(dicts, merged, tail)
  /\ cfg.mode = "multicol" /\ OneGroup =>
       IF phase = "finished" THEN Columns(dicts, chunks, table, batches)
       ELSE Unwritten(dicts, chunks, inGroup, table)

(* What a column holds that has no chunks is in its encoder.               *)
LEMMA NewHoldNothing ==
  ASSUME NEW ds, NEW c, NEW arrays, NewHold(ds, c, << >>, arrays)
  PROVE  arrays = << >>
<1>1. PICK parts \in Seq(Seq(Arrays)) : FlattenSeq(parts) = arrays /\ Paired(<< >>, parts, Holding(ds, c))
  BY DEF NewHold
<1>2. Len(parts) = 0
  BY <1>1 DEF Paired
<1>3. parts = << >>
  BY <1>2
<1>4. QED
  BY <1>1, <1>3, FlattenEmpty

LEMMA BufferedAll ==
  ASSUME cfg.mode = "multicol", NEW w \in Writers, NEW c \in Cols, w.chunks[c] = << >>,
         NEW all, Has(w, c, all)
  PROVE  w.enc[c].buffered = all
<1>1. PICK done \in Seq(Arrays), pend \in Seq(Arrays) :
        all = done \o pend /\ ChunksHold(w, c, done) /\ PendHolds(w, c, pend)
  BY DEF Has, ColHolds
<1>2. done = << >>
  BY <1>1, NewHoldNothing DEF ChunksHold
<1>3. w.enc[c].buffered = pend
  BY <1>1 DEF PendHolds
<1>4. all = pend
  BY <1>1, <1>2
<1>5. QED
  BY <1>3, <1>4

LEMMA EncodeBuffers ==
  ASSUME cfg \in Configs, cfg.mode = "multicol", NEW w \in Writers, NEW batch \in [Cols -> Arrays],
         \A c \in Cols : Len(FlattenSeq(Append(w.enc[c].buffered, batch[c]))) < cfg.scope
  PROVE  /\ EncodeAll(w, batch).dicts = w.dicts /\ EncodeAll(w, batch).chunks = w.chunks
         /\ \A c \in Cols : EncodeAll(w, batch).enc[c].buffered = Append(w.enc[c].buffered, batch[c])
<1>1. PICK h : /\ h[0] = w
               /\ \A c \in Cols : h[c] = Encode(h[c - 1], c, batch[c])
               /\ \A c \in Cols : h[c - 1] \in Writers => OnlyCol(h[c - 1], h[c], c)
               /\ EncodeAll(w, batch) = h[NumCols]
  BY EncodeFold
<1>2. \A x \in Cols : Apart(w, h[x - 1], x) /\ Apart(h[x], h[NumCols], x)
  BY <1>1, ByColumns
<1>3. ASSUME NEW c \in Cols
      PROVE  /\ h[c].dicts = h[c - 1].dicts /\ h[c].chunks = h[c - 1].chunks
             /\ h[c].enc[c].buffered = Append(w.enc[c].buffered, batch[c])
  <2> DEFINE v == h[c - 1]
             a == batch[c]
             b == Buffer(v, c, a)
             e == [v.enc[c] EXCEPT !.buffered = Append(@, a)]
  <2>1. v \in Writers /\ v.enc[c] = w.enc[c] /\ a \in Arrays
    BY <1>2 DEF Apart
  <2>2. h[c] = EncodeShared(v, c, a)
    <3>1. h[c] = Encode(v, c, a)
      BY <1>1
    <3> HIDE DEF v, a
    <3>2. Encode(v, c, a) = EncodeShared(v, c, a)
      BY DEF Encode, ScopeModes
    <3>3. QED
      BY <3>1, <3>2
  <2> HIDE DEF v
  <2>3. v.enc \in [Cols -> EncStates] /\ v = [enc |-> v.enc, dicts |-> v.dicts, chunks |-> v.chunks]
        /\ v.enc[c].buffered \in Seq(Arrays)
    BY <2>1, WriterIs
  <2>4. b = [enc |-> [v.enc EXCEPT ![c] = e], dicts |-> v.dicts, chunks |-> v.chunks]
    <3>1. b = [v EXCEPT !.enc = [v.enc EXCEPT ![c] = e]]
      BY Zenon DEF Buffer
    <3> DEFINE E == [v.enc EXCEPT ![c] = e]
               ds == v.dicts
               ch == v.chunks
               o == v.enc
    <3>2. v = [enc |-> o, dicts |-> ds, chunks |-> ch] /\ b = [v EXCEPT !.enc = E]
      BY <2>3, <3>1
    <3> HIDE DEF E, ds, ch, o, b
    <3>3. b = [enc |-> E, dicts |-> ds, chunks |-> ch]
      BY <3>2
    <3>4. QED
      BY <3>3 DEF E, ds, ch
  <2>5. b.enc[c].buffered = Append(w.enc[c].buffered, a) /\ b.dicts = v.dicts /\ b.chunks = v.chunks
    <3>1. b.enc[c] = e
      <4> HIDE DEF e, b
      <4>1. b.enc = [v.enc EXCEPT ![c] = e]
        BY <2>4
      <4>2. QED
        BY <2>3, <4>1
    <3>2. v.enc[c] \in EncStates
      BY <2>3
    <3>3. e.buffered = Append(v.enc[c].buffered, a)
      BY <3>2 DEF EncStates
    <3>4. b.dicts = v.dicts /\ b.chunks = v.chunks
      BY <2>4
    <3>5. QED
      BY <2>1, <3>1, <3>3, <3>4
  <2> HIDE DEF b
  <2>6. ~ (Len(FlattenSeq(b.enc[c].buffered)) >= cfg.scope)
    <3> DEFINE l == Len(FlattenSeq(b.enc[c].buffered))
               sc == cfg.scope
    <3>1. l \in Nat
      <4>1. Append(w.enc[c].buffered, a) \in Seq(Seq(cfg.values \cup {Null}))
        BY <2>1, <2>3 DEF Arrays
      <4>2. FlattenSeq(b.enc[c].buffered) \in Seq(cfg.values \cup {Null})
        BY <2>5, <4>1, FlattenType
      <4>3. QED
        BY <4>2
    <3>2. sc \in Nat
      BY ConfigsAssumption
    <3>3. l < sc
      BY <2>5
    <3> HIDE DEF l, sc
    <3>4. ~ (l >= sc)
      BY <3>1, <3>2, <3>3
    <3>5. QED
      BY <3>4 DEF l, sc
  <2>7. EncodeShared(v, c, a) = b
    BY <2>6, Zenon DEF EncodeShared, b
  <2>8. QED
    BY <2>2, <2>5, <2>7 DEF v
<1>4. NumCols \in Nat /\ Cols = 1 .. NumCols
  BY ColumnsAssumption DEF Cols
<1> DEFINE S == {k \in Nat : k <= NumCols => h[k].dicts = w.dicts /\ h[k].chunks = w.chunks}
<1>5. 0 \in S
  BY <1>1
<1>6. ASSUME NEW k \in Nat, k \in S PROVE k + 1 \in S
  <2> SUFFICES ASSUME k + 1 <= NumCols PROVE h[k + 1].dicts = w.dicts /\ h[k + 1].chunks = w.chunks
    OBVIOUS
  <2>1. k + 1 \in Cols /\ k + 1 - 1 = k /\ k <= NumCols
    BY <1>4
  <2>2. h[k + 1].dicts = h[k].dicts /\ h[k + 1].chunks = h[k].chunks
    BY <1>3, <2>1
  <2>3. QED
    BY <1>6, <2>1, <2>2
<1> HIDE DEF S
<1>7. \A k \in Nat : k \in S
  BY <1>5, <1>6, AllNaturals
<1>8. h[NumCols].dicts = w.dicts /\ h[NumCols].chunks = w.chunks
  BY <1>4, <1>7 DEF S
<1>9. \A c \in Cols : h[NumCols].enc[c].buffered = Append(w.enc[c].buffered, batch[c])
  BY <1>2, <1>3 DEF Apart
<1>10. QED
  BY <1>1, <1>8, <1>9

LEMMA NewEncoderIs ==
  ASSUME cfg \in Configs
  PROVE  /\ NewEncoder \in EncStates /\ NewEncoder.buffered = << >>
         /\ NewEncoder.acc.units = << >>
         /\ NewEncoder.acc.label = IF cfg.mode = "local" THEN "local" ELSE "none"
<1> DEFINE l == IF cfg.mode = "local" THEN "local" ELSE "none"
<1>1. l \in Labels
  BY DEF Labels
<1>2. NewEncoder = [acc |-> EmptyChunk(l), buffered |-> << >>, submitted |-> None]
  BY DEF NewEncoder
<1> HIDE DEF l
<1>3. EmptyChunk(l) \in Chunks /\ EmptyChunk(l).label = l /\ EmptyChunk(l).units = << >>
  BY <1>1, EmptyChunkIs
<1>4. NewEncoder \in EncStates /\ NewEncoder.buffered = << >> /\ NewEncoder.acc = EmptyChunk(l)
  BY <1>2, <1>3, EmptySeqs DEF EncStates
<1>5. QED
  BY <1>3, <1>4 DEF l

LEMMA DInvInit == Init => DInv
<1> SUFFICES ASSUME Init PROVE DInv
  OBVIOUS
<1> DEFINE e == NewEncoder
<1>1. /\ cfg \in Configs /\ phase = "writing" /\ batches = << >>
      /\ table = [c \in Cols |-> << >>] /\ enc = [c \in Cols |-> e]
      /\ chunks = [c \in Cols |-> << >>] /\ dicts = << >> /\ inGroup = 0
      /\ cfg.mode = "multicol" => coeffs \in [1 .. NumHashes -> HashFns]
  BY DEF Init
<1>2. /\ e \in EncStates /\ e.buffered = << >> /\ e.acc.units = << >>
      /\ e.acc.label = IF cfg.mode = "local" THEN "local" ELSE "none"
  BY <1>1, NewEncoderIs
<1> HIDE DEF e
<1>3. table \in [Cols -> Arrays] /\ batches \in Seq(Nat)
  BY <1>1 DEF Arrays
<1> DEFINE w == Writer
<1>4. w.enc = enc /\ w.dicts = dicts /\ w.chunks = chunks
  BY DEF Writer
<1>5. w \in Writers
  <2>1. enc \in [Cols -> EncStates] /\ dicts \in Seq(Dicts) /\ chunks \in [Cols -> Seq(Chunks)]
    BY <1>1, <1>2, EmptySeqs
  <2>2. QED
    BY <2>1 DEF Writer, Writers
<1> HIDE DEF w
<1>6. ASSUME NEW c \in Cols
      PROVE  Has(w, c, << >>) /\ Given(table, batches, c, << >>)
  <2>1. w.enc[c] = e /\ w.chunks[c] = << >> /\ w.dicts = << >> /\ table[c] = << >>
    BY <1>1, <1>4
  <2>2. << >> \in Seq(Arrays) /\ << >> \o << >> = << >> /\ Len(<< >>) = 0
    BY EmptySeqs
  <2>3. ChunksHold(w, c, << >>)
    BY <2>1, NewHoldNone DEF ChunksHold
  <2>4. cfg.mode # "local" => PendHolds(w, c, << >>)
    BY <1>2, <2>1 DEF PendHolds, ChunkHolds
  <2>5. cfg.mode # "local" => ColHolds(w, c, << >>)
    BY <2>2, <2>3, <2>4 DEF ColHolds
  <2>6. cfg.mode = "local" => LocalHolds(w, c, Len(<< >>))
    BY <1>2, <2>1, <2>2 DEF LocalHolds
  <2>7. Has(w, c, << >>)
    BY <2>2, <2>5, <2>6 DEF Has
  <2>8. Given(table, batches, c, << >>)
    BY <1>1, <2>1, <2>2, FlattenEmpty DEF Given
  <2>9. QED
    BY <2>7, <2>8
<1>7. Held(w, table, batches)
  BY <1>6 DEF Held
<1>8. Unwritten(dicts, chunks, inGroup, table)
  BY <1>1 DEF Unwritten
<1>9. phase # "finished" /\ phase # "panicked"
  BY <1>1
<1>10. QED
  BY <1>1, <1>3, <1>5, <1>7, <1>8, <1>9 DEF DInv, Merging, w

(* A batch as every column gets it.                                        *)
LEMMA BatchIs ==
  ASSUME NEW n \in Nat, NEW batch \in [Cols -> [1 .. n -> cfg.values \cup {Null}]]
  PROVE  batch \in [Cols -> Arrays] /\ \A c \in Cols : batch[c] \in Arrays /\ Len(batch[c]) = n
<1>1. ASSUME NEW c \in Cols PROVE batch[c] \in Arrays /\ Len(batch[c]) = n
  <2>1. batch[c] \in [1 .. n -> cfg.values \cup {Null}]
    OBVIOUS
  <2>2. QED
    BY <2>1 DEF Arrays
<1>2. QED
  BY <1>1

LEMMA GivenMore ==
  ASSUME NEW tbl \in [Cols -> Arrays], NEW bs \in Seq(Nat), NEW n \in Nat, NEW c \in Cols,
         NEW array \in Arrays, Len(array) = n, NEW all \in Seq(Arrays), Given(tbl, bs, c, all),
         NEW t, t[c] = tbl[c] \o array
  PROVE  Given(t, Append(bs, n), c, Append(all, array))
<1>1. /\ Append(all, array) \in Seq(Arrays) /\ Len(Append(all, array)) = Len(all) + 1 /\ Len(all) \in Nat
      /\ Append(all, array)[Len(all) + 1] = array
      /\ \A k \in 1 .. Len(all) : Append(all, array)[k] = all[k]
  BY AppendIs
<1>2. /\ Len(Append(bs, n)) = Len(bs) + 1 /\ Len(bs) \in Nat /\ Append(bs, n)[Len(bs) + 1] = n
      /\ \A k \in 1 .. Len(bs) : Append(bs, n)[k] = bs[k]
  BY AppendIs
<1>3. /\ FlattenSeq(all) = tbl[c] /\ Len(all) = Len(bs)
      /\ \A k \in 1 .. Len(bs) : Len(all[k]) = bs[k]
  BY DEF Given
<1>4. FlattenSeq(Append(all, array)) = FlattenSeq(all) \o array
  BY FlattenAppend DEF Arrays
<1>5. \A k \in 1 .. Len(bs) + 1 : k \in 1 .. Len(bs) \/ k = Len(bs) + 1
  BY <1>2
<1>6. QED
  BY <1>1, <1>2, <1>3, <1>4, <1>5 DEF Given

LEMMA WrittenIs ==
  ASSUME NEW v \in Writers, Written(v)
  PROVE  Writer' = v /\ dicts' = v.dicts
<1>1. enc' = v.enc /\ dicts' = v.dicts /\ chunks' = v.chunks
  BY DEF Written
<1>2. Writer' = [enc |-> enc', dicts |-> dicts', chunks |-> chunks']
  BY DEF Writer
<1>3. QED
  BY <1>1, <1>2 DEF Writers

LEMMA SameLaid ==
  ASSUME cfg' = cfg, NEW t, NEW ds, NEW peers, NEW s
  PROVE  Laid(t, ds, peers, s)' <=> Laid(t, ds, peers, s)
<1>1. \A d, m : FirstPart(d, m)' = FirstPart(d, m) /\ RestPart(d, m)' = RestPart(d, m)
  BY DEF FirstPart, RestPart, DictPart, DictUnit, DictArray
<1>2. QED
  BY <1>1 DEF Laid

LEMMA SameMerged ==
  ASSUME cfg' = cfg, NEW t, NEW ds, NEW peers
  PROVE  MergedIn(ds, peers, t)' <=> MergedIn(ds, peers, t)
<1>1. Peered(ds, peers)' <=> Peered(ds, peers)
  BY DEF Peered, Shares
<1>2. QED
  BY <1>1, SameCfg, SameLaid DEF MergedIn

LEMMA SameColumns ==
  ASSUME cfg' = cfg, NEW ds, NEW ch, NEW tbl, NEW bs
  PROVE  Columns(ds, ch, tbl, bs)' <=> Columns(ds, ch, tbl, bs)
<1>1. \A c, a, b : NewHold(ds, c, a, b)' <=> NewHold(ds, c, a, b)
  BY SameCfg DEF NewHold, Holding
<1>2. \A a, c : AllUse(a, c)' <=> AllUse(a, c)
  BY DEF AllUse
<1>3. \A c, all : Given(tbl, bs, c, all)' <=> Given(tbl, bs, c, all)
  BY DEF Given
<1>4. QED
  BY <1>1, <1>2, <1>3, SameCfg DEF Columns

LEMMA LenConcat ==
  ASSUME NEW a \in Arrays, NEW b \in Arrays
  PROVE  Len(a \o b) = Len(a) + Len(b)
  BY DEF Arrays

LEMMA WriteBatchKeeps ==
  ASSUME DInv, NEW n \in 0 .. cfg.rows - Len(table[1]),
         NEW batch \in [Cols -> [1 .. n -> cfg.values \cup {Null}]], NEW global,
         WriteBatch(n, batch, global)
  PROVE  DInv'
<1> DEFINE a == EncodeAll(Writer, batch)
           full == inGroup + n >= cfg.cut
           v == IF full THEN FlushPending(a, global) ELSE a
<1>1. /\ cfg \in Configs /\ phase = "writing" /\ table \in [Cols -> Arrays] /\ batches \in Seq(Nat)
      /\ cfg' = cfg /\ coeffs' = coeffs /\ phase' = phase /\ batches' = Append(batches, n)
      /\ table' = [c \in Cols |-> table[c] \o batch[c]]
      /\ cfg.mode = "multicol" => coeffs \in [1 .. NumHashes -> HashFns]
  BY DEF DInv, WriteBatch
<1>2. n \in Nat /\ n <= cfg.rows /\ Len(table[1]) \in Nat /\ Len(table[1]) + n <= cfg.rows /\ cfg.rows \in Nat
  <2>1. 1 \in Cols
    BY ColumnsAssumption DEF Cols
  <2>2. Len(table[1]) \in Nat /\ cfg.rows \in Nat
    BY <1>1, <2>1, CfgIs DEF Arrays
  <2>3. QED
    BY <2>2
<1>3. batch \in [Cols -> Arrays] /\ \A c \in Cols : batch[c] \in Arrays /\ Len(batch[c]) = n
  BY <1>2, BatchIs
<1>4. table' \in [Cols -> Arrays] /\ batches' \in Seq(Nat)
  <2>1. \A c \in Cols : table[c] \o batch[c] \in Arrays
    BY <1>1, <1>3 DEF Arrays
  <2>2. QED
    BY <1>1, <1>2, <2>1
<1>5. Written(v) /\ inGroup' = IF full THEN 0 ELSE inGroup + n
  BY Zenon DEF WriteBatch, EncodeAll
<1>6. Writer \in Writers /\ Held(Writer, table, batches)
  BY <1>1 DEF DInv, Merging
<1>7. /\ a \in Writers
      /\ \A x \in Cols : \A all : Has(Writer, x, all) => Has(a, x, Append(all, batch[x]))
  BY <1>1, <1>2, <1>3, <1>6, EncodeAllIs
<1> HIDE DEF a
<1>8. /\ v \in Writers
      /\ \A x \in Cols : \A all : Has(a, x, all) => Has(v, x, all)
  BY <1>1, <1>7, FlushIs
<1> HIDE DEF v
<1>9. Writer' = v
  BY <1>5, <1>8, WrittenIs
<1>10. Writer' \in Writers /\ Held(Writer', table', batches')
  <2>1. ASSUME NEW c \in Cols
        PROVE  \E all : Has(v, c, all) /\ Given(table', batches', c, all)
    <3>1. PICK all : Has(Writer, c, all) /\ Given(table, batches, c, all)
      BY <1>6 DEF Held
    <3>2. all \in Seq(Arrays)
      BY <3>1 DEF Has
    <3>3. Has(v, c, Append(all, batch[c]))
      BY <1>7, <1>8, <3>1
    <3>4. table'[c] = table[c] \o batch[c]
      BY <1>1
    <3>5. Given(table', Append(batches, n), c, Append(all, batch[c]))
      BY <1>1, <1>2, <1>3, <3>1, <3>2, <3>4, GivenMore
    <3>6. QED
      BY <1>1, <3>3, <3>5
  <2>2. QED
    BY <1>8, <1>9, <2>1 DEF Held
<1>11. ASSUME cfg.mode = "multicol", OneGroup
       PROVE  Unwritten(dicts', chunks', inGroup', table')
  <2> DEFINE rows == cfg.rows
  <2>1. /\ dicts = << >> /\ \A c \in Cols : chunks[c] = << >> /\ Len(table[c]) = inGroup
        /\ cfg.rows < cfg.cut /\ cfg.rows < cfg.scope /\ cfg.cut \in Nat /\ cfg.scope \in Nat
    BY <1>1, <1>11, ConfigsAssumption DEF DInv, Unwritten, OneGroup
  <2>2. 1 \in Cols /\ inGroup = Len(table[1]) /\ inGroup \in Nat
    BY <1>2, <2>1, ColumnsAssumption DEF Cols
  <2>3. ~ full
    BY <1>2, <2>1, <2>2
  <2>4. /\ Writer.enc = enc /\ Writer.dicts = dicts /\ Writer.chunks = chunks
    BY DEF Writer
  <2>5. ASSUME NEW c \in Cols
        PROVE  Len(FlattenSeq(Append(Writer.enc[c].buffered, batch[c]))) < cfg.scope
    <3>1. PICK all : Has(Writer, c, all) /\ Given(table, batches, c, all)
      BY <1>6 DEF Held
    <3>2. all \in Seq(Arrays) /\ Writer.enc[c].buffered = all
      BY <1>6, <1>11, <2>1, <2>4, <3>1, BufferedAll DEF Has
    <3>3. FlattenSeq(all) = table[c]
      BY <3>1 DEF Given
    <3>4. FlattenSeq(Append(all, batch[c])) = table[c] \o batch[c]
      BY <1>3, <3>2, <3>3, FlattenAppend DEF Arrays
    <3>5. Len(table[c] \o batch[c]) = inGroup + n
      BY <1>1, <1>3, <2>1, LenConcat
    <3>6. inGroup + n < cfg.scope
      BY <1>2, <2>1, <2>2
    <3>7. QED
      BY <3>2, <3>4, <3>5, <3>6
  <2>6. a.dicts = dicts /\ a.chunks = chunks
    BY <1>1, <1>3, <1>6, <1>11, <2>4, <2>5, EncodeBuffers DEF a
  <2>7. v = a
    BY <2>3 DEF v
  <2>8. dicts' = dicts /\ chunks' = chunks /\ inGroup' = inGroup + n
    BY <1>5, <2>3, <2>6, <2>7 DEF Written
  <2>9. ASSUME NEW c \in Cols PROVE Len(table'[c]) = inGroup + n
    <3>1. table'[c] = table[c] \o batch[c] /\ Len(table[c]) = inGroup /\ Len(batch[c]) = n
      BY <1>1, <1>3, <2>1
    <3>2. QED
      BY <1>1, <1>3, <3>1, LenConcat
  <2>10. QED
    BY <2>1, <2>8, <2>9 DEF Unwritten
<1>12. phase' = "writing" /\ phase' # "finished" /\ phase' # "panicked"
  BY <1>1
<1>13. (~ Merging => Writer \in Writers /\ Held(Writer, table, batches))'
  BY <1>1, <1>10, SameCfg, SameHas DEF Held
<1>14. (cfg.mode = "multicol" /\ OneGroup =>
          IF phase = "finished" THEN Columns(dicts, chunks, table, batches)
          ELSE Unwritten(dicts, chunks, inGroup, table))'
  BY <1>1, <1>11, <1>12 DEF OneGroup, Unwritten
<1>15. (Merging => MergedIn(dicts, merged, tail))' /\ (phase = "finished" /\ ~ Merging => Ended(Writer))'
  BY <1>12 DEF Merging
<1>16. (cfg \in Configs /\ phase \in {"writing", "finished", "panicked"})'
       /\ (table \in [Cols -> Arrays] /\ batches \in Seq(Nat))'
       /\ (cfg.mode = "multicol" => coeffs \in [1 .. NumHashes -> HashFns])'
  BY <1>1, <1>4, <1>12, SameCfg
<1>17. (phase = "panicked" => cfg.mode = "multicol" /\ SubmitPanics)'
  BY <1>12
<1>18. QED
  BY <1>13, <1>14, <1>15, <1>16, <1>17, Zenon DEF DInv

LEMMA SameStored ==
  ASSUME cfg' = cfg, NEW t, NEW ds
  PROVE  Stored(t, ds)' <=> Stored(t, ds)
<1>1. \A d : DictChunk(d)' = DictChunk(d)
  BY DEF DictChunk, DictUnit, DictArray
<1>2. QED
  BY <1>1 DEF Stored

(* finish() without merging.                                               *)
LEMMA FinishPlain ==
  ASSUME DInv, NEW global, Finish(global), cfg.mode # "multicol"
  PROVE  /\ Writer' \in Writers /\ Held(Writer', table, batches)
         /\ \A c \in Cols : Idle(Writer', c)
         /\ Stored(tail', Writer'.dicts)
<1> DEFINE v == FlushPending(Writer, global)
<1>1. cfg \in Configs /\ phase = "writing"
  BY DEF DInv, Finish
<1>2. Written(v) /\ tail' = DictTable(v.dicts, << >>)
  <2> DEFINE sharing == cfg.mode = "multicol"
             submitted == FoldLeft(SubmitDict, Writer, [c \in Cols |-> c])
             m == IF sharing THEN MergeDicts(submitted.dicts)
                  ELSE [dicts |-> dicts, peers |-> << >>]
             w == FlushPending(IF sharing THEN [submitted EXCEPT !.dicts = m.dicts] ELSE Writer, global)
  <2>1. Written(w) /\ tail' = DictTable(w.dicts, m.peers)
    BY Zenon DEF Finish
  <2>2. ~ sharing
    OBVIOUS
  <2> HIDE DEF sharing, submitted
  <2>3. w = v
    BY <2>2
  <2>4. m.peers = << >>
    BY <2>2
  <2> HIDE DEF w, v, m
  <2>5. QED
    BY <2>1, <2>3, <2>4
<1>3. Writer \in Writers /\ Held(Writer, table, batches)
  BY <1>1 DEF DInv, Merging
<1>4. /\ v \in Writers /\ \A x \in Cols : Idle(v, x)
      /\ \A x \in Cols : \A all : Has(Writer, x, all) => Has(v, x, all)
  BY <1>1, <1>3, FlushIs
<1> HIDE DEF v
<1>5. Held(v, table, batches)
  BY <1>3, <1>4 DEF Held
<1>6. Writer' = v
  BY <1>2, <1>4, WrittenIs
<1>7. v.dicts \in Seq(Dicts)
  BY <1>4 DEF Writers
<1>8. Stored(tail', v.dicts)
  BY <1>2, <1>7, TableIs
<1>9. QED
  BY <1>4, <1>5, <1>6, <1>8

(* finish() with merging: submit_dict of every column, merge_dicts, then   *)
(* every column is encoded with the merged dictionaries.                   *)
LEMMA FinishMerges ==
  ASSUME DInv, NEW global, Finish(global), cfg.mode = "multicol"
  PROVE  /\ MergedIn(dicts', merged', tail')
         /\ OneGroup => Columns(dicts', chunks', table, batches)
<1> DEFINE w == Writer
           s == SubmitOver(w, ColIds)
           m == MergeDicts(s.dicts)
           u == [s EXCEPT !.dicts = m.dicts]
           v == FlushPending(u, global)
<1>1. /\ cfg \in Configs /\ phase = "writing" /\ coeffs \in [1 .. NumHashes -> HashFns]
      /\ w \in Writers /\ Held(w, table, batches) /\ ~ SubmitPanics
  BY DEF DInv, Finish, Merging
<1>2. Written(v) /\ merged' = m.peers /\ tail' = DictTable(v.dicts, m.peers)
  <2> DEFINE sharing == cfg.mode = "multicol"
             submitted == FoldLeft(SubmitDict, Writer, [c \in Cols |-> c])
             n == IF sharing THEN MergeDicts(submitted.dicts)
                  ELSE [dicts |-> dicts, peers |-> << >>]
             x == FlushPending(IF sharing THEN [submitted EXCEPT !.dicts = n.dicts] ELSE Writer, global)
  <2>1. Written(x) /\ merged' = n.peers /\ tail' = DictTable(x.dicts, n.peers)
    BY Zenon DEF Finish
  <2>2. sharing
    OBVIOUS
  <2>3. submitted = s
    BY Zenon DEF SubmitOver, ColIds
  <2> HIDE DEF sharing, submitted, s, w
  <2>4. n = m
    BY <2>2, <2>3
  <2> HIDE DEF n, m
  <2>5. x = v
    BY <2>2, <2>3, <2>4
  <2> HIDE DEF x, v
  <2>6. QED
    BY <2>1, <2>4, <2>5
<1>3. w.enc = enc /\ w.dicts = dicts /\ w.chunks = chunks
  BY DEF Writer
<1> HIDE DEF w
<1>4. \A c \in Cols : w.enc[c].buffered # << >>
  BY <1>1, <1>3, WriterIs DEF SubmitPanics
<1>5. SubmittedTo(w, s, NumCols)
  BY <1>1, SubmitAllIs
<1> HIDE DEF s
<1>6. s.dicts \in Seq(Dicts)
  BY <1>5 DEF SubmittedTo
<1>7. MergeOK(s.dicts, m)
  BY <1>1, <1>6, MergeDictsIs
<1> HIDE DEF m
<1>8. /\ u \in MergeWriters /\ u.dicts = m.dicts /\ u.chunks = w.chunks
      /\ Len(u.dicts) = Len(w.dicts) + NumCols
      /\ \A x \in Cols : /\ Ready(u, x) /\ u.enc[x].buffered = w.enc[x].buffered
                         /\ u.enc[x].submitted = Len(w.dicts) + x
  <2>1. u = [s EXCEPT !.dicts = m.dicts]
    OBVIOUS
  <2> HIDE DEF u
  <2>2. QED
    <3>1. ReadyFrom(w, m, u)
      BY <1>1, <1>4, <1>5, <1>7, <2>1, MergedReady
    <3>2. QED
      BY <3>1 DEF ReadyFrom
<1> HIDE DEF u
<1>9. FlushedTo(u, v, NumCols)
  BY <1>1, <1>8, FlushMerged
<1> HIDE DEF v
<1>10. v \in MergeWriters /\ v.dicts = m.dicts
       /\ \A x \in Cols : \E new : Fresh(u, x, new) /\ v.chunks[x] = u.chunks[x] \o new
  <2>1. \A x \in Cols : x <= NumCols
    BY ColumnsAssumption DEF Cols
  <2>2. QED
    BY <1>8, <1>9, <2>1 DEF FlushedTo
<1>11. dicts' = m.dicts /\ chunks' = v.chunks
  BY <1>2, <1>10 DEF Written
<1>12. m.dicts \in Seq(Dicts) /\ Peered(m.dicts, m.peers)
  BY <1>7 DEF MergeOK
<1>13. Len(m.dicts) # 0
  <2>1. Len(w.dicts) \in Nat /\ NumCols \in Nat \ {0}
    <3>1. 1 \in Cols
      BY ColumnsAssumption DEF Cols
    <3>2. QED
      BY <1>1, <3>1, WriterIs, ColumnsAssumption
  <2>2. QED
    BY <1>8, <2>1
<1>14. MergedIn(dicts', merged', tail')
  <2>1. \E z : Laid(DictTable(m.dicts, m.peers), m.dicts, m.peers, z)
    BY <1>12, <1>13, TableLaid
  <2>2. QED
    BY <1>2, <1>10, <1>11, <1>12, <2>1 DEF MergedIn
<1>15. ASSUME OneGroup PROVE Columns(dicts', chunks', table, batches)
  <2>1. dicts = << >> /\ \A c \in Cols : chunks[c] = << >>
    BY <1>1, <1>15 DEF DInv, Unwritten
  <2>2. Len(w.dicts) = 0
    BY <1>3, <2>1
  <2>3. ASSUME NEW c \in Cols
        PROVE  /\ chunks'[c] \in Seq(Chunks) /\ AllUse(chunks'[c], c)
               /\ \E all : /\ all \in Seq(Arrays) /\ NewHold(dicts', c, chunks'[c], all)
                           /\ Given(table, batches, c, all)
    <3>1. PICK all : Has(w, c, all) /\ Given(table, batches, c, all)
      BY <1>1 DEF Held
    <3>2. w.enc[c].buffered = all /\ all \in Seq(Arrays)
      BY <1>1, <1>3, <2>1, <3>1, BufferedAll DEF Has
    <3>3. PICK new : Fresh(u, c, new) /\ v.chunks[c] = u.chunks[c] \o new
      BY <1>10
    <3>4. /\ new \in Seq(Chunks) /\ NewHold(u.dicts, c, new, u.enc[c].buffered)
          /\ AllUse(new, u.enc[c].submitted)
      BY <3>3 DEF Fresh
    <3>5. u.enc[c].submitted = c /\ u.enc[c].buffered = all
      <4>1. c \in Nat
        BY ColumnsAssumption DEF Cols
      <4>2. 0 + c = c
        BY <4>1
      <4>3. QED
        BY <1>8, <2>2, <3>2, <4>2
    <3>6. chunks'[c] = new
      <4>1. u.chunks[c] = << >>
        BY <1>3, <1>8, <2>1
      <4>2. << >> \o new = new
        BY <3>4
      <4>3. QED
        BY <1>11, <3>3, <4>1, <4>2
    <3>7. QED
      BY <1>8, <1>11, <3>1, <3>2, <3>4, <3>5, <3>6
  <2>4. Len(dicts') = NumCols
    BY <1>8, <1>11, <2>2, ColumnsAssumption
  <2>5. QED
    BY <2>3, <2>4 DEF Columns
<1>16. QED
  BY <1>14, <1>15

LEMMA FinishKeeps ==
  ASSUME DInv, NEW global, Finish(global)
  PROVE  DInv'
<1>1. /\ cfg \in Configs /\ phase = "writing" /\ table \in [Cols -> Arrays] /\ batches \in Seq(Nat)
      /\ cfg' = cfg /\ coeffs' = coeffs /\ phase' = "finished" /\ batches' = batches /\ table' = table
      /\ cfg.mode = "multicol" => coeffs \in [1 .. NumHashes -> HashFns]
  BY DEF DInv, Finish
<1>2. Merging' <=> cfg.mode = "multicol"
  BY <1>1 DEF Merging
<1>3. (~ Merging => Writer \in Writers /\ Held(Writer, table, batches))'
  BY <1>1, <1>2, FinishPlain, SameCfg, SameHas DEF Held
<1>4. (phase = "finished" /\ ~ Merging => Ended(Writer))'
  BY <1>1, <1>2, FinishPlain, SameIdle, SameStored DEF Ended
<1>5. (Merging => MergedIn(dicts, merged, tail))'
  BY <1>1, <1>2, FinishMerges, SameMerged
<1>6. (cfg.mode = "multicol" /\ OneGroup =>
         IF phase = "finished" THEN Columns(dicts, chunks, table, batches)
         ELSE Unwritten(dicts, chunks, inGroup, table))'
  <2>1. OneGroup' <=> OneGroup
    BY <1>1 DEF OneGroup
  <2>2. QED
    BY <1>1, <2>1, FinishMerges, SameColumns
<1>7. (cfg \in Configs /\ phase \in {"writing", "finished", "panicked"})'
      /\ (table \in [Cols -> Arrays] /\ batches \in Seq(Nat))'
      /\ (cfg.mode = "multicol" => coeffs \in [1 .. NumHashes -> HashFns])'
  BY <1>1, SameCfg
<1>8. (phase = "panicked" => cfg.mode = "multicol" /\ SubmitPanics)'
  BY <1>1
<1>9. QED
  BY <1>3, <1>4, <1>5, <1>6, <1>7, <1>8, Zenon DEF DInv

LEMMA PanicKeeps ==
  ASSUME DInv, FinishPanics
  PROVE  DInv'
<1>1. /\ cfg \in Configs /\ cfg.mode = "multicol" /\ phase = "writing" /\ SubmitPanics
      /\ table \in [Cols -> Arrays] /\ batches \in Seq(Nat) /\ coeffs \in [1 .. NumHashes -> HashFns]
      /\ phase' = "panicked" /\ cfg' = cfg /\ coeffs' = coeffs /\ table' = table /\ batches' = batches
      /\ inGroup' = inGroup /\ enc' = enc /\ dicts' = dicts /\ chunks' = chunks
  BY DEF DInv, FinishPanics
<1>2. ~ Merging /\ ~ Merging'
  BY <1>1 DEF Merging
<1>3. Writer' = Writer /\ (SubmitPanics' <=> SubmitPanics) /\ (OneGroup' <=> OneGroup)
  BY <1>1 DEF Writer, SubmitPanics, OneGroup
<1>4. Writer \in Writers /\ Held(Writer, table, batches)
  BY <1>2 DEF DInv
<1>5. (~ Merging => Writer \in Writers /\ Held(Writer, table, batches))'
  BY <1>1, <1>3, <1>4, SameCfg, SameHas DEF Held
<1>6. (cfg.mode = "multicol" /\ OneGroup =>
         IF phase = "finished" THEN Columns(dicts, chunks, table, batches)
         ELSE Unwritten(dicts, chunks, inGroup, table))'
  <2>1. OneGroup => Unwritten(dicts, chunks, inGroup, table)
    BY <1>1 DEF DInv
  <2>2. QED
    BY <1>1, <1>3, <2>1 DEF Unwritten
<1>7. (cfg \in Configs /\ phase \in {"writing", "finished", "panicked"})'
      /\ (table \in [Cols -> Arrays] /\ batches \in Seq(Nat))'
      /\ (cfg.mode = "multicol" => coeffs \in [1 .. NumHashes -> HashFns])'
  BY <1>1, SameCfg
<1>8. (phase = "panicked" => cfg.mode = "multicol" /\ SubmitPanics)'
      /\ (Merging => MergedIn(dicts, merged, tail))'
      /\ (phase = "finished" /\ ~ Merging => Ended(Writer))'
  BY <1>1, <1>2, <1>3
<1>9. QED
  BY <1>5, <1>6, <1>7, <1>8, Zenon DEF DInv

LEMMA StutterKeeps ==
  ASSUME DInv, UNCHANGED vars
  PROVE  DInv'
<1>1. /\ cfg' = cfg /\ coeffs' = coeffs /\ table' = table /\ batches' = batches /\ phase' = phase
      /\ inGroup' = inGroup /\ enc' = enc /\ dicts' = dicts /\ merged' = merged /\ chunks' = chunks
      /\ tail' = tail
  BY DEF vars
<1>2. Writer' = Writer /\ (SubmitPanics' <=> SubmitPanics) /\ (OneGroup' <=> OneGroup)
      /\ (Merging' <=> Merging)
  BY <1>1 DEF Writer, SubmitPanics, OneGroup, Merging
<1>3. (~ Merging => Writer \in Writers /\ Held(Writer, table, batches))'
  BY <1>1, <1>2, SameCfg, SameHas DEF DInv, Held
<1>4. (phase = "finished" /\ ~ Merging => Ended(Writer))'
  BY <1>1, <1>2, SameIdle, SameStored DEF DInv, Ended
<1>5. (Merging => MergedIn(dicts, merged, tail))'
  BY <1>1, <1>2, SameMerged DEF DInv
<1>6. (cfg.mode = "multicol" /\ OneGroup =>
         IF phase = "finished" THEN Columns(dicts, chunks, table, batches)
         ELSE Unwritten(dicts, chunks, inGroup, table))'
  <2>1. Unwritten(dicts, chunks, inGroup, table)' <=> Unwritten(dicts, chunks, inGroup, table)
    BY <1>1 DEF Unwritten
  <2>2. QED
    BY <1>1, <1>2, <2>1, SameColumns DEF DInv
<1>7. (cfg \in Configs /\ phase \in {"writing", "finished", "panicked"})'
      /\ (table \in [Cols -> Arrays] /\ batches \in Seq(Nat))'
      /\ (cfg.mode = "multicol" => coeffs \in [1 .. NumHashes -> HashFns])'
  BY <1>1, SameCfg DEF DInv
<1>8. (phase = "panicked" => cfg.mode = "multicol" /\ SubmitPanics)'
  BY <1>1, <1>2 DEF DInv
<1>9. QED
  BY <1>3, <1>4, <1>5, <1>6, <1>7, <1>8, Zenon DEF DInv

LEMMA DInvStep == DInv /\ [Next]_vars => DInv'
  BY WriteBatchKeeps, FinishKeeps, PanicKeeps, StutterKeeps DEF Next

LEMMA DInvAlways == Spec => []DInv
  BY DInvInit, DInvStep, PTL DEF Spec

(* A finished file: column c reads as the arrays of the batches.           *)
LEMMA FileReads ==
  ASSUME DInv, phase = "finished", cfg.mode # "local", OneGroup, NEW c \in Cols
  PROVE  \E all : /\ all \in Seq(Arrays) /\ ReadsAll(c, ReadCol(c), all)
                  /\ Len(ReadCol(c)) = Len(all) /\ Given(table, batches, c, all)
<1>1. cfg \in Configs
  BY DEF DInv
<1>2. CASE cfg.mode # "multicol"
  <2> DEFINE w == Writer
  <2>1. w \in Writers /\ Held(w, table, batches) /\ Idle(w, c) /\ Stored(tail, w.dicts)
    BY <1>2 DEF DInv, Merging, Ended
  <2>2. w.dicts = dicts /\ w.chunks = chunks
    BY DEF Writer
  <2> HIDE DEF w
  <2>3. PICK all : Has(w, c, all) /\ Given(table, batches, c, all)
    BY <2>1 DEF Held
  <2>4. all \in Seq(Arrays) /\ ColHolds(w, c, all)
    BY <2>1, <2>3 DEF Has
  <2>5. NewHold(dicts, c, chunks[c], all)
    BY <1>1, <2>1, <2>2, <2>4, ChunksHoldAll
  <2>6. dicts \in Seq(Dicts) /\ chunks[c] \in Seq(Chunks)
    BY <2>1, <2>2, WriterIs
  <2>7. ReadsAll(c, ReadCol(c), all) /\ Len(ReadCol(c)) = Len(all)
    BY <1>1, <2>1, <2>2, <2>4, <2>5, <2>6, ReadColIs, StoredLoads
  <2>8. QED
    BY <2>3, <2>4, <2>7
<1>3. CASE cfg.mode = "multicol"
  <2>1. MergedIn(dicts, merged, tail) /\ Columns(dicts, chunks, table, batches)
    BY <1>3 DEF DInv, Merging
  <2>2. dicts \in Seq(Dicts) /\ Loads
    BY <1>1, <2>1, LaidLoads DEF MergedIn
  <2>3. PICK all : /\ all \in Seq(Arrays) /\ NewHold(dicts, c, chunks[c], all)
                   /\ Given(table, batches, c, all)
    BY <2>1 DEF Columns
  <2>4. chunks[c] \in Seq(Chunks)
    BY <2>1 DEF Columns
  <2>5. ReadsAll(c, ReadCol(c), all) /\ Len(ReadCol(c)) = Len(all)
    BY <1>1, <2>2, <2>3, <2>4, ReadColIs
  <2>6. QED
    BY <2>3, <2>5
<1>4. QED
  BY <1>2, <1>3

LEMMA RowsReadIs ==
  ASSUME NEW c, NEW all \in Seq(Arrays), ReadsAll(c, ReadCol(c), all),
         \A k \in 1 .. Len(all) : ReadCol(c)[k].ok
  PROVE  RowsRead(c) = FlattenSeq(all)
<1> DEFINE rc == ReadCol(c)
<1>1. rc = [k \in 1 .. Len(all) |-> rc[k]] /\ \A k \in 1 .. Len(all) : rc[k].rows = all[k]
  BY DEF ReadsAll, Reads
<1>2. RowsRead(c) = FlattenSeq([k \in DOMAIN rc |-> rc[k].rows])
  BY DEF RowsRead
<1> HIDE DEF rc
<1>3. DOMAIN rc = 1 .. Len(all) /\ all = [k \in 1 .. Len(all) |-> all[k]]
  BY <1>1
<1>4. [k \in DOMAIN rc |-> rc[k].rows] = all
  BY <1>1, <1>3
<1>5. QED
  BY <1>2, <1>4

LEMMA FileOpens ==
  ASSUME DInv, phase = "finished", Readable
  PROVE  Opens
<1>1. cfg \in Configs
  BY DEF DInv
<1>2. dicts \in Seq(Dicts) /\ Loads
  <2>1. CASE Merging
    BY <1>1, <2>1, LaidLoads DEF DInv, MergedIn
  <2>2. CASE ~ Merging
    <3>1. Writer \in Writers /\ Stored(tail, Writer.dicts)
      BY <2>2 DEF DInv, Ended
    <3>2. Writer.dicts = dicts
      BY DEF Writer
    <3>3. dicts \in Seq(Dicts) /\ Stored(tail, dicts)
      BY <3>1, <3>2 DEF Writers
    <3>4. QED
      BY <1>1, <3>3, StoredLoads
  <2>3. QED
    BY <2>1, <2>2
<1>3. QED
  BY <1>1, <1>2, LoadsOpens

LEMMA FirstIsRead ==
  ASSUME NEW T, NEW seqs \in Seq(Seq(T)), seqs # << >>, seqs[1] # << >>
  PROVE  \E k \in DOMAIN FlattenSeq(seqs) : FlattenSeq(seqs)[k] = seqs[1][1]
<1> DEFINE n == Len(seqs)
<1>1. n \in Nat /\ n # 0 /\ 1 \in 1 .. n
  OBVIOUS
<1>2. PICK f : Flattens(f, seqs, n) /\ FlattenSeq(seqs) = f[n]
  BY <1>1, FlattenIs
<1>3. /\ Before(f, 1) + Len(seqs[1]) <= Len(f[n])
      /\ \A x \in 1 .. Len(seqs[1]) : f[n][Before(f, 1) + x] = seqs[1][x]
  BY <1>1, <1>2, FlattenPlace
<1>4. Before(f, 1) \in Nat /\ seqs[1] \in Seq(T)
  BY <1>1, <1>2, FlattensPlace
<1>5. Len(seqs[1]) \in Nat /\ 1 \in 1 .. Len(seqs[1])
  BY <1>4
<1>6. f[n] \in Seq(T)
  BY <1>2, FlattenType
<1> HIDE DEF n
<1>7. Before(f, 1) + 1 \in DOMAIN f[n]
  BY <1>3, <1>4, <1>5, <1>6
<1>8. QED
  BY <1>2, <1>3, <1>5, <1>7

LEMMA HalfIs ==
  ASSUME NEW x \in Nat
  PROVE  x \div 2 \in Nat /\ (2 <= x => 1 \in 1 .. x \div 2)
  OBVIOUS

(* A local dictionary is never read: its decoder wants indices of a type   *)
(* the encoder writes for dictionaries of 2^32 values only.                *)
LEMMA LocalFails ==
  ASSUME DInv, phase = "finished", cfg.mode = "local", cfg.rows < Widths[3], NEW c \in Cols, ReadOk(c)
  PROVE  RowsRead(c) = table[c]
<1> DEFINE w == Writer
           n == Len(chunks[c])
           Read(k) == ReadChunk(chunks[c][k], c)
           reads == [k \in DOMAIN chunks[c] |-> Read(k)]
<1>1. w \in Writers /\ Held(w, table, batches) /\ Idle(w, c)
  BY DEF DInv, Merging, Ended
<1>2. w.enc = enc /\ w.chunks = chunks
  BY DEF Writer
<1>3. PICK all : Has(w, c, all) /\ Given(table, batches, c, all)
  BY <1>1 DEF Held
<1>4. /\ all \in Seq(Arrays) /\ LocalHolds(w, c, Len(all)) /\ FlattenSeq(all) = table[c]
      /\ enc[c].acc.units = << >> /\ chunks[c] \in Seq(Chunks)
  BY <1>1, <1>2, <1>3, WriterIs DEF Has, Given, Idle
<1>5. /\ chunks[c] # << >> => LocalFirst(chunks[c][1])
      /\ chunks[c] = << >> => Len(all) = 0
  BY <1>2, <1>4 DEF LocalHolds
<1>6. ReadCol(c) = FlattenSeq(reads)
  BY DEF ReadCol
<1>7. CASE chunks[c] = << >>
  <2>1. all = << >> /\ table[c] = << >>
    BY <1>4, <1>5, <1>7, FlattenEmpty
  <2>2. reads = << >>
    BY <1>7
  <2> HIDE DEF reads
  <2>3. ReadCol(c) = << >>
    BY <1>6, <2>2, FlattenEmpty
  <2>4. [k \in DOMAIN ReadCol(c) |-> ReadCol(c)[k].rows] = << >>
    BY <2>3
  <2>5. QED
    BY <2>1, <2>4, FlattenEmpty DEF RowsRead
<1>8. CASE chunks[c] # << >>
  <2> DEFINE chunk == chunks[c][1]
             m == Len(chunk.units) \div 2
             T == UNION {{Read(k)[i] : i \in DOMAIN Read(k)} : k \in DOMAIN chunks[c]}
  <2>1. /\ n \in Nat /\ 1 \in 1 .. n /\ DOMAIN chunks[c] = 1 .. n
        /\ \A k \in 1 .. n : chunks[c][k] \in Chunks
    BY <1>4, <1>8
  <2>2. /\ chunk.label = "local" /\ 2 <= Len(chunk.units) /\ Len(chunk.units) \in Nat
        /\ chunk.units[2].type \in IndexTypes /\ chunk.units[2].type # "UInt64"
    BY <1>5, <1>8, <2>1 DEF LocalFirst, Chunks
  <2>3. ReadChunk(chunk, c) = [k \in 1 .. m |-> ReadLocal(chunk.units[2 * k - 1], chunk.units[2 * k])]
    BY <2>2 DEF ReadChunk
  <2>4. m \in Nat /\ 1 \in 1 .. m /\ 2 * 1 - 1 = 1 /\ 2 * 1 = 2
    <3> DEFINE l == Len(chunk.units)
    <3>1. l \in Nat /\ 2 <= l
      BY <2>2
    <3> HIDE DEF l
    <3>2. l \div 2 \in Nat /\ 1 \in 1 .. l \div 2
      BY <3>1, HalfIs
    <3>3. 2 * 1 - 1 = 1 /\ 2 * 1 = 2
      OBVIOUS
    <3>4. QED
      BY <3>2, <3>3, Zenon DEF l
  <2>5. ReadLocal(chunk.units[1], chunk.units[2]) = Failed
    <3> DEFINE u == chunk.units[2]
               i == DecodeUnit(u, "Int64")
    <3>1. i.type \in {"none", "Int64", ViewOf(u.type)}
      BY DEF DecodeUnit, Failed
    <3>2. ViewOf(u.type) = u.type
      BY <2>2, ViewIs
    <3>3. i.type # "UInt64"
      BY <2>2, <3>1, <3>2
    <3>4. QED
      BY <3>3 DEF ReadLocal
  <2>6. Read(1) # << >> /\ Read(1)[1] = Failed
    <3> HIDE DEF m
    <3>0. Read(1) = [k \in 1 .. m |-> ReadLocal(chunk.units[2 * k - 1], chunk.units[2 * k])]
      BY <2>3
    <3> HIDE DEF Read, chunk
    <3>1. Read(1)[1] = Failed /\ 1 \in DOMAIN Read(1)
      BY <2>4, <2>5, <3>0
    <3>2. QED
      BY <3>1
  <2>7. \A k \in 1 .. n : \E l \in Nat : DOMAIN Read(k) = 1 .. l /\ Read(k) = [i \in 1 .. l |-> Read(k)[i]]
    <3> SUFFICES ASSUME NEW k \in 1 .. n
                 PROVE  \E l \in Nat : DOMAIN Read(k) = 1 .. l /\ Read(k) = [i \in 1 .. l |-> Read(k)[i]]
      OBVIOUS
    <3> DEFINE x == chunks[c][k]
    <3>1. x.label \in Labels /\ x.units \in Seq(Units)
      BY <2>1 DEF Chunks
    <3>2. DOMAIN x.units = 1 .. Len(x.units) /\ Len(x.units) \in Nat /\ Len(x.units) \div 2 \in Nat
      <4> DEFINE l == Len(x.units)
      <4>1. DOMAIN x.units = 1 .. l /\ l \in Nat
        BY <3>1
      <4> HIDE DEF l
      <4>2. l \div 2 \in Nat
        BY <4>1, HalfIs
      <4>3. QED
        BY <4>1, <4>2 DEF l
    <3> HIDE DEF x
    <3>3. CASE x.label = "none"
      BY <3>2, <3>3 DEF ReadChunk, x
    <3>4. CASE x.label = "local"
      BY <3>2, <3>4 DEF ReadChunk, x
    <3>5. CASE x.label = "shared"
      BY <3>2, <3>5 DEF ReadChunk, x
    <3>6. QED
      BY <3>1, <3>3, <3>4, <3>5 DEF Labels
  <2> HIDE DEF Read, chunk, m
  <2>8. ASSUME NEW k \in 1 .. n PROVE Read(k) \in Seq(T)
    <3>1. PICK l \in Nat : DOMAIN Read(k) = 1 .. l /\ Read(k) = [i \in 1 .. l |-> Read(k)[i]]
      BY <2>7
    <3>2. ASSUME NEW i \in 1 .. l PROVE Read(k)[i] \in T
      <4>1. Read(k)[i] \in {Read(k)[j] : j \in DOMAIN Read(k)}
        BY <3>1
      <4>2. QED
        BY <2>1, <4>1
    <3> HIDE DEF T
    <3>3. Read(k) \in [1 .. l -> T]
      BY <3>1, <3>2
    <3>4. QED
      BY <3>3
  <2> DEFINE ST == Seq(T)
  <2> HIDE DEF T, ST, n
  <2>9. reads \in Seq(ST) /\ reads # << >> /\ reads[1] = Read(1)
    <3>1. reads \in [1 .. n -> ST]
      BY <2>1, <2>8 DEF ST
    <3>2. reads \in Seq(ST) /\ Len(reads) = n
      BY <2>1, <3>1
    <3>3. reads[1] = Read(1)
      BY <2>1
    <3> HIDE DEF reads
    <3>4. QED
      BY <2>1, <3>2, <3>3
  <2> HIDE DEF reads
  <2>10. reads \in Seq(Seq(T)) /\ reads[1] # << >>
    BY <2>6, <2>9 DEF ST
  <2>11. PICK k \in DOMAIN ReadCol(c) : ReadCol(c)[k] = reads[1][1]
    BY <1>6, <2>9, <2>10, FirstIsRead
  <2>12. ReadCol(c)[k].ok = FALSE
    BY <2>6, <2>9, <2>11 DEF Failed
  <2>13. QED
    BY <2>12 DEF ReadOk
<1>9. QED
  BY <1>7, <1>8

-----------------------------------------------------------------------------
(***************************************************************************)
(* The theorems, for every table, batch size, scope, row-group size, every *)
(* limit of the index types and every hash function of the sketches.       *)
(* OneGroup excludes merged dictionaries after an earlier row group, whose *)
(* chunks may then read as other values.                                   *)
(***************************************************************************)

(* No dictionary ever holds a value twice, in any mode: not the ones an    *)
(* encoder extends (TypedDict::extend), and not two that were reordered    *)
(* and merged, whatever pairs the sketches chose (merge_with).             *)
THEOREM DictionariesInjective == Spec => []TypeOK
<1>1. DInv => TypeOK
  <2> SUFFICES ASSUME DInv PROVE TypeOK
    OBVIOUS
  <2>1. /\ cfg \in Configs /\ phase \in {"writing", "finished", "panicked"}
        /\ table \in [Cols -> Arrays]
    BY DEF DInv
  <2>2. Writer.dicts = dicts
    BY DEF Writer
  <2>3. dicts \in Seq(Dicts)
    BY <2>2 DEF DInv, Writers, MergedIn
  <2>4. \A i \in DOMAIN dicts : dicts[i] \in Dicts
    BY <2>3
  <2>5. QED
    BY <2>1, <2>4, DictIs DEF TypeOK, Arrays
<1>2. QED
  BY <1>1, DInvAlways, PTL

(* A finished file reads back as the rows that were written: plain units,  *)
(* one dictionary per scope or per column, whatever GLBestEncoder chose,   *)
(* and for dictionaries that grow over the limits of the index types.      *)
THEOREM FileReadsBack == Spec => [](OneGroup => ReadsBack)
<1>1. DInv => (OneGroup => ReadsBack)
  <2> SUFFICES ASSUME DInv, OneGroup, phase = "finished", Readable, NEW c \in Cols
               PROVE  ReadOk(c) /\ RowsRead(c) = table[c]
    BY DEF ReadsBack
  <2>1. cfg.mode # "local"
    BY DEF Readable
  <2>2. PICK all : /\ all \in Seq(Arrays) /\ ReadsAll(c, ReadCol(c), all)
                   /\ Len(ReadCol(c)) = Len(all) /\ Given(table, batches, c, all)
    BY <2>1, FileReads
  <2>3. \A k \in 1 .. Len(all) : ReadCol(c)[k].ok
    BY <2>2 DEF ReadsAll, Reads
  <2>4. DOMAIN ReadCol(c) = 1 .. Len(all)
    BY <2>2 DEF ReadsAll
  <2>5. ReadOk(c)
    BY <2>3, <2>4, FileOpens DEF ReadOk
  <2>6. RowsRead(c) = table[c]
    BY <2>2, <2>3, RowsReadIs DEF Given
  <2>7. QED
    BY <2>5, <2>6
<1>2. QED
  BY <1>1, DInvAlways, PTL

(* A file that cannot be read is never read wrongly: compressed files with *)
(* dictionaries, WASM decoders of indices, and local dictionaries as long  *)
(* as none can reach the length of a UInt64 index (2^32 values).           *)
THEOREM FileRightOrFails ==
  Spec => [](OneGroup /\ (cfg.mode = "local" => cfg.rows < Widths[3]) => RightOrFails)
<1>1. DInv => (OneGroup /\ (cfg.mode = "local" => cfg.rows < Widths[3]) => RightOrFails)
  <2> SUFFICES ASSUME DInv, OneGroup, cfg.mode = "local" => cfg.rows < Widths[3],
                      phase = "finished", NEW c \in Cols, ReadOk(c)
               PROVE  RowsRead(c) = table[c]
    BY DEF RightOrFails
  <2>1. CASE cfg.mode = "local"
    BY <2>1, LocalFails
  <2>2. CASE cfg.mode # "local"
    <3>1. PICK all : /\ all \in Seq(Arrays) /\ ReadsAll(c, ReadCol(c), all)
                     /\ Len(ReadCol(c)) = Len(all) /\ Given(table, batches, c, all)
      BY <2>2, FileReads
    <3>2. DOMAIN ReadCol(c) = 1 .. Len(all)
      BY <3>1 DEF ReadsAll
    <3>3. \A k \in 1 .. Len(all) : ReadCol(c)[k].ok
      BY <3>2 DEF ReadOk
    <3>4. QED
      BY <3>1, <3>3, RowsReadIs DEF Given
  <2>3. QED
    BY <2>1, <2>2
<1>2. QED
  BY <1>1, DInvAlways, PTL

(* The k-th arrays of all columns have the rows of the k-th batch, and a   *)
(* column keeps its type but for views, a time zone, and the stand-in for  *)
(* a dictionary without values.                                            *)
THEOREM FileBatchesAlign == Spec => [](OneGroup => BatchesAlign)
<1>1. DInv => (OneGroup => BatchesAlign)
  <2> SUFFICES ASSUME DInv, OneGroup, phase = "finished", Readable, NEW c \in Cols
               PROVE  /\ [k \in DOMAIN ReadCol(c) |-> Len(ReadCol(c)[k].rows)] = batches
                      /\ \A k \in DOMAIN ReadCol(c) :
                           \/ ReadCol(c)[k].type \in {ColType[c], ViewOf(ColType[c]),
                                                    DictArray(NewDict(ColType[c])).type}
                           \/ ReadCol(c)[k].type = "Int32" /\ ToSet(ReadCol(c)[k].rows) \subseteq {Null}
    BY DEF BatchesAlign
  <2> DEFINE rc == ReadCol(c)
  <2>1. cfg.mode # "local" /\ batches \in Seq(Nat)
    BY DEF Readable, DInv
  <2>2. PICK all : /\ all \in Seq(Arrays) /\ ReadsAll(c, rc, all)
                   /\ Len(rc) = Len(all) /\ Given(table, batches, c, all)
    BY <2>1, FileReads
  <2> HIDE DEF rc
  <2>3. \A k \in 1 .. Len(all) : rc[k].rows = all[k] /\ TypeFits(c, rc[k], all[k])
    BY <2>2 DEF ReadsAll, Reads
  <2>4. DOMAIN rc = 1 .. Len(all)
    BY <2>2 DEF ReadsAll
  <2>5. Len(all) = Len(batches) /\ \A k \in 1 .. Len(batches) : Len(all[k]) = batches[k]
    BY <2>2 DEF Given
  <2>6. \A k \in 1 .. Len(batches) : Len(rc[k].rows) = batches[k]
    BY <2>3, <2>5
  <2>7. batches = [k \in 1 .. Len(batches) |-> batches[k]]
    BY <2>1
  <2>8. [k \in DOMAIN rc |-> Len(rc[k].rows)] = batches
    BY <2>4, <2>5, <2>6, <2>7
  <2>9. ASSUME NEW k \in DOMAIN rc
        PROVE  \/ rc[k].type \in {ColType[c], ViewOf(ColType[c]), DictArray(NewDict(ColType[c])).type}
               \/ rc[k].type = "Int32" /\ ToSet(rc[k].rows) \subseteq {Null}
    <3>1. rc[k].rows = all[k] /\ TypeFits(c, rc[k], all[k])
      BY <2>3, <2>4
    <3>2. QED
      BY <3>1 DEF TypeFits
  <2>10. QED
    BY <2>8, <2>9 DEF rc
<1>2. QED
  BY <1>1, DInvAlways, PTL

(* The encoders that share dictionaries hold the rows of the current row   *)
(* group, all of them and no others, until finish() merges.                *)
InStep(es, rows, tbl) ==
  /\ rows \in Nat /\ rows <= Len(tbl[1])
  /\ \A c \in Cols : Len(FlattenSeq(es[c].buffered)) = rows

GroupBuffered == cfg.mode = "multicol" /\ phase # "finished" => InStep(enc, inGroup, table)

LEMMA GroupInit == Init => GroupBuffered
<1> SUFFICES ASSUME Init PROVE InStep(enc, inGroup, table)
  BY DEF GroupBuffered
<1>1. cfg \in Configs /\ inGroup = 0 /\ table = [c \in Cols |-> << >>] /\ enc = [c \in Cols |-> NewEncoder]
  BY DEF Init
<1>2. NewEncoder.buffered = << >>
  BY <1>1, NewEncoderIs
<1>3. 1 \in Cols
  BY ColumnsAssumption DEF Cols
<1>4. Len(table[1]) = 0
  BY <1>1, <1>3
<1>5. \A c \in Cols : enc[c].buffered = << >>
  <2> HIDE DEF NewEncoder
  <2>1. QED
    BY <1>1, <1>2
<1>6. QED
  BY <1>1, <1>4, <1>5, FlattenEmpty DEF InStep

(* A batch adds its rows to every encoder; a full row group leaves none.   *)
LEMMA GroupWriteBatch ==
  ASSUME DInv, GroupBuffered, cfg.mode = "multicol", NEW n \in 0 .. cfg.rows - Len(table[1]),
         NEW batch \in [Cols -> [1 .. n -> cfg.values \cup {Null}]], NEW global,
         WriteBatch(n, batch, global)
  PROVE  InStep(enc', inGroup', table')
<1> DEFINE a == EncodeAll(Writer, batch)
           full == inGroup + n >= cfg.cut
           v == IF full THEN FlushPending(a, global) ELSE a
<1>1. /\ cfg \in Configs /\ phase = "writing" /\ table \in [Cols -> Arrays]
      /\ table' = [c \in Cols |-> table[c] \o batch[c]]
  BY DEF DInv, WriteBatch
<1>2. 1 \in Cols /\ Len(table[1]) \in Nat /\ cfg.rows \in Nat /\ cfg.scope \in Nat /\ cfg.scope > cfg.rows
  <2>1. 1 \in Cols
    BY ColumnsAssumption DEF Cols
  <2>2. cfg.rows \in Nat /\ cfg.scope \in Nat /\ cfg.scope > cfg.rows
    BY <1>1, ConfigsAssumption
  <2>3. QED
    BY <1>1, <2>1, <2>2 DEF Arrays
<1>3. n \in Nat /\ n <= cfg.rows /\ Len(table[1]) + n <= cfg.rows
  BY <1>2
<1>4. batch \in [Cols -> Arrays] /\ \A c \in Cols : batch[c] \in Arrays /\ Len(batch[c]) = n
  BY <1>3, BatchIs
<1>5. Written(v) /\ inGroup' = IF full THEN 0 ELSE inGroup + n
  BY Zenon DEF WriteBatch, EncodeAll
<1>6. Writer \in Writers /\ Writer.enc = enc
  BY <1>1 DEF DInv, Merging, Writer
<1>7. /\ inGroup \in Nat /\ inGroup <= Len(table[1])
      /\ \A c \in Cols : Len(FlattenSeq(enc[c].buffered)) = inGroup
  BY <1>1 DEF GroupBuffered, InStep
<1>8. ASSUME NEW c \in Cols
      PROVE  Len(FlattenSeq(Append(Writer.enc[c].buffered, batch[c]))) = inGroup + n
  <2> DEFINE b == Writer.enc[c].buffered
  <2>1. b \in Seq(Arrays) /\ Len(FlattenSeq(b)) = inGroup
    BY <1>6, <1>7, WriterIs
  <2> HIDE DEF b
  <2>2. FlattenSeq(Append(b, batch[c])) = FlattenSeq(b) \o batch[c]
    BY <1>4, <2>1, FlattenAppend DEF Arrays
  <2>3. FlattenSeq(b) \in Arrays
    BY <2>1, FlattenType DEF Arrays
  <2>4. QED
    BY <1>4, <2>1, <2>2, <2>3, LenConcat DEF b
<1>9. inGroup + n < cfg.scope /\ inGroup + n \in Nat /\ inGroup + n <= Len(table[1]) + n
  BY <1>2, <1>3, <1>7
<1>10. \A c \in Cols : Len(FlattenSeq(Append(Writer.enc[c].buffered, batch[c]))) < cfg.scope
  BY <1>8, <1>9
<1>11. /\ a \in Writers
       /\ \A c \in Cols : a.enc[c].buffered = Append(Writer.enc[c].buffered, batch[c])
  BY <1>1, <1>3, <1>4, <1>6, <1>10, EncodeBuffers, EncodeAllIs
<1> HIDE DEF a
<1>12. Len(table'[1]) = Len(table[1]) + n
  <2>1. table'[1] = table[1] \o batch[1] /\ table[1] \in Arrays
    BY <1>1, <1>2
  <2>2. QED
    BY <1>2, <1>4, <2>1, LenConcat
<1>13. CASE full
  <2>1. FlushPending(a, global) \in Writers /\ \A c \in Cols : Idle(FlushPending(a, global), c)
    BY <1>1, <1>11, FlushIs
  <2>2. enc' = FlushPending(a, global).enc /\ inGroup' = 0
    BY <1>5, <1>13, Zenon DEF Written
  <2>3. \A c \in Cols : enc'[c].buffered = << >>
    BY <2>1, <2>2 DEF Idle
  <2>4. 0 <= Len(table'[1])
    BY <1>2, <1>3, <1>12
  <2>5. QED
    BY <2>2, <2>3, <2>4, FlattenEmpty DEF InStep
<1>14. CASE ~ full
  <2>1. enc' = a.enc /\ inGroup' = inGroup + n
    BY <1>5, <1>14, Zenon DEF Written
  <2>2. \A c \in Cols : Len(FlattenSeq(enc'[c].buffered)) = inGroup + n
    BY <1>8, <1>11, <2>1
  <2>3. QED
    BY <1>9, <1>12, <2>1, <2>2 DEF InStep
<1>15. QED
  BY <1>13, <1>14

LEMMA GroupStep == DInv /\ GroupBuffered /\ [Next]_vars => GroupBuffered'
<1> SUFFICES ASSUME DInv, GroupBuffered, [Next]_vars, cfg'.mode = "multicol", phase' # "finished"
             PROVE  InStep(enc', inGroup', table')
  BY DEF GroupBuffered, InStep
<1>1. ASSUME NEW n \in 0 .. cfg.rows - Len(table[1]),
             NEW batch \in [Cols -> [1 .. n -> cfg.values \cup {Null}]], NEW global,
             WriteBatch(n, batch, global)
      PROVE  InStep(enc', inGroup', table')
  <2>1. cfg.mode = "multicol"
    BY <1>1 DEF WriteBatch
  <2>2. QED
    BY <1>1, <2>1, GroupWriteBatch
<1>2. ASSUME NEW global, Finish(global) PROVE InStep(enc', inGroup', table')
  BY <1>2 DEF Finish
<1>3. CASE FinishPanics
  <2>1. /\ cfg.mode = "multicol" /\ phase # "finished"
        /\ enc' = enc /\ inGroup' = inGroup /\ table' = table
    BY <1>3 DEF FinishPanics
  <2>2. QED
    BY <2>1 DEF GroupBuffered, InStep
<1>4. CASE UNCHANGED vars
  <2>1. cfg' = cfg /\ phase' = phase /\ enc' = enc /\ inGroup' = inGroup /\ table' = table
    BY <1>4 DEF vars
  <2>2. QED
    BY <2>1 DEF GroupBuffered, InStep
<1>5. QED
  BY <1>1, <1>2, <1>3, <1>4 DEF Next

(* finish() panics in no mode but the one that merges dictionaries, and in *)
(* that one only between two row groups: while the current row group has a *)
(* row, every column still holds the arrays submit_dict needs, whatever    *)
(* row groups were flushed before.                                         *)
THEOREM FileFinishes == Spec => []FinishCompletes
<1>1. DInv /\ GroupBuffered => FinishCompletes
  <2> SUFFICES ASSUME DInv, GroupBuffered, phase = "panicked" PROVE cfg.mode = "multicol" /\ inGroup = 0
    BY DEF FinishCompletes
  <2>1. cfg.mode = "multicol" /\ SubmitPanics
    BY DEF DInv
  <2>2. PICK c \in Cols : enc[c].buffered = << >>
    BY <2>1 DEF SubmitPanics
  <2>3. Len(FlattenSeq(enc[c].buffered)) = inGroup
    BY <2>1 DEF GroupBuffered, InStep
  <2>4. QED
    BY <2>1, <2>2, <2>3, FlattenEmpty
<1>2. QED
  BY <1>1, GroupInit, GroupStep, DInvAlways, PTL DEF Spec

(* The columns a reader reports as sharing are those whose dictionaries    *)
(* were merged, both ways round, for every choice the sketches make, and   *)
(* two merged dictionaries have the values they share in one chunk of the  *)
(* dictionary table.                                                       *)
THEOREM FileReportsSharing == Spec => [](OneGroup => SharingReported)
<1>1. DInv => (OneGroup => SharingReported)
  <2> SUFFICES ASSUME DInv, OneGroup, phase = "finished", cfg.mode = "multicol"
               PROVE  /\ \A c, p \in Cols :
                           p \in SharingPeers(c) <=>
                             p # c /\ \E i \in DictsOf(c) : i \in DOMAIN merged /\ merged[i].peer \in DictsOf(p)
                      /\ \A i \in DOMAIN dicts, j \in DOMAIN dicts :
                           i < j /\ merged[i].peer = j =>
                             Cardinality({x \in DOMAIN tail.chunks :
                               /\ x \in ToSet(tail.positions[i]) \cup ToSet(tail.positions[j])
                               /\ ToSet(tail.chunks[x].units[1].rows) \cap ToSet(dicts[i].dictionary)
                                     \cap ToSet(dicts[j].dictionary) # {}}) = 1
    BY DEF SharingReported
  <2>1. /\ MergedIn(dicts, merged, tail) /\ Columns(dicts, chunks, table, batches)
    BY DEF DInv, Merging
  <2>2. PICK s : Laid(tail, dicts, merged, s)
    BY <2>1 DEF MergedIn
  <2>3. dicts \in Seq(Dicts) /\ Peered(dicts, merged)
    BY <2>1 DEF MergedIn
  <2>4. Cols = 1 .. Len(dicts) /\ DOMAIN merged = 1 .. Len(dicts) /\ DOMAIN dicts = 1 .. Len(dicts)
    BY <2>1, <2>3 DEF Columns, Cols, Peered
  <2>5. ASSUME NEW c \in Cols PROVE DictsOf(c) = {c} /\ DictChunkIds(c) = ToSet(tail.positions[c])
    <3>1. chunks[c] \in Seq(Chunks) /\ AllUse(chunks[c], c) /\ c # None
      BY <2>1, ColumnsAssumption DEF Columns, Cols, None
    <3>2. 1 \in DOMAIN chunks[c] /\ \A k \in DOMAIN chunks[c] : chunks[c][k].dict = c
      BY <3>1 DEF AllUse
    <3>3. DictsOf(c) = {c}
      BY <3>1, <3>2 DEF DictsOf
    <3>4. QED
      BY <3>3 DEF DictChunkIds
  <2>6. ASSUME NEW c \in Cols, NEW p \in Cols
        PROVE  p \in SharingPeers(c) <=>
                 p # c /\ \E i \in DictsOf(c) : i \in DOMAIN merged /\ merged[i].peer \in DictsOf(p)
    <3>1. p \in SharingPeers(c) <=> p # c /\ ToSet(tail.positions[p]) \cap ToSet(tail.positions[c]) # {}
      BY <2>5 DEF SharingPeers
    <3>2. (\E i \in DictsOf(c) : i \in DOMAIN merged /\ merged[i].peer \in DictsOf(p))
            <=> merged[c].peer = p
      BY <2>4, <2>5
    <3>3. c \in 1 .. Len(dicts) /\ p \in 1 .. Len(dicts)
      BY <2>4
    <3>4. ASSUME p # c, NEW x, x \in ToSet(tail.positions[p]), x \in ToSet(tail.positions[c])
          PROVE  merged[c].peer = p
      BY <2>2, <2>3, <3>3, <3>4, SharedPlace, SMTT(30)
    <3>5. merged[c].peer = p => ToSet(tail.positions[p]) \cap ToSet(tail.positions[c]) # {}
      BY <2>2, <2>3, <3>3, PeersShare
    <3>6. QED
      BY <3>1, <3>2, <3>4, <3>5
  <2>7. ASSUME NEW i \in DOMAIN dicts, NEW j \in DOMAIN dicts, i < j, merged[i].peer = j
        PROVE  Cardinality({x \in DOMAIN tail.chunks :
                 /\ x \in ToSet(tail.positions[i]) \cup ToSet(tail.positions[j])
                 /\ ToSet(tail.chunks[x].units[1].rows) \cap ToSet(dicts[i].dictionary)
                       \cap ToSet(dicts[j].dictionary) # {}}) = 1
    <3>1. i \in 1 .. Len(dicts) /\ j \in 1 .. Len(dicts)
      BY <2>4
    <3>2. StoredOnce(tail, dicts, i, j)
      BY <2>2, <2>3, <2>7, <3>1, SharedOnce
    <3>3. QED
      BY <3>2, Zenon DEF StoredOnce
  <2>8. QED
    BY <2>6, <2>7
<1>2. QED
  BY <1>1, DInvAlways, PTL

=============================================================================

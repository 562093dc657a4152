----------------------------- MODULE Dictionary -----------------------------
(***************************************************************************)
(* Typed dictionaries (fff-poc/src/dict.rs, dict/dict_hash.rs) and the     *)
(* sketch that estimates how alike two of them are                         *)
(* (dict/bottom_k_sketch.rs), as operators without state.                  *)
(*                                                                         *)
(* A dictionary is [datatype, dictionary]: its type and its values in the  *)
(* order of their indices; an index is a position from 0.  A value stands  *)
(* for its dict_hash key (floats are keyed by their bits, so values that   *)
(* differ in bits differ).  An array is a sequence of values and Null.     *)
(***************************************************************************)
EXTENDS Integers, Sequences, FiniteSets, SequencesExt, FiniteSetsExt

CONSTANTS
  Null,       \* an absent value
  SketchLen   \* K: hash values kept per hash function, 2048 in the code

ASSUME SketchAssumption == SketchLen \in Nat \ {0}

(* The types Dictionary::try_new knows; any other is an error.             *)
DictTypes ==
  {"Int32", "Int64", "Float32", "Float64", "Utf8", "LargeUtf8", "Timestamp",
   "TimestampTz", "Time32", "Time64", "Date32", "Boolean"}

NewDict(datatype) == [datatype |-> datatype, dictionary |-> << >>]
DictLen(dict) == Len(dict.dictionary)

(* Dictionary::finish and peek_dict: the values as an array.  The arrays   *)
(* made for timestamps know no time zone.                                  *)
DictArray(dict) ==
  [type |-> IF dict.datatype = "TimestampTz" THEN "Timestamp" ELSE dict.datatype,
   rows |-> dict.dictionary]

(* key_to_ind.get: the index of a value.                                   *)
IndexOf(dictionary, v) ==
  (CHOOSE i \in 1 .. Len(dictionary) : dictionary[i] = v) - 1

(* Mutant: values are not looked up first.                                 *)
SubmitTwice(dictionary, values) ==
  dictionary \o SelectSeq(values, LAMBDA v : v # Null)

(* TypedDict::submit_values: a value that is new goes to the end.          *)
Submit(dictionary, values) ==
  FoldLeft(LAMBDA d, v : IF v = Null \/ v \in ToSet(d) THEN d ELSE Append(d, v),
           dictionary, values)

(* TypedDict::extend: submits the values and gives the index of each row.  *)
Extend(dictionary, values) ==
  LET d == Submit(dictionary, values)
  IN [dictionary |-> d,
      indices |-> [k \in DOMAIN values |->
                     IF values[k] = Null THEN Null ELSE IndexOf(d, values[k])]]

(* Dictionary::extend, then finish: a dictionary of one array.             *)
LocalDict(array) == Extend(<< >>, array)

(* Dictionary::extend_and_get_index                                        *)
ExtendAndGetIndex(dict, array) ==
  LET e == Extend(dict.dictionary, array)
  IN [dict |-> [dict EXCEPT !.dictionary = e.dictionary], indices |-> e.indices]

(* Dictionary::submit_values                                               *)
SubmitValues(dict, array) ==
  [dict EXCEPT !.dictionary = Submit(@, array)]

(* The values of other that self knows, in the order of other.             *)
Common(self, other) ==
  FoldLeft(LAMBDA s, v : IF v \in ToSet(self) THEN Append(s, v) ELSE s, << >>, other)

(* Mutant: only this dictionary is put in order.                           *)
MergeOneSide(self, other) ==
  LET common == Common(self, other)
  IN [len |-> Len(common), self |-> Submit(common, self), other |-> other]

(* merge_with: the common values go to the front of both dictionaries, in  *)
(* the order of the other one.  Without common values nothing changes.     *)
MergeWith(self, other) ==
  LET common == Common(self, other)
  IN [len |-> Len(common),
      self |-> IF common = << >> THEN self ELSE Submit(common, self),
      other |-> IF common = << >> THEN other ELSE Submit(common, other)]

(* Dictionary::merge_with, for dictionaries of one type.                   *)
MergeDictionaries(self, other) ==
  LET r == MergeWith(self.dictionary, other.dictionary)
  IN [len |-> r.len, self |-> [self EXCEPT !.dictionary = r.self],
      other |-> [other EXCEPT !.dictionary = r.other]]

(* dict_hash_iter: a hash value for each value, in the order of indices.   *)
DictHashIter(dictionary, h) == [i \in DOMAIN dictionary |-> h[dictionary[i]]]

-----------------------------------------------------------------------------
(* In increasing order, equal ones each at a place of its own.             *)
Sorted(s) ==
  [k \in DOMAIN s |->
     CHOOSE x \in ToSet(s) : /\ Cardinality({i \in DOMAIN s : s[i] < x}) < k
                             /\ Cardinality({i \in DOMAIN s : s[i] <= x}) >= k]

(* BottomKSketch.  h is one of the M hash functions of COEFFS applied to   *)
(* hash_to_u64; add_hash keeps the SketchLen smallest hash values, one per *)
(* value of the dictionary, and finish sorts them.                         *)
BottomK(dictionary, h) ==
  LET all == Sorted(DictHashIter(dictionary, h))
  IN SubSeq(all, 1, Min({SketchLen, Len(all)}))

(* Mutant: the values left in the longer sketch are not counted.           *)
WalkStepShort(s, a, b) ==
  IF s.done \/ s.i = Len(a) \/ s.j = Len(b) THEN [s EXCEPT !.done = TRUE]
  ELSE LET x == a[s.i + 1]
           y == b[s.j + 1]
       IN [s EXCEPT !.collected = @ + 1,
                    !.common = IF x = y THEN @ + 1 ELSE @,
                    !.i = IF x <= y THEN @ + 1 ELSE @,
                    !.j = IF y <= x THEN @ + 1 ELSE @]

(* One step of the walk over two sorted sketches a and b.                  *)
WalkStep(s, a, b) ==
  IF s.done THEN s
  ELSE IF s.i = Len(a)
  THEN [s EXCEPT !.collected = Min({SketchLen, @ + Len(b) - s.j}), !.done = TRUE]
  ELSE IF s.j = Len(b)
  THEN [s EXCEPT !.collected = Min({SketchLen, @ + Len(a) - s.i}), !.done = TRUE]
  ELSE LET x == a[s.i + 1]
           y == b[s.j + 1]
       IN [s EXCEPT !.collected = @ + 1,
                    !.common = IF x = y THEN @ + 1 ELSE @,
                    !.i = IF x <= y THEN @ + 1 ELSE @,
                    !.j = IF y <= x THEN @ + 1 ELSE @]

Walk(a, b) ==
  FoldLeft(LAMBDA s, k : WalkStep(s, a, b),
           [i |-> 0, j |-> 0, collected |-> 0, common |-> 0, done |-> FALSE],
           [k \in 1 .. SketchLen |-> k])

(* estimate_jaccard: the mean over the hash functions, as <<num, den>>.    *)
EstimateJaccard(d1, d2, hashes) ==
  LET ws == [i \in DOMAIN hashes |->
               Walk(BottomK(d1, hashes[i]), BottomK(d2, hashes[i]))]
      Plus(q, w) == <<q[1] * w.collected + w.common * q[2], q[2] * w.collected>>
      total == FoldLeft(Plus, <<0, 1>>, ws)
  IN <<total[1], total[2] * Len(hashes)>>

(* q >= r and q < r for fractions with positive denominators.              *)
AtLeast(q, r) == q[1] * r[2] >= r[1] * q[2]
Below(q, r) == ~ AtLeast(q, r)

(* The estimate a bottom-K sketch is meant to give: of the SketchLen       *)
(* smallest hash values of the union, those in both dictionaries.          *)
ReferenceJaccard(d1, d2, h) ==
  LET s1 == {h[v] : v \in ToSet(d1)}
      s2 == {h[v] : v \in ToSet(d2)}
      kept == {x \in s1 \cup s2 :
                 Cardinality({y \in s1 \cup s2 : y < x}) < SketchLen}
  IN <<Cardinality(kept \cap s1 \cap s2), Cardinality(kept)>>
=============================================================================

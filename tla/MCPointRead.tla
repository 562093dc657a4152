---------------------------- MODULE MCPointRead -----------------------------
(***************************************************************************)
(* PointRead on every way to cut up to MaxRows rows into row groups,       *)
(* chunks and encoding units.  A batch without rows may have left an empty *)
(* unit anywhere, and when the last batch filled its row group, finish()   *)
(* adds an empty one, with or without such a unit.                         *)
(***************************************************************************)
EXTENDS PointRead, SequencesExt

CONSTANTS MaxRows, MaxWants

(* The pieces of rows lo .. hi-1 between the cuts, and what each becomes.  *)
Pieces(lo, hi, cuts, Piece(_, _)) ==
  LET ends == SetToSortSeq({x \in cuts : lo < x /\ x < hi} \cup {hi}, <)
  IN [i \in 1 .. Len(ends) |-> Piece(IF i = 1 THEN lo ELSE ends[i - 1], ends[i])]

(* The units of a chunk, with an empty one in front of rows in empties.    *)
UnitsOf(lo, hi, cuts, empties) ==
  FlattenSeq(Pieces(lo, hi, cuts, LAMBDA a, b :
    IF a \in empties
    THEN << [first |-> a, rows |-> 0], [first |-> a, rows |-> b - a] >>
    ELSE << [first |-> a, rows |-> b - a] >>))

FileOf(n, groups, chunks, units, empties) ==
  Pieces(0, n, groups, LAMBDA a, b :
    [first |-> a, rows |-> b - a,
     chunks |-> Pieces(a, b, chunks, LAMBDA x, y :
       [rows |-> y - x, units |-> UnitsOf(x, y, units, empties)])])

(* The row groups finish() may add to a file of n rows.                    *)
LastGroups(n) ==
  {[first |-> n, rows |-> 0, chunks |-> chunks] :
     chunks \in {<< >>, << [rows |-> 0, units |-> << [first |-> n, rows |-> 0] >>] >>}}

FilesOfRows(n) ==
  LET cut == {t \in [1 .. 3 -> SUBSET (1 .. n - 1)] :
                t[1] \subseteq t[2] /\ t[2] \subseteq t[3]}
      full == {FileOf(n, t[1], t[2], t[3], e) :
                 t \in cut, e \in {{}} \cup {{x} : x \in 0 .. n - 1}}
  IN full \cup {Append(f, g0) : f \in full, g0 \in LastGroups(n)}

SmallFiles == UNION {FilesOfRows(n) : n \in 1 .. MaxRows}

(* Sorted row numbers, repeated and past the end of the file included.     *)
SortedWants ==
  {w \in UNION {[1 .. k -> 0 .. MaxRows] : k \in 0 .. MaxWants} :
     \A i \in 1 .. Len(w) - 1 : w[i] <= w[i + 1]}
=============================================================================

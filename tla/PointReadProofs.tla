--------------------------- MODULE PointReadProofs --------------------------
(***************************************************************************)
(* Proofs about finding rows by number, for every file that FileWriter may *)
(* leave, every selection and every range: process_selection names the     *)
(* right rows of the right groups, a point read returns the row asked for, *)
(* and so does a range that lies in one encoding unit.                     *)
(***************************************************************************)
EXTENDS PointRead, WellFoundedInduction, TLAPS

(* process_selection has been through the first m row groups.              *)
Picks == [group : Nat, rows : Seq(Nat)]
PickRight(s) ==
  LET k == s.group
      n == Len(s.rows)
  IN /\ n >= 1
     /\ \E lo \in 1 .. Len(want) :
          /\ Mine(k) = lo .. lo + n - 1
          /\ \A r \in 1 .. n : s.rows[r] = want[lo + r - 1] - file[k].first
SelectedTo(m) ==
  /\ sel \in Seq(Picks)
  /\ \A i \in 1 .. Len(sel) : sel[i].group \in 1 .. m /\ PickRight(sel[i])
  /\ \A i, j \in 1 .. Len(sel) : i < j => sel[i].group < sel[j].group
  /\ \A k \in 1 .. m : Mine(k) # {} => \E i \in 1 .. Len(sel) : sel[i].group = k

(* The wanted rows in front of position at lie before row x, the others    *)
(* do not.                                                                 *)
SplitAt(p, x) ==
  /\ p \in 1 .. Len(want) + 1
  /\ \A k \in 1 .. p - 1 : want[k] < x
  /\ \A k \in p .. Len(want) : want[k] >= x
SelectInv ==
  /\ pc = "select" => /\ g \in 1 .. Len(file) /\ cum = file[g].first
                      /\ SplitAt(at, cum) /\ SelectedTo(g - 1)
  /\ pc = "selected" => SelectedTo(Len(file))

(* Row x of the row group starts the i-th of its chunks, or ends it; the   *)
(* same for the units of a chunk.                                          *)
ChunkStart(i) ==
  IF i <= Len(Chunks) THEN ChunkFirst(Chunks[i]) - file[g].first ELSE file[g].rows
UnitStart(i) ==
  IF i <= Len(Units) THEN Units[i].first - ChunkFirst(Chunks[c]) ELSE Chunks[c].rows

(* The rows asked for lie in one unit; one row always does.                *)
InUnit ==
  \E ch \in 1 .. Len(Chunks) : \E un \in 1 .. Len(Chunks[ch].units) :
    LET unit == Chunks[ch].units[un]
    IN unit.first <= Asked[1] /\ Asked[len] < unit.first + unit.rows
Decoding == {"chunk", "unit", "done", "panicked"}
CallInv ==
  /\ g \in 1 .. Len(file) /\ row \in Nat /\ len \in Nat \ {0} /\ row + len <= file[g].rows
  /\ want # << >> => len = 1 /\ want = <<file[g].first + row>>

(* Nothing has been found yet, and the decoder has not passed the rows; or *)
(* all have been found.                                                    *)
Searching ==
  /\ got = << >> /\ left = len /\ curRow \in Nat /\ curRow <= row
  /\ c \in 1 .. Len(Chunks) + 1 /\ curRow = ChunkStart(c)
InChunk ==
  /\ Searching /\ c <= Len(Chunks) /\ row < curRow + Chunks[c].rows
  /\ part = << >> /\ unitLeft = len /\ cur \in Nat /\ cur <= row - curRow
  /\ u \in 1 .. Len(Units) + 1 /\ cur = UnitStart(u)
DecodeInv ==
  pc \in Decoding =>
    /\ CallInv
    /\ want # << >> \/ InUnit =>
         /\ pc = "chunk" => Searching \/ (got = Asked /\ left = 0)
         /\ pc = "unit" => InChunk
         /\ pc = "done" => got = Asked
         /\ pc # "panicked"

PointInv == file \in Files /\ want \in Wants /\ SelectInv /\ DecodeInv
-----------------------------------------------------------------------------
(* A set of naturals has a smallest element.                               *)
LEMMA SmallestIn ==
  ASSUME NEW S, S \subseteq Nat, S # {}
  PROVE  \E k \in S : \A j \in S : k <= j
<1>1. PICK k \in S : \A j \in S : ~(<<j, k>> \in OpToRel(<, Nat))
  BY NatLessThanWellFounded, WFMin
<1>2. \A j \in S : ~(j < k)
  BY <1>1 DEF OpToRel
<1>3. QED
  BY <1>2

(* Pieces that follow each other, the i-th of b[i] rows from row a[i] on,  *)
(* do not overlap.                                                         *)
LEMMA PiecesOrdered ==
  ASSUME NEW n \in Nat, NEW a, NEW b, \A i \in 1 .. n : a[i] \in Nat /\ b[i] \in Nat,
         \A i \in 1 .. n - 1 : a[i + 1] = a[i] + b[i]
  PROVE  \A i, j \in 1 .. n : i < j => a[i] + b[i] <= a[j]
<1> SUFFICES ASSUME NEW i \in 1 .. n
             PROVE  \A j \in 1 .. n : i < j => a[i] + b[i] <= a[j]
  OBVIOUS
<1> DEFINE S == {j \in 1 .. n : i < j /\ ~(a[i] + b[i] <= a[j])}
<1>1. SUFFICES ASSUME S # {}
               PROVE  FALSE
  OBVIOUS
<1>2. S \subseteq Nat
  OBVIOUS
<1> HIDE DEF S
<1>3. PICK j \in S : \A m \in S : j <= m
  BY <1>1, <1>2, SmallestIn
<1>4. j \in 1 .. n /\ i < j /\ ~(a[i] + b[i] <= a[j])
  BY <1>3 DEF S
<1>5. PICK m \in 1 .. n : m = j - 1
  BY <1>4
<1>6. m \in 1 .. n - 1 /\ m + 1 = j
  BY <1>4, <1>5
<1>7. a[j] = a[m] + b[m]
  BY <1>6
<1>8. CASE m = i
  BY <1>4, <1>7, <1>8
<1>9. CASE m # i
  <2>1. i < m
    BY <1>4, <1>5, <1>9
  <2>2. m \notin S
    BY <1>3, <1>5, <1>4
  <2>3. a[i] + b[i] <= a[m]
    BY <2>1, <2>2 DEF S
  <2>4. a[i] \in Nat /\ b[i] \in Nat /\ a[m] \in Nat /\ b[m] \in Nat
    OBVIOUS
  <2>5. QED
    BY <1>4, <1>7, <2>3, <2>4
<1>10. QED
  BY <1>8, <1>9

LEMMA GroupsOrdered ==
  ASSUME file \in Files
  PROVE  /\ Len(file) \in Nat \ {0} /\ file[1].first = 0
         /\ \A k \in 1 .. Len(file) : file[k].first \in Nat /\ file[k].rows \in Nat
         /\ \A k \in 1 .. Len(file) - 1 : file[k + 1].first = file[k].first + file[k].rows
         /\ \A i, j \in 1 .. Len(file) : i < j => file[i].first + file[i].rows <= file[j].first
<1>1. FileOK(file)
  BY FilesAssumption
<1>2. PICK n \in Nat : n = Len(file)
  BY <1>1 DEF FileOK
<1>3. \A k \in 1 .. n : file[k].first \in Nat /\ file[k].rows \in Nat
  BY <1>1, <1>2 DEF FileOK, GroupOK
<1>4. \A k \in 1 .. n - 1 : file[k + 1].first = file[k].first + file[k].rows
  BY <1>1, <1>2 DEF FileOK
<1> DEFINE a == [k \in 1 .. n |-> file[k].first]
           b == [k \in 1 .. n |-> file[k].rows]
<1>5. \A k \in 1 .. n : a[k] = file[k].first /\ b[k] = file[k].rows
  OBVIOUS
<1>6. \A k \in 1 .. n - 1 : a[k + 1] = a[k] + b[k]
  BY <1>4
<1>7. \A k \in 1 .. n : a[k] \in Nat /\ b[k] \in Nat
  BY <1>3
<1> HIDE DEF a, b
<1>8. \A i, j \in 1 .. n : i < j => a[i] + b[i] <= a[j]
  BY <1>6, <1>7, PiecesOrdered
<1>9. \A i, j \in 1 .. n : i < j => file[i].first + file[i].rows <= file[j].first
  BY <1>5, <1>8
<1>10. QED
  BY <1>1, <1>2, <1>3, <1>4, <1>9 DEF FileOK

LEMMA ChunksOrdered ==
  ASSUME file \in Files, g \in 1 .. Len(file)
  PROVE  /\ Len(Chunks) \in Nat /\ file[g].first \in Nat /\ file[g].rows \in Nat
         /\ \A i \in 1 .. Len(Chunks) : ChunkFirst(Chunks[i]) \in Nat /\ Chunks[i].rows \in Nat
         /\ \A i \in 1 .. Len(Chunks) - 1 :
              ChunkFirst(Chunks[i + 1]) = ChunkFirst(Chunks[i]) + Chunks[i].rows
         /\ \A i, j \in 1 .. Len(Chunks) :
              i < j => ChunkFirst(Chunks[i]) + Chunks[i].rows <= ChunkFirst(Chunks[j])
         /\ Len(Chunks) = 0 => file[g].rows = 0
         /\ Len(Chunks) > 0 =>
              LET n == Len(Chunks)
              IN /\ ChunkFirst(Chunks[1]) = file[g].first
                 /\ ChunkFirst(Chunks[n]) + Chunks[n].rows = file[g].first + file[g].rows
<1>1. GroupOK(file[g])
  BY FilesAssumption DEF FileOK
<1>2. PICK n \in Nat : n = Len(Chunks)
  BY <1>1 DEF GroupOK, Chunks
<1>3. \A i \in 1 .. n : ChunkOK(Chunks[i])
  BY <1>1, <1>2 DEF GroupOK, Chunks
<1>4. \A i \in 1 .. n : ChunkFirst(Chunks[i]) \in Nat /\ Chunks[i].rows \in Nat
  BY <1>3 DEF ChunkOK, ChunkFirst
<1>5. \A i \in 1 .. n - 1 : ChunkFirst(Chunks[i + 1]) = ChunkFirst(Chunks[i]) + Chunks[i].rows
  BY <1>1, <1>2 DEF GroupOK, Chunks
<1> DEFINE a == [i \in 1 .. n |-> ChunkFirst(Chunks[i])]
           b == [i \in 1 .. n |-> Chunks[i].rows]
<1>6. \A i \in 1 .. n : a[i] = ChunkFirst(Chunks[i]) /\ b[i] = Chunks[i].rows
  OBVIOUS
<1>7. \A i \in 1 .. n - 1 : a[i + 1] = a[i] + b[i]
  BY <1>5
<1>8. \A i \in 1 .. n : a[i] \in Nat /\ b[i] \in Nat
  BY <1>4
<1> HIDE DEF a, b
<1>9. \A i, j \in 1 .. n : i < j => a[i] + b[i] <= a[j]
  BY <1>7, <1>8, PiecesOrdered
<1>10. \A i, j \in 1 .. n : i < j => ChunkFirst(Chunks[i]) + Chunks[i].rows <= ChunkFirst(Chunks[j])
  BY <1>6, <1>9
<1>11. /\ n = 0 => file[g].rows = 0
       /\ n > 0 => /\ ChunkFirst(Chunks[1]) = file[g].first
                   /\ ChunkFirst(Chunks[n]) + Chunks[n].rows = file[g].first + file[g].rows
  BY <1>1, <1>2 DEF GroupOK, Chunks
<1>12. file[g].first \in Nat /\ file[g].rows \in Nat
  BY <1>1 DEF GroupOK
<1>13. QED
  BY <1>2, <1>4, <1>5, <1>10, <1>11, <1>12

LEMMA UnitsOrdered ==
  ASSUME file \in Files, g \in 1 .. Len(file), NEW x \in 1 .. Len(Chunks)
  PROVE  LET us == Chunks[x].units
             n == Len(us)
         IN /\ n \in Nat \ {0}
            /\ \A i \in 1 .. n : us[i].first \in Nat /\ us[i].rows \in Nat
            /\ \A i \in 1 .. n - 1 : us[i + 1].first = us[i].first + us[i].rows
            /\ \A i, j \in 1 .. n : i < j => us[i].first + us[i].rows <= us[j].first
            /\ us[n].first + us[n].rows = ChunkFirst(Chunks[x]) + Chunks[x].rows
            /\ us[1].first = ChunkFirst(Chunks[x])
<1> DEFINE us == Chunks[x].units
<1>1. ChunkOK(Chunks[x])
  BY FilesAssumption DEF FileOK, GroupOK, Chunks
<1>2. /\ Len(us) \in Nat \ {0}
      /\ \A i \in 1 .. Len(us) : us[i].first \in Nat /\ us[i].rows \in Nat
      /\ \A i \in 1 .. Len(us) - 1 : us[i + 1].first = us[i].first + us[i].rows
      /\ us[Len(us)].first + us[Len(us)].rows = ChunkFirst(Chunks[x]) + Chunks[x].rows
      /\ us[1].first = ChunkFirst(Chunks[x])
  BY <1>1 DEF ChunkOK, ChunkFirst
<1> HIDE DEF us
<1>3. PICK n \in Nat : n = Len(us)
  BY <1>2
<1> DEFINE a == [i \in 1 .. n |-> us[i].first]
           b == [i \in 1 .. n |-> us[i].rows]
<1>4. \A i \in 1 .. n : a[i] = us[i].first /\ b[i] = us[i].rows
  OBVIOUS
<1>5. \A i \in 1 .. n - 1 : a[i + 1] = a[i] + b[i]
  BY <1>2, <1>3
<1>6. \A i \in 1 .. n : a[i] \in Nat /\ b[i] \in Nat
  BY <1>2, <1>3
<1> HIDE DEF a, b
<1>7. \A i, j \in 1 .. n : i < j => a[i] + b[i] <= a[j]
  BY <1>5, <1>6, PiecesOrdered
<1>8. \A i, j \in 1 .. Len(us) : i < j => us[i].first + us[i].rows <= us[j].first
  BY <1>3, <1>4, <1>7
<1>9. QED
  BY <1>2, <1>8 DEF us

(* Where the while loops over the sorted row numbers stop.                 *)
LEMMA PastBelowIs ==
  ASSUME want \in Wants, NEW from \in 1 .. Len(want) + 1, NEW x \in Nat,
         \A k \in 1 .. from - 1 : want[k] < x
  PROVE  from <= PastBelow(from, x) /\ SplitAt(PastBelow(from, x), x)
<1>1. /\ Len(want) \in Nat /\ \A i \in 1 .. Len(want) : want[i] \in Nat
      /\ \A i, j \in 1 .. Len(want) : i <= j => want[i] <= want[j]
  BY WantsAssumption
<1> DEFINE Stop(p) == /\ \A k \in from .. p - 1 : want[k] < x
                      /\ p <= Len(want) => want[p] >= x
<1>2. \E p \in from .. Len(want) + 1 : Stop(p)
  <2> DEFINE S == {p \in from .. Len(want) : want[p] >= x}
  <2>1. CASE S = {}
    <3>1. Len(want) + 1 \in from .. Len(want) + 1
      BY <1>1
    <3>2. \A k \in from .. Len(want) : want[k] < x
      BY <1>1, <2>1
    <3>3. Stop(Len(want) + 1)
      BY <1>1, <3>2
    <3>4. QED
      BY <3>1, <3>3
  <2>2. CASE S # {}
    <3>1. S \subseteq Nat
      BY <1>1
    <3>2. PICK p \in S : \A k \in S : p <= k
      BY <2>2, <3>1, SmallestIn
    <3>3. p \in from .. Len(want) + 1 /\ want[p] >= x
      BY <1>1, <3>2
    <3>4. ASSUME NEW k \in from .. p - 1
          PROVE  want[k] < x
      BY <1>1, <3>2, <3>4
    <3>5. QED
      BY <3>3, <3>4
  <2>3. QED
    BY <2>1, <2>2
<1>3. PICK p \in from .. Len(want) + 1 : p = PastBelow(from, x) /\ Stop(p)
  BY <1>2 DEF PastBelow
<1>4. \A k \in 1 .. p - 1 : want[k] < x
  BY <1>1, <1>3
<1>5. ASSUME NEW k \in p .. Len(want)
      PROVE  want[k] >= x
  <2>1. want[p] >= x /\ want[p] <= want[k] /\ want[p] \in Nat /\ want[k] \in Nat
    BY <1>1, <1>3
  <2>2. QED
    BY <2>1
<1>6. p \in 1 .. Len(want) + 1 /\ from <= p
  BY <1>1, <1>3
<1>7. QED
  BY <1>3, <1>4, <1>5, <1>6 DEF SplitAt
-----------------------------------------------------------------------------
(* process_selection.                                                      *)
LEMMA SelectsGroup ==
  ASSUME PointInv, SelectGroup
  PROVE  PointInv'
<1> DEFINE lo == PastBelow(at, cum)
           hi == PastBelow(lo, cum + file[g].rows)
           rs == [k \in 1 .. hi - lo |-> want[lo + k - 1] - cum]
           new == [group |-> g, rows |-> rs]
<1>1. /\ file \in Files /\ want \in Wants /\ file' = file /\ want' = want /\ pc = "select"
      /\ g \in 1 .. Len(file) /\ cum = file[g].first /\ SplitAt(at, cum) /\ SelectedTo(g - 1)
  BY DEF PointInv, SelectInv, SelectGroup
<1>2. /\ Len(file) \in Nat
      /\ \A k \in 1 .. Len(file) : file[k].first \in Nat /\ file[k].rows \in Nat
      /\ \A k \in 1 .. Len(file) - 1 : file[k + 1].first = file[k].first + file[k].rows
      /\ \A i, j \in 1 .. Len(file) : i < j => file[i].first + file[i].rows <= file[j].first
  BY <1>1, GroupsOrdered
<1>3. Len(want) \in Nat /\ \A i \in 1 .. Len(want) : want[i] \in Nat
  BY <1>1, WantsAssumption
<1>4. PICK end \in Nat : end = cum + file[g].rows /\ cum <= end /\ cum \in Nat
  BY <1>1, <1>2
<1>5. SplitAt(lo, cum)
  BY <1>1, <1>4, PastBelowIs DEF SplitAt
<1>6. lo <= hi /\ SplitAt(hi, end)
  <2>1. lo \in 1 .. Len(want) + 1 /\ \A k \in 1 .. lo - 1 : want[k] < cum
    BY <1>5 DEF SplitAt
  <2>2. \A k \in 1 .. lo - 1 : want[k] < end
    BY <1>3, <1>4, <2>1
  <2>3. QED
    BY <1>1, <1>4, <2>1, <2>2, PastBelowIs
<1>7. /\ sel' = (IF hi = lo THEN sel ELSE Append(sel, new))
      /\ cum' = end /\ at' = hi
      /\ \/ (hi > Len(want) \/ g = Len(file)) /\ pc' = "selected"
         \/ ~(hi > Len(want) \/ g = Len(file)) /\ pc' = "select" /\ g' = g + 1
  BY <1>1, <1>4 DEF SelectGroup, Counted
<1> HIDE DEF lo, hi
<1>8. lo \in 1 .. Len(want) + 1 /\ hi \in 1 .. Len(want) + 1 /\ hi - lo \in Nat
  BY <1>3, <1>5, <1>6 DEF SplitAt
<1>9. Mine(g) = lo .. hi - 1
  <2>1. Mine(g) = {p \in 1 .. Len(want) : cum <= want[p] /\ want[p] < end}
    BY <1>1, <1>4 DEF Mine
  <2>2. ASSUME NEW p \in 1 .. Len(want)
        PROVE  cum <= want[p] /\ want[p] < end <=> p \in lo .. hi - 1
    <3>1. /\ p \in 1 .. lo - 1 => want[p] < cum
          /\ p \in lo .. Len(want) => want[p] >= cum
          /\ p \in 1 .. hi - 1 => want[p] < end
          /\ p \in hi .. Len(want) => want[p] >= end
      BY <1>5, <1>6 DEF SplitAt
    <3>2. QED
      BY <1>3, <1>4, <1>8, <3>1
  <2>3. \A p \in lo .. hi - 1 : p \in 1 .. Len(want)
    BY <1>3, <1>8
  <2>4. QED
    BY <2>1, <2>2, <2>3
<1>10. ASSUME hi # lo
       PROVE  new \in Picks /\ new.group = g /\ PickRight(new)
  <2>1. \A k \in 1 .. hi - lo : want[lo + k - 1] - cum \in Nat
    <3>1. ASSUME NEW k \in 1 .. hi - lo
          PROVE  want[lo + k - 1] - cum \in Nat
      <4>1. PICK p \in 1 .. Len(want) : p = lo + k - 1 /\ p >= lo
        BY <1>3, <1>8
      <4>2. want[p] >= cum /\ want[p] \in Nat
        BY <1>3, <1>5, <4>1 DEF SplitAt
      <4>3. QED
        BY <1>4, <4>1, <4>2
    <3>2. QED
      BY <3>1
  <2>2. rs \in Seq(Nat) /\ Len(rs) = hi - lo
    BY <1>8, <2>1
  <2>3. \A k \in 1 .. hi - lo : rs[k] = want[lo + k - 1] - cum
    OBVIOUS
  <2> HIDE DEF rs
  <2>4. g \in Nat
    BY <1>1, <1>2
  <2>5. new \in Picks /\ new.group = g /\ new.rows = rs
    BY <2>2, <2>4 DEF Picks
  <2> HIDE DEF new
  <2>6. hi - lo >= 1 /\ lo \in 1 .. Len(want) /\ lo + (hi - lo) - 1 = hi - 1
    BY <1>3, <1>6, <1>8, <1>10
  <2>7. Mine(new.group) = lo .. lo + Len(new.rows) - 1
    BY <1>9, <2>2, <2>5, <2>6
  <2>8. \A r \in 1 .. Len(new.rows) : new.rows[r] = want[lo + r - 1] - file[new.group].first
    BY <1>1, <2>2, <2>3, <2>5
  <2>9. Len(new.rows) >= 1
    BY <2>2, <2>5, <2>6
  <2>10. QED
    BY <2>5, <2>6, <2>7, <2>8, <2>9 DEF PickRight
<1> HIDE DEF new, rs
<1>11. /\ \A k : Mine(k)' = Mine(k)
       /\ \A s : PickRight(s)' = PickRight(s)
  BY <1>1 DEF Mine, PickRight
<1>12. /\ sel \in Seq(Picks)
       /\ \A i \in 1 .. Len(sel) : sel[i].group \in 1 .. g - 1 /\ PickRight(sel[i])
       /\ \A i, j \in 1 .. Len(sel) : i < j => sel[i].group < sel[j].group
       /\ \A k \in 1 .. g - 1 : Mine(k) # {} => \E i \in 1 .. Len(sel) : sel[i].group = k
  BY <1>1 DEF SelectedTo
<1>13. /\ sel' \in Seq(Picks)
       /\ \A i \in 1 .. Len(sel') : sel'[i].group \in 1 .. g /\ PickRight(sel'[i])
       /\ \A i, j \in 1 .. Len(sel') : i < j => sel'[i].group < sel'[j].group
       /\ \A k \in 1 .. g : Mine(k) # {} => \E i \in 1 .. Len(sel') : sel'[i].group = k
  <2>1. g \in Nat /\ g >= 1 /\ \A k \in 1 .. g : k \in 1 .. g - 1 \/ k = g
    BY <1>1, <1>2
  <2>2. CASE hi = lo
    <3>1. Mine(g) = {}
      BY <1>8, <1>9, <2>2
    <3>2. sel' = sel
      BY <1>7, <2>2
    <3>3. \A i \in 1 .. Len(sel) : sel[i].group \in 1 .. g
      BY <1>12, <2>1
    <3>4. QED
      BY <1>12, <2>1, <3>1, <3>2, <3>3
  <2>3. CASE hi # lo
    <3>1. new \in Picks /\ new.group = g /\ PickRight(new) /\ sel' = Append(sel, new)
      BY <1>7, <1>10, <2>3
    <3>2. PICK n \in Nat : n = Len(sel)
      BY <1>12
    <3>3. /\ sel' \in Seq(Picks) /\ Len(sel') = n + 1 /\ sel'[n + 1] = new
          /\ \A i \in 1 .. n : sel'[i] = sel[i]
      BY <1>12, <3>1, <3>2
    <3>4. \A i \in 1 .. n + 1 : i \in 1 .. n \/ i = n + 1
      OBVIOUS
    <3>5. \A i \in 1 .. n + 1 : sel'[i].group \in 1 .. g /\ PickRight(sel'[i])
      BY <1>12, <2>1, <3>1, <3>2, <3>3, <3>4
    <3>6. ASSUME NEW i \in 1 .. n + 1, NEW j \in 1 .. n + 1, i < j
          PROVE  sel'[i].group < sel'[j].group
      <4>1. i \in 1 .. n
        BY <3>6
      <4>2. CASE j \in 1 .. n
        BY <1>12, <3>2, <3>3, <3>6, <4>1, <4>2
      <4>3. CASE j = n + 1
        <5>1. sel[i].group \in 1 .. g - 1
          BY <1>12, <3>2, <4>1
        <5>2. QED
          BY <2>1, <3>1, <3>3, <4>1, <4>3, <5>1
      <4>4. QED
        BY <3>4, <4>2, <4>3
    <3>7. ASSUME NEW k \in 1 .. g, Mine(k) # {}
          PROVE  \E i \in 1 .. n + 1 : sel'[i].group = k
      <4>1. CASE k = g
        <5>1. n + 1 \in 1 .. n + 1
          OBVIOUS
        <5>2. QED
          BY <3>1, <3>3, <4>1, <5>1
      <4>2. CASE k \in 1 .. g - 1
        <5>1. PICK i \in 1 .. n : sel[i].group = k
          BY <1>12, <3>2, <3>7, <4>2
        <5>2. i \in 1 .. n + 1 /\ sel'[i].group = k
          BY <3>3, <5>1
        <5>3. QED
          BY <5>2
      <4>3. QED
        BY <2>1, <4>1, <4>2
    <3>8. QED
      BY <3>3, <3>5, <3>6, <3>7
  <2>4. QED
    BY <2>2, <2>3
<1>14. CASE pc' = "selected"
  <2>1. hi > Len(want) \/ g = Len(file)
    BY <1>7, <1>14
  <2>2. ASSUME NEW k \in 1 .. Len(file), k > g
        PROVE  Mine(k) = {}
    <3>1. hi > Len(want)
      BY <1>1, <1>2, <2>1, <2>2
    <3>2. \A p \in 1 .. Len(want) : want[p] < end
      BY <1>3, <1>6, <1>8, <3>1 DEF SplitAt
    <3>3. end <= file[k].first
      BY <1>1, <1>2, <1>4, <2>2
    <3>4. QED
      BY <1>2, <1>3, <1>4, <3>2, <3>3 DEF Mine
  <2>3. SelectedTo(Len(file))'
    <3>1. \A i \in 1 .. Len(sel') : sel'[i].group \in 1 .. Len(file)
      BY <1>1, <1>2, <1>13
    <3>2. \A k \in 1 .. Len(file) : k \in 1 .. g \/ k > g
      BY <1>1, <1>2
    <3>3. \A k \in 1 .. Len(file) : Mine(k) # {} => \E i \in 1 .. Len(sel') : sel'[i].group = k
      BY <1>13, <2>2, <3>2
    <3>4. QED
      BY <1>1, <1>11, <1>13, <3>1, <3>3 DEF SelectedTo
  <2>4. SelectInv' /\ DecodeInv'
    BY <1>14, <2>3 DEF SelectInv, DecodeInv, Decoding
  <2>5. QED
    BY <1>1, <2>4 DEF PointInv
<1>15. CASE pc' # "selected"
  <2>1. pc' = "select" /\ g' = g + 1 /\ g # Len(file)
    BY <1>7, <1>15
  <2>2. g' \in 1 .. Len(file') /\ cum' = file'[g'].first
    BY <1>1, <1>2, <1>4, <1>7, <2>1
  <2>3. SplitAt(at, cum)'
    BY <1>1, <1>6, <1>7 DEF SplitAt
  <2>4. g' - 1 = g
    BY <1>1, <1>2, <2>1
  <2>5. SelectedTo(g - 1)'
    BY <1>11, <1>13, <2>4 DEF SelectedTo
  <2>6. SelectInv' /\ DecodeInv'
    BY <2>1, <2>2, <2>3, <2>5 DEF SelectInv, DecodeInv, Decoding
  <2>7. QED
    BY <1>1, <2>6 DEF PointInv
<1>16. QED
  BY <1>14, <1>15
-----------------------------------------------------------------------------
(* decode_row_at of a column is called.                                    *)
LEMMA Starts ==
  ASSUME file \in Files, want \in Wants, UNCHANGED <<file, want>>,
         NEW k \in 1 .. Len(file), NEW r \in Nat, NEW n \in Nat \ {0}, r + n <= file[k].rows,
         want # << >> => n = 1 /\ want = <<file[k].first + r>>, Start(k, r, n)
  PROVE  PointInv'
<1>1. /\ pc' = "chunk" /\ g' = k /\ row' = r /\ len' = n /\ c' = 1 /\ curRow' = 0
      /\ left' = n /\ got' = << >>
  BY DEF Start
<1>2. GroupOK(file[k])
  BY FilesAssumption DEF FileOK
<1>3. Chunks' = file[k].chunks
  BY <1>1 DEF Chunks
<1>4. /\ Len(file[k].chunks) \in Nat /\ file[k].first \in Nat
      /\ IF Len(file[k].chunks) = 0 THEN file[k].rows = 0
         ELSE ChunkFirst(file[k].chunks[1]) = file[k].first
  BY <1>2 DEF GroupOK
<1>5. 0 = IF 1 <= Len(file[k].chunks) THEN ChunkFirst(file[k].chunks[1]) - file[k].first
          ELSE file[k].rows
  BY <1>4
<1>6. curRow' = ChunkStart(c)' /\ c' \in 1 .. Len(Chunks') + 1
  BY <1>1, <1>3, <1>4, <1>5 DEF ChunkStart
<1>7. Searching'
  BY <1>1, <1>6 DEF Searching
<1>8. CallInv'
  BY <1>1 DEF CallInv
<1>9. SelectInv' /\ DecodeInv'
  BY <1>1, <1>7, <1>8 DEF SelectInv, DecodeInv
<1>10. QED
  BY <1>9 DEF PointInv

LEMMA ReadsSelected ==
  ASSUME PointInv, ReadSelected
  PROVE  PointInv'
<1>1. /\ file \in Files /\ want \in Wants /\ UNCHANGED <<file, want>> /\ pc = "selected"
      /\ Len(want) = 1 /\ sel # << >> /\ Start(sel[1].group, sel[1].rows[1], 1)
      /\ SelectedTo(Len(file))
  BY DEF PointInv, SelectInv, ReadSelected
<1>2. want \in Seq(Nat) /\ want[1] \in Nat
  <2>1. want \in Seq(Nat) /\ 1 \in 1 .. Len(want)
    BY <1>1, WantsAssumption
  <2>2. QED
    BY <2>1
<1>3. 1 \in 1 .. Len(sel)
  BY <1>1 DEF SelectedTo
<1>4. PICK k \in 1 .. Len(file) : k = sel[1].group
  BY <1>1, <1>3 DEF SelectedTo
<1>5. sel[1] \in Picks /\ PickRight(sel[1])
  BY <1>1, <1>3 DEF SelectedTo
<1>6. PICK n \in Nat : n = Len(sel[1].rows) /\ n >= 1
  <2>1. sel[1].rows \in Seq(Nat)
    BY <1>5 DEF Picks
  <2>2. QED
    BY <1>5, <2>1 DEF PickRight
<1>7. PICK lo \in 1 .. 1 : /\ Mine(k) = lo .. lo + n - 1
                           /\ sel[1].rows[1] = want[lo + 1 - 1] - file[k].first
  BY <1>1, <1>4, <1>5, <1>6 DEF PickRight
<1>8. 1 \in Mine(k) /\ sel[1].rows[1] = want[1] - file[k].first
  BY <1>6, <1>7
<1>9. file[k].first \in Nat /\ file[k].rows \in Nat
  BY <1>1, GroupsOrdered
<1>10. PICK r \in Nat : /\ r = sel[1].rows[1] /\ r + 1 <= file[k].rows
                        /\ want[1] = file[k].first + r
  <2>1. file[k].first <= want[1] /\ want[1] < file[k].first + file[k].rows
    BY <1>8 DEF Mine
  <2>2. PICK a \in Nat, b \in Nat, w \in Nat :
          a = file[k].first /\ b = file[k].rows /\ w = want[1]
    BY <1>2, <1>9
  <2>3. w - a \in Nat /\ (w - a) + 1 <= b /\ w = a + (w - a)
    <3>1. a <= w /\ w < a + b
      BY <2>1, <2>2
    <3>2. QED
      BY <3>1
  <2>4. PICK d \in Nat : d = w - a
    BY <2>3
  <2>5. d = sel[1].rows[1]
    BY <1>8, <2>2, <2>4
  <2>6. d + 1 <= file[k].rows /\ want[1] = file[k].first + d
    BY <2>2, <2>3, <2>4
  <2>7. QED
    BY <2>5, <2>6
<1>11. want = <<file[k].first + r>>
  BY <1>1, <1>2, <1>10
<1>12. Start(k, r, 1) /\ 1 \in Nat \ {0}
  BY <1>1, <1>4, <1>10
<1>13. QED
  BY <1>1, <1>10, <1>11, <1>12, Starts

LEMMA ReadsRange ==
  ASSUME PointInv, NEW k \in 1 .. Len(file), NEW n \in RangeLens,
         NEW r \in 0 .. file[k].rows - 1, ReadRange(k, r, n)
  PROVE  PointInv'
<1>1. /\ file \in Files /\ want \in Wants /\ UNCHANGED <<file, want>> /\ want = << >>
      /\ r + n <= file[k].rows /\ Start(k, r, n)
  BY DEF PointInv, ReadRange
<1>2. n \in Nat \ {0} /\ r \in Nat
  BY RangesAssumption
<1>3. QED
  BY <1>1, <1>2, Starts

(* The call stays the same while it runs.                                  *)
LEMMA CallStays ==
  ASSUME UNCHANGED <<file, want, g, row, len>>
  PROVE  /\ CallInv' = CallInv /\ InUnit' = InUnit /\ Asked' = Asked /\ Chunks' = Chunks
<1>1. Chunks' = Chunks
  BY DEF Chunks
<1>2. Asked' = Asked
  BY DEF Asked, Rows
<1>3. InUnit' = InUnit
  BY <1>1, <1>2 DEF InUnit
<1>4. CallInv' = CallInv
  BY DEF CallInv
<1>5. QED
  BY <1>1, <1>2, <1>3, <1>4

LEMMA DecodeStep ==
  ASSUME PointInv, pc \in Decoding, pc' \in Decoding, UNCHANGED <<file, want, g, row, len>>,
         want # << >> \/ InUnit =>
           /\ pc' = "chunk" => Searching' \/ (got' = Asked /\ left' = 0)
           /\ pc' = "unit" => InChunk'
           /\ pc' = "done" => got' = Asked
           /\ pc' # "panicked"
  PROVE  PointInv'
<1>1. CallInv' /\ InUnit' = InUnit /\ Asked' = Asked
  BY CallStays DEF PointInv, DecodeInv
<1>2. DecodeInv'
  BY <1>1 DEF DecodeInv
<1>3. SelectInv'
  BY DEF SelectInv, Decoding
<1>4. QED
  BY <1>2, <1>3 DEF PointInv

(* The rows asked for.                                                     *)
LEMMA AskedIs ==
  ASSUME file \in Files, CallInv
  PROVE  /\ file[g].first \in Nat /\ row \in Nat /\ len \in Nat \ {0}
         /\ Asked[1] = file[g].first + row /\ Asked[len] = file[g].first + row + len - 1
<1>1. g \in 1 .. Len(file) /\ row \in Nat /\ len \in Nat \ {0}
  BY DEF CallInv
<1>2. file[g].first \in Nat
  BY <1>1, GroupsOrdered
<1>3. PICK f \in Nat : f = file[g].first
  BY <1>2
<1>4. Asked = [i \in 1 .. len |-> f + row + i - 1]
  BY <1>3 DEF Asked, Rows
<1>5. 1 \in 1 .. len /\ len \in 1 .. len
  BY <1>1
<1>6. Asked[1] = f + row + 1 - 1 /\ Asked[len] = f + row + len - 1
  BY <1>4, <1>5
<1>7. QED
  BY <1>1, <1>3, <1>6

(* A unit lies in its chunk.                                               *)
LEMMA UnitInChunk ==
  ASSUME file \in Files, g \in 1 .. Len(file), NEW x \in 1 .. Len(Chunks),
         NEW y \in 1 .. Len(Chunks[x].units)
  PROVE  LET unit == Chunks[x].units[y]
         IN /\ unit.first \in Nat /\ unit.rows \in Nat
            /\ ChunkFirst(Chunks[x]) <= unit.first
            /\ unit.first + unit.rows <= ChunkFirst(Chunks[x]) + Chunks[x].rows
<1> DEFINE us == Chunks[x].units
<1>1. PICK n \in Nat : n = Len(us) /\ n >= 1
  BY UnitsOrdered
<1>2. /\ \A i \in 1 .. n : us[i].first \in Nat /\ us[i].rows \in Nat
      /\ \A i, j \in 1 .. n : i < j => us[i].first + us[i].rows <= us[j].first
      /\ us[n].first + us[n].rows = ChunkFirst(Chunks[x]) + Chunks[x].rows
      /\ us[1].first = ChunkFirst(Chunks[x])
  BY <1>1, UnitsOrdered
<1> HIDE DEF us
<1>3. y \in 1 .. n /\ 1 \in 1 .. n /\ n \in 1 .. n
  BY <1>1 DEF us
<1>4. us[1].first <= us[y].first
  <2>1. CASE y = 1
    BY <1>2, <1>3, <2>1
  <2>2. CASE y > 1
    BY <1>2, <1>3, <2>2, SMTT(30)
  <2>3. QED
    BY <1>3, <2>1, <2>2
<1>5. us[y].first + us[y].rows <= us[n].first + us[n].rows
  <2>1. CASE y = n
    BY <1>2, <1>3, <2>1
  <2>2. CASE y < n
    <3>1. us[y].first + us[y].rows <= us[n].first
      BY <1>2, <1>3, <2>2
    <3>2. /\ us[y].first \in Nat /\ us[y].rows \in Nat /\ us[n].first \in Nat
          /\ us[n].rows \in Nat
      BY <1>2, <1>3
    <3>3. PICK a \in Nat, b \in Nat : a = us[n].first /\ b = us[n].rows
      BY <3>2
    <3>4. PICK z \in Nat : z = us[y].first + us[y].rows
      BY <3>2
    <3>5. QED
      BY <3>1, <3>3, <3>4, SMTT(30)
  <2>3. QED
    BY <1>3, <2>1, <2>2
<1>6. us[y].first \in Nat /\ us[y].rows \in Nat
  BY <1>2, <1>3
<1>7. QED
  BY <1>2, <1>4, <1>5, <1>6 DEF us

(* The chunk that holds the first row asked for holds all of them, and so  *)
(* does the unit.                                                          *)
LEMMA RangeInChunk ==
  ASSUME file \in Files, CallInv, want # << >> \/ InUnit, NEW x \in 1 .. Len(Chunks),
         NEW r \in Nat, r = file[g].first + row,
         ChunkFirst(Chunks[x]) <= r, r < ChunkFirst(Chunks[x]) + Chunks[x].rows
  PROVE  /\ r + len <= ChunkFirst(Chunks[x]) + Chunks[x].rows
         /\ \A y \in 1 .. Len(Chunks[x].units) :
              LET unit == Chunks[x].units[y]
              IN unit.first <= r /\ r < unit.first + unit.rows => r + len <= unit.first + unit.rows
<1> DEFINE us == Chunks[x].units
<1>1. /\ g \in 1 .. Len(file) /\ row \in Nat /\ len \in Nat \ {0}
      /\ Asked[1] = r /\ Asked[len] = file[g].first + row + len - 1
  BY AskedIs DEF CallInv
<1>2. Asked[len] = r + len - 1
  BY <1>1
<1>3. PICK cf \in Nat, cr \in Nat : cf = ChunkFirst(Chunks[x]) /\ cr = Chunks[x].rows
  BY <1>1, ChunksOrdered
<1>4. cf <= r /\ r < cf + cr
  BY <1>3
<1>5. CASE want # << >>
  <2>1. len = 1
    BY <1>5 DEF CallInv
  <2>2. r + 1 <= cf + cr
    BY <1>4
  <2>3. ASSUME NEW y \in 1 .. Len(us), us[y].first <= r, r < us[y].first + us[y].rows
        PROVE  r + len <= us[y].first + us[y].rows
    <3>1. PICK z \in Nat : z = us[y].first + us[y].rows
      <4>1. us[y].first \in Nat /\ us[y].rows \in Nat
        BY <1>1, UnitInChunk
      <4>2. QED
        BY <4>1
    <3>2. r < z
      BY <2>3, <3>1
    <3>3. r + len <= z
      BY <2>1, <3>2
    <3>4. QED
      BY <3>1, <3>3
  <2>4. QED
    BY <1>3, <2>1, <2>2, <2>3
<1>6. CASE InUnit
  <2>1. PICK ch \in 1 .. Len(Chunks) : \E un \in 1 .. Len(Chunks[ch].units) :
          LET unit == Chunks[ch].units[un]
          IN unit.first <= Asked[1] /\ Asked[len] < unit.first + unit.rows
    BY <1>6 DEF InUnit
  <2>2. PICK un \in 1 .. Len(Chunks[ch].units) :
          /\ Chunks[ch].units[un].first <= r
          /\ r + len - 1 < Chunks[ch].units[un].first + Chunks[ch].units[un].rows
    BY <1>1, <1>2, <2>1
  <2>3. PICK uf \in Nat, ur \in Nat :
          uf = Chunks[ch].units[un].first /\ ur = Chunks[ch].units[un].rows
    BY <1>1, UnitInChunk
  <2>4. PICK hf \in Nat, hr \in Nat : hf = ChunkFirst(Chunks[ch]) /\ hr = Chunks[ch].rows
    BY <1>1, ChunksOrdered
  <2>5. hf <= uf /\ uf + ur <= hf + hr
    BY <1>1, <2>3, <2>4, UnitInChunk
  <2>6. uf <= r /\ r + len - 1 < uf + ur
    BY <2>2, <2>3
  <2>7. /\ ch < x => hf + hr <= cf
        /\ x < ch => cf + cr <= hf
    BY <1>1, <1>3, <2>4, ChunksOrdered
  <2>8. ch = x
    <3>1. ~(ch < x)
      BY <1>1, <1>4, <2>5, <2>6, <2>7
    <3>2. ~(x < ch)
      BY <1>1, <1>4, <2>5, <2>6, <2>7
    <3>3. Len(Chunks) \in Nat
      BY <1>1, ChunksOrdered
    <3>4. QED
      BY <3>1, <3>2, <3>3
  <2>9. hf = cf /\ hr = cr
    BY <1>3, <2>4, <2>8
  <2>10. r + len <= cf + cr
    BY <1>1, <2>5, <2>6, <2>9
  <2>11. ASSUME NEW y \in 1 .. Len(us), us[y].first <= r, r < us[y].first + us[y].rows
         PROVE  r + len <= us[y].first + us[y].rows
    <3>1. PICK yf \in Nat, yr \in Nat : yf = us[y].first /\ yr = us[y].rows
      BY <1>1, UnitInChunk
    <3>2. yf <= r /\ r < yf + yr
      BY <2>11, <3>1
    <3>3. Len(us) \in Nat /\ un \in 1 .. Len(us) /\ uf = us[un].first /\ ur = us[un].rows
      BY <1>1, <2>3, <2>8, UnitsOrdered
    <3>4. \A i, j \in 1 .. Len(us) : i < j => us[i].first + us[i].rows <= us[j].first
      BY <1>1, UnitsOrdered
    <3> HIDE DEF us
    <3>5. /\ un < y => uf + ur <= yf
          /\ y < un => yf + yr <= uf
      <4>1. un < y => us[un].first + us[un].rows <= us[y].first
        BY <3>3, <3>4
      <4>2. y < un => us[y].first + us[y].rows <= us[un].first
        BY <3>3, <3>4
      <4>3. QED
        BY <3>1, <3>3, <4>1, <4>2
    <3>6. un = y
      <4>1. ~(un < y)
        BY <1>1, <2>6, <3>2, <3>5, SMTT(30)
      <4>2. ~(y < un)
        BY <1>1, <2>6, <3>2, <3>5
      <4>3. QED
        BY <3>3, <4>1, <4>2
    <3>7. yf = uf /\ yr = ur
      BY <3>1, <3>3, <3>6
    <3>8. r + len <= yf + yr
      <4>1. len \in Nat
        BY <1>1
      <4>2. r + len <= uf + ur
        BY <2>6, <4>1, SMTT(30)
      <4>3. QED
        BY <3>7, <4>2
    <3>9. QED
      BY <3>1, <3>8
  <2>12. QED
    BY <1>3, <2>10, <2>11
<1>7. QED
  BY <1>5, <1>6

LEMMA SkipsChunk ==
  ASSUME PointInv, SkipChunk
  PROVE  PointInv'
<1>1. /\ pc = "chunk" /\ pc' = "chunk" /\ c <= Len(Chunks) /\ left > 0
      /\ curRow + Chunks[c].rows <= row /\ curRow' = curRow + Chunks[c].rows /\ c' = c + 1
      /\ UNCHANGED <<file, want, g, row, len, left, got>>
  BY DEF SkipChunk, ChunkBefore
<1>2. file \in Files /\ CallInv /\ g \in 1 .. Len(file)
  BY <1>1 DEF PointInv, DecodeInv, Decoding, CallInv
<1>3. ASSUME want # << >> \/ InUnit
      PROVE  Searching'
  <2>1. Searching
    BY <1>1, <1>3 DEF PointInv, DecodeInv, Decoding
  <2>2. c \in 1 .. Len(Chunks) /\ Len(Chunks) \in Nat /\ Chunks' = Chunks
    BY <1>1, <1>2, <2>1, ChunksOrdered, CallStays DEF Searching
  <2>3. PICK f \in Nat, m \in Nat, cf \in Nat, cr \in Nat :
          /\ f = file[g].first /\ m = file[g].rows
          /\ cf = ChunkFirst(Chunks[c]) /\ cr = Chunks[c].rows
    BY <1>2, <2>2, ChunksOrdered
  <2>4. curRow \in Nat /\ curRow = cf - f
    BY <2>1, <2>2, <2>3 DEF Searching, ChunkStart
  <2>5. curRow' \in Nat /\ curRow' <= row' /\ curRow' = (cf + cr) - f
    <3>1. curRow' = curRow + cr /\ curRow + cr <= row /\ row' = row
      BY <1>1, <2>3
    <3>2. QED
      BY <2>4, <3>1
  <2>6. curRow' = ChunkStart(c)'
    <3>1. CASE c + 1 <= Len(Chunks)
      <4>1. c \in 1 .. Len(Chunks) - 1
        BY <2>2, <3>1
      <4>2. ChunkFirst(Chunks[c + 1]) = cf + cr
        BY <1>2, <2>3, <4>1, ChunksOrdered
      <4>3. ChunkStart(c)' = ChunkFirst(Chunks[c + 1]) - f
        BY <1>1, <2>2, <2>3, <3>1 DEF ChunkStart
      <4>4. QED
        BY <2>5, <4>2, <4>3
    <3>2. CASE ~(c + 1 <= Len(Chunks))
      <4>1. c = Len(Chunks) /\ Len(Chunks) > 0
        BY <2>2, <3>2
      <4>2. cf + cr = f + m
        BY <1>2, <2>3, <4>1, ChunksOrdered
      <4>3. ChunkStart(c)' = m
        BY <1>1, <2>2, <2>3, <3>2 DEF ChunkStart
      <4>4. QED
        BY <2>5, <4>2, <4>3
    <3>3. QED
      BY <3>1, <3>2
  <2>7. c' \in 1 .. Len(Chunks') + 1
    BY <1>1, <2>2
  <2>8. QED
    BY <1>1, <2>1, <2>5, <2>6, <2>7 DEF Searching
<1>4. QED
  BY <1>1, <1>3, DecodeStep DEF Decoding

LEMMA OpensChunk ==
  ASSUME PointInv, OpenChunk
  PROVE  PointInv'
<1>1. /\ pc = "chunk" /\ pc' = "unit" /\ c <= Len(Chunks) /\ left > 0
      /\ ~(curRow + Chunks[c].rows <= row)
      /\ unitLeft' = Minimum(Chunks[c].rows - (row - curRow), left)
      /\ u' = 1 /\ cur' = 0 /\ part' = << >>
      /\ UNCHANGED <<file, want, g, row, len, c, curRow, left, got>>
  BY DEF OpenChunk, ChunkBefore
<1>2. file \in Files /\ CallInv /\ g \in 1 .. Len(file) /\ row \in Nat /\ len \in Nat
  BY <1>1 DEF PointInv, DecodeInv, Decoding, CallInv
<1>3. ASSUME want # << >> \/ InUnit
      PROVE  InChunk'
  <2>1. Searching
    BY <1>1, <1>3 DEF PointInv, DecodeInv, Decoding
  <2>2. c \in 1 .. Len(Chunks) /\ Len(Chunks) \in Nat /\ Chunks' = Chunks
    BY <1>1, <1>2, <2>1, ChunksOrdered, CallStays DEF Searching
  <2>3. PICK f \in Nat, cf \in Nat, cr \in Nat :
          f = file[g].first /\ cf = ChunkFirst(Chunks[c]) /\ cr = Chunks[c].rows
    BY <1>2, <2>2, ChunksOrdered
  <2>4. curRow \in Nat /\ curRow = cf - f /\ curRow <= row /\ left = len
    BY <2>1, <2>2, <2>3 DEF Searching, ChunkStart
  <2>5. ~(curRow + cr <= row) /\ unitLeft' = Minimum(cr - (row - curRow), left)
    BY <1>1, <2>3
  <2>6. PICK r \in Nat : r = f + row
    BY <1>2
  <2>7. cf <= r /\ r < cf + cr
    BY <1>2, <2>4, <2>5, <2>6
  <2>8. r + len <= cf + cr
    BY <1>2, <1>3, <2>2, <2>3, <2>6, <2>7, RangeInChunk
  <2>9. unitLeft' = len
    <3>1. len <= cr - (row - curRow)
      BY <1>2, <2>4, <2>6, <2>8
    <3>2. QED
      BY <1>2, <2>4, <2>5, <3>1 DEF Minimum
  <2>10. Len(Units) \in Nat \ {0} /\ Units' = Units /\ Units[1].first = cf
    BY <1>1, <1>2, <2>2, <2>3, UnitsOrdered DEF Units
  <2>11. cur' = UnitStart(u)' /\ u' \in 1 .. Len(Units') + 1
    BY <1>1, <2>2, <2>3, <2>10 DEF UnitStart
  <2>12. Searching'
    BY <1>1, <2>1, <2>2 DEF Searching, ChunkStart
  <2>13. row' < curRow' + Chunks'[c'].rows
    <3>1. row < curRow + cr
      BY <1>2, <2>4, <2>5
    <3>2. QED
      BY <1>1, <2>2, <2>3, <3>1
  <2>14. cur' \in Nat /\ cur' <= row' - curRow'
    BY <1>1, <1>2, <2>4
  <2>15. QED
    BY <1>1, <2>2, <2>9, <2>11, <2>12, <2>13, <2>14 DEF InChunk
<1>4. QED
  BY <1>1, <1>3, DecodeStep DEF Decoding

LEMMA DecodesAll ==
  ASSUME PointInv, DecodeDone
  PROVE  PointInv'
<1>1. /\ pc = "chunk" /\ pc' = "done" /\ (c > Len(Chunks) \/ left = 0)
      /\ UNCHANGED <<file, want, g, row, len, c, curRow, left, got>>
  BY DEF DecodeDone, colVars
<1>2. /\ file \in Files /\ CallInv /\ g \in 1 .. Len(file) /\ row \in Nat /\ len \in Nat \ {0}
      /\ row + len <= file[g].rows
  BY <1>1 DEF PointInv, DecodeInv, Decoding, CallInv
<1>3. ASSUME want # << >> \/ InUnit
      PROVE  got = Asked
  <2>1. Searching \/ got = Asked
    BY <1>1, <1>3 DEF PointInv, DecodeInv, Decoding
  <2>2. ASSUME Searching
        PROVE  FALSE
    <3>1. Len(Chunks) \in Nat /\ c \in 1 .. Len(Chunks) + 1 /\ left = len
      BY <1>2, <2>2, ChunksOrdered DEF Searching
    <3>2. c > Len(Chunks)
      BY <1>1, <1>2, <3>1
    <3>3. curRow = file[g].rows /\ curRow \in Nat /\ curRow <= row
      BY <2>2, <3>1, <3>2 DEF Searching, ChunkStart
    <3>4. QED
      BY <1>2, <3>3
  <2>3. QED
    BY <2>1, <2>2
<1>4. QED
  BY <1>1, <1>3, DecodeStep DEF Decoding

(* The rows in front of the next unit, when unit u is passed.              *)
LEMMA NextUnit ==
  ASSUME file \in Files, g \in 1 .. Len(file), c \in 1 .. Len(Chunks), u \in 1 .. Len(Units),
         cur = UnitStart(u), UNCHANGED <<file, g, c>>, u' = u + 1, cur' = cur + Units[u].rows
  PROVE  cur' = UnitStart(u)' /\ u' \in 1 .. Len(Units') + 1
<1>1. Chunks' = Chunks /\ Units' = Units
  BY DEF Chunks, Units
<1>2. /\ Len(Units) \in Nat \ {0}
      /\ \A i \in 1 .. Len(Units) : Units[i].first \in Nat /\ Units[i].rows \in Nat
      /\ \A i \in 1 .. Len(Units) - 1 : Units[i + 1].first = Units[i].first + Units[i].rows
      /\ Units[Len(Units)].first + Units[Len(Units)].rows = ChunkFirst(Chunks[c]) + Chunks[c].rows
  BY UnitsOrdered DEF Units
<1>3. PICK uf \in Nat, ur \in Nat, cf \in Nat, cr \in Nat :
        /\ uf = Units[u].first /\ ur = Units[u].rows
        /\ cf = ChunkFirst(Chunks[c]) /\ cr = Chunks[c].rows
  BY <1>2, ChunksOrdered
<1>4. cur = uf - cf
  BY <1>2, <1>3 DEF UnitStart
<1>5. cur' = (uf + ur) - cf
  <2>1. cur' = (uf - cf) + ur
    BY <1>3, <1>4
  <2>2. QED
    BY <2>1
<1>6. u' \in 1 .. Len(Units') + 1
  BY <1>1, <1>2
<1>7. CASE u + 1 <= Len(Units)
  <2>1. Units[u + 1].first = uf + ur
    <3>1. u \in 1 .. Len(Units) - 1
      BY <1>2, <1>7
    <3>2. Units[u + 1].first = Units[u].first + Units[u].rows
      BY <1>2, <3>1
    <3>3. QED
      BY <1>3, <3>2
  <2>2. UnitStart(u)' = (uf + ur) - cf
    BY <1>1, <1>3, <1>7, <2>1 DEF UnitStart
  <2>3. QED
    BY <1>5, <1>6, <2>2
<1>8. CASE ~(u + 1 <= Len(Units))
  <2>1. u = Len(Units)
    BY <1>2, <1>8
  <2>2. uf + ur = cf + cr
    BY <1>2, <1>3, <2>1
  <2>3. UnitStart(u)' = cr
    BY <1>1, <1>3, <1>8 DEF UnitStart
  <2>4. QED
    BY <1>5, <1>6, <2>2, <2>3
<1>9. QED
  BY <1>7, <1>8

LEMMA SkipsUnit ==
  ASSUME PointInv, SkipUnit
  PROVE  PointInv'
<1>1. /\ pc = "unit" /\ pc' = "unit" /\ u <= Len(Units) /\ cur + Units[u].rows < row - curRow
      /\ cur' = cur + Units[u].rows /\ u' = u + 1
      /\ UNCHANGED <<file, want, g, row, len, c, curRow, left, got, unitLeft, part>>
  BY DEF SkipUnit, colVars
<1>2. file \in Files /\ CallInv /\ g \in 1 .. Len(file) /\ row \in Nat
  BY <1>1 DEF PointInv, DecodeInv, Decoding, CallInv
<1>3. ASSUME want # << >> \/ InUnit
      PROVE  InChunk'
  <2>1. InChunk /\ Searching
    BY <1>1, <1>3 DEF PointInv, DecodeInv, Decoding, InChunk
  <2>2. c \in 1 .. Len(Chunks) /\ Chunks' = Chunks /\ Units' = Units
    <3>1. Len(Chunks) \in Nat /\ Chunks' = Chunks
      BY <1>1, <1>2, ChunksOrdered, CallStays
    <3>2. QED
      BY <1>1, <2>1, <3>1 DEF InChunk, Searching, Units
  <2>3. u \in 1 .. Len(Units) /\ cur = UnitStart(u) /\ Units[u].rows \in Nat
    <3>1. Len(Units) \in Nat /\ \A i \in 1 .. Len(Units) : Units[i].rows \in Nat
      BY <1>2, <2>2, UnitsOrdered DEF Units
    <3>2. QED
      BY <1>1, <2>1, <3>1 DEF InChunk
  <2>4. cur' = UnitStart(u)' /\ u' \in 1 .. Len(Units') + 1
    BY <1>1, <1>2, <2>2, <2>3, NextUnit
  <2>5. Searching'
    BY <1>1, <2>1, <2>2 DEF Searching, ChunkStart
  <2>6. cur' \in Nat /\ cur' <= row' - curRow'
    <3>1. cur \in Nat /\ curRow \in Nat
      BY <2>1 DEF InChunk, Searching
    <3>2. PICK ur \in Nat : ur = Units[u].rows
      BY <2>3
    <3>3. cur + ur < row - curRow /\ cur' = cur + ur
      BY <1>1, <3>2
    <3>4. QED
      BY <1>1, <1>2, <3>1, <3>3
  <2>7. /\ c' <= Len(Chunks') /\ row' < curRow' + Chunks'[c'].rows
        /\ part' = << >> /\ unitLeft' = len'
    BY <1>1, <2>1, <2>2 DEF InChunk
  <2>8. QED
    BY <2>4, <2>5, <2>6, <2>7 DEF InChunk
<1>4. QED
  BY <1>1, <1>3, DecodeStep DEF Decoding

(* What is decoded of a unit.                                              *)
LEMMA RowsIs ==
  ASSUME NEW lo \in Nat, NEW n \in Nat
  PROVE  /\ Rows(lo, n) \in Seq(Nat) /\ Len(Rows(lo, n)) = n
         /\ << >> \o Rows(lo, n) = Rows(lo, n)
         /\ n = 0 => Rows(lo, n) = << >>
<1>1. \A i \in 1 .. n : lo + i - 1 \in Nat
  OBVIOUS
<1>2. Rows(lo, n) \in Seq(Nat) /\ Len(Rows(lo, n)) = n
  BY <1>1 DEF Rows
<1>3. \A s \in Seq(Nat) : << >> \o s = s /\ (Len(s) = 0 => s = << >>)
  OBVIOUS
<1>4. QED
  BY <1>2, <1>3

LEMMA DecodesUnit ==
  ASSUME PointInv, DecodeUnit
  PROVE  PointInv'
<1> DEFINE idx == (row - curRow) - cur
           n == Minimum(unitLeft, Units[u].rows - idx)
           array == part \o Rows(Units[u].first + idx, n)
<1>1. /\ pc = "unit" /\ u <= Len(Units) /\ cur + Units[u].rows >= row - curRow
      /\ UNCHANGED <<file, want, g, row, len, curRow>>
  BY DEF DecodeUnit
<1>2. \/ /\ idx < 0 \/ n < 0
         /\ pc' = "panicked"
      \/ /\ idx >= 0 /\ n = unitLeft
         /\ pc' = "chunk" /\ left' = left - Len(array) /\ got' = got \o array
      \/ /\ idx >= 0 /\ 0 <= n /\ n < unitLeft
         /\ part' = array /\ unitLeft' = unitLeft - n
         /\ cur' = cur + Units[u].rows /\ u' = u + 1
         /\ UNCHANGED <<pc, c, left, got>>
  BY DEF DecodeUnit, UnitIndex
<1>3. /\ file \in Files /\ CallInv /\ g \in 1 .. Len(file) /\ row \in Nat
      /\ len \in Nat \ {0}
  BY <1>1 DEF PointInv, DecodeInv, Decoding, CallInv
<1>4. pc' \in Decoding /\ pc \in Decoding
  BY <1>1, <1>2 DEF Decoding
<1>5. ASSUME want # << >> \/ InUnit
      PROVE  /\ pc' = "chunk" => got' = Asked /\ left' = 0
             /\ pc' = "unit" => InChunk'
             /\ pc' \in {"chunk", "unit"}
  <2>1. InChunk /\ Searching
    BY <1>1, <1>5 DEF PointInv, DecodeInv, Decoding, InChunk
  <2>2. /\ c \in 1 .. Len(Chunks) /\ got = << >> /\ left = len /\ part = << >>
        /\ unitLeft = len /\ cur \in Nat /\ cur <= row - curRow /\ curRow \in Nat
        /\ row < curRow + Chunks[c].rows
    <3>1. Len(Chunks) \in Nat
      BY <1>3, ChunksOrdered
    <3>2. QED
      BY <2>1, <3>1 DEF InChunk, Searching
  <2>3. u \in 1 .. Len(Units) /\ cur = UnitStart(u)
    <3>1. Len(Units) \in Nat
      BY <1>3, <2>2, UnitsOrdered DEF Units
    <3>2. QED
      BY <1>1, <2>1, <3>1 DEF InChunk
  <2>4. PICK f \in Nat, cf \in Nat, cr \in Nat :
          f = file[g].first /\ cf = ChunkFirst(Chunks[c]) /\ cr = Chunks[c].rows
    BY <1>3, <2>2, ChunksOrdered
  <2>5. PICK uf \in Nat, ur \in Nat : uf = Units[u].first /\ ur = Units[u].rows
    BY <1>3, <2>2, <2>3, UnitInChunk DEF Units
  <2>6. curRow = cf - f /\ cur = uf - cf
    BY <2>1, <2>2, <2>3, <2>4, <2>5 DEF Searching, ChunkStart, UnitStart
  <2>7. PICK r \in Nat : r = f + row
    BY <1>3
  <2>8. cf <= r /\ r < cf + cr
    <3>1. row < curRow + cr /\ curRow <= row
      BY <2>1, <2>2, <2>4 DEF Searching
    <3>2. QED
      BY <1>3, <2>2, <2>6, <2>7, <3>1
  <2>9. PICK d \in Nat : d = idx /\ uf + d = r /\ d <= ur
    <3>1. cur + ur >= row - curRow
      BY <1>1, <2>5
    <3>2. /\ (row - curRow) - cur \in Nat /\ uf + ((row - curRow) - cur) = r
          /\ (row - curRow) - cur <= ur
      BY <1>3, <2>2, <2>6, <2>7, <3>1
    <3>3. QED
      BY <3>2
  <2>10. r < uf + ur => r + len <= uf + ur
    <3>1. \A y \in 1 .. Len(Units) :
            LET unit == Units[y]
            IN unit.first <= r /\ r < unit.first + unit.rows => r + len <= unit.first + unit.rows
      BY <1>3, <1>5, <2>2, <2>4, <2>7, <2>8, RangeInChunk DEF Units
    <3>2. uf <= r
      BY <2>9
    <3>3. QED
      BY <2>3, <2>5, <3>1, <3>2
  <2>11. PICK m \in Nat : m = n /\ m = Minimum(len, ur - d) /\ (m = len \/ (m = 0 /\ d = ur))
    <3>1. n = Minimum(len, ur - d)
      BY <2>2, <2>5, <2>9
    <3>2. CASE d = ur
      <4>1. Minimum(len, ur - d) = 0
        BY <1>3, <3>2 DEF Minimum
      <4>2. QED
        BY <3>1, <3>2, <4>1
    <3>3. CASE d # ur
      <4>1. len <= ur - d
        BY <1>3, <2>9, <2>10, <3>3
      <4>2. Minimum(len, ur - d) = len
        BY <4>1 DEF Minimum
      <4>3. QED
        BY <1>3, <3>1, <4>2
    <3>4. QED
      BY <3>2, <3>3
  <2>12. array = Rows(r, m)
    <3>1. Units[u].first + idx = r
      BY <2>5, <2>9
    <3>2. << >> \o Rows(r, m) = Rows(r, m)
      BY RowsIs
    <3>3. QED
      BY <2>2, <2>11, <3>1, <3>2
  <2>13. ~(idx < 0) /\ ~(n < 0)
    BY <2>9, <2>11
  <2> HIDE DEF idx, n, array
  <2>14. CASE m = len
    <3>1. pc' = "chunk" /\ left' = left - Len(array) /\ got' = got \o array
      BY <1>2, <1>3, <2>2, <2>11, <2>13, <2>14
    <3>2. Asked = Rows(r, len)
      BY <2>4, <2>7 DEF Asked
    <3>3. Len(array) = len /\ << >> \o array = array
      BY <1>3, <2>12, <2>14, RowsIs
    <3>4. got' = Asked /\ left' = 0
      BY <1>3, <2>2, <2>12, <2>14, <3>1, <3>2, <3>3
    <3>5. QED
      BY <3>1, <3>4
  <2>15. CASE m # len
    <3>1. m = 0 /\ d = ur /\ n = 0
      BY <2>11, <2>15
    <3>2. /\ part' = array /\ unitLeft' = unitLeft - n /\ cur' = cur + Units[u].rows
          /\ u' = u + 1 /\ UNCHANGED <<pc, c, left, got>>
      BY <1>2, <2>2, <2>11, <2>13, <2>15
    <3>3. part' = << >> /\ unitLeft' = len'
      BY <1>1, <1>3, <2>2, <2>12, <3>1, <3>2, RowsIs
    <3>4. cur' = UnitStart(u)' /\ u' \in 1 .. Len(Units') + 1
      BY <1>1, <1>3, <2>2, <2>3, <3>2, NextUnit
    <3>5. Chunks' = Chunks /\ Units' = Units
      BY <1>1, <3>2 DEF Chunks, Units
    <3>6. Searching'
      BY <1>1, <2>1, <3>2, <3>5 DEF Searching, ChunkStart
    <3>7. cur' \in Nat /\ cur' <= row' - curRow'
      <4>1. cur' = cur + d
        BY <2>5, <3>1, <3>2
      <4>2. cur + d = row - curRow
        BY <1>3, <2>2, <2>6, <2>7, <2>9
      <4>3. QED
        BY <1>1, <1>3, <2>2, <4>1, <4>2
    <3>8. c' <= Len(Chunks') /\ row' < curRow' + Chunks'[c'].rows
      BY <1>1, <2>1, <3>2, <3>5 DEF InChunk
    <3>9. InChunk'
      BY <3>3, <3>4, <3>6, <3>7, <3>8 DEF InChunk
    <3>10. QED
      BY <1>1, <3>2, <3>9
  <2>16. QED
    BY <2>14, <2>15
<1>6. QED
  BY <1>1, <1>4, <1>5, DecodeStep
-----------------------------------------------------------------------------
LEMMA PointInit == Init => PointInv
<1> SUFFICES ASSUME Init
             PROVE  PointInv
  OBVIOUS
<1>1. /\ file \in Files /\ want \in Wants /\ g = 1 /\ cum = 0 /\ at = 1 /\ sel = << >>
      /\ pc = (IF want = << >> THEN "selected" ELSE "select")
  BY DEF Init
<1>2. /\ Len(file) \in Nat \ {0} /\ file[1].first = 0
      /\ Len(want) \in Nat /\ \A i \in 1 .. Len(want) : want[i] \in Nat
  BY <1>1, GroupsOrdered, WantsAssumption
<1>3. /\ sel \in Seq(Picks) /\ Len(sel) = 0
  BY <1>1
<1>4. want # << >> => SelectedTo(g - 1) /\ SplitAt(at, cum)
  <2>1. g - 1 = 0 /\ 1 .. 0 = {} /\ at - 1 = 0
    BY <1>1
  <2>2. SelectedTo(g - 1)
    BY <1>3, <2>1 DEF SelectedTo
  <2>3. SplitAt(at, cum)
    BY <1>1, <1>2, <2>1 DEF SplitAt
  <2>4. QED
    BY <2>2, <2>3
<1>5. want = << >> => SelectedTo(Len(file))
  <2>1. want = << >> => \A k : Mine(k) = {}
    BY DEF Mine
  <2>2. QED
    BY <1>3, <2>1 DEF SelectedTo
<1>6. SelectInv /\ DecodeInv
  BY <1>1, <1>2, <1>4, <1>5 DEF SelectInv, DecodeInv, Decoding
<1>7. QED
  BY <1>1, <1>6 DEF PointInv

LEMMA PointStutters ==
  ASSUME PointInv, UNCHANGED vars
  PROVE  PointInv'
<1>1. UNCHANGED <<file, want, pc, g, cum, at, sel, row, len, c, curRow, left, got, u, cur,
                  unitLeft, part>>
  BY DEF vars, selVars, colVars, unitVars
<1>2. /\ CallInv' = CallInv /\ InUnit' = InUnit /\ Asked' = Asked /\ Chunks' = Chunks
  BY <1>1, CallStays
<1>3. Searching' = Searching
  BY <1>1, <1>2 DEF Searching, ChunkStart
<1>4. InChunk' = InChunk
  BY <1>1, <1>2, <1>3 DEF InChunk, UnitStart, Units
<1>5. DecodeInv' = DecodeInv
  BY <1>1, <1>2, <1>3, <1>4 DEF DecodeInv
<1>6. SelectInv' = SelectInv
  BY <1>1 DEF SelectInv, SplitAt, SelectedTo, PickRight, Mine
<1>7. QED
  BY <1>1, <1>5, <1>6 DEF PointInv

LEMMA PointNext == PointInv /\ [Next]_vars => PointInv'
<1> SUFFICES ASSUME PointInv, [Next]_vars
             PROVE  PointInv'
  OBVIOUS
<1>1. CASE SelectGroup
  BY <1>1, SelectsGroup
<1>2. CASE ReadSelected
  BY <1>2, ReadsSelected
<1>3. CASE \E k \in 1 .. Len(file), n \in RangeLens :
             \E r \in 0 .. file[k].rows - 1 : ReadRange(k, r, n)
  BY <1>3, ReadsRange
<1>4. CASE SkipChunk
  BY <1>4, SkipsChunk
<1>5. CASE OpenChunk
  BY <1>5, OpensChunk
<1>6. CASE DecodeDone
  BY <1>6, DecodesAll
<1>7. CASE SkipUnit
  BY <1>7, SkipsUnit
<1>8. CASE DecodeUnit
  BY <1>8, DecodesUnit
<1>9. CASE Terminated \/ UNCHANGED vars
  BY <1>9, PointStutters DEF Terminated
<1>10. QED
  BY <1>1, <1>2, <1>3, <1>4, <1>5, <1>6, <1>7, <1>8, <1>9 DEF Next

LEMMA PointInvariant == Spec => []PointInv
<1>1. QED
  BY PointInit, PointNext, PTL DEF Spec

(* process_selection, for any file and any sorted row numbers: every       *)
(* wanted row of the file is selected under its number in its row group,   *)
(* in order, and no group is named twice or for nothing.                   *)
THEOREM SelectionCorrect == Spec => []SelectRight
<1>1. PointInv => SelectRight
  <2> SUFFICES ASSUME PointInv, pc = "selected"
               PROVE  /\ {sel[i].group : i \in 1 .. Len(sel)} = {k \in 1 .. Len(file) : Mine(k) # {}}
                      /\ \A i, j \in 1 .. Len(sel) : i < j => sel[i].group < sel[j].group
                      /\ \A i \in 1 .. Len(sel) : PickRight(sel[i])
    BY DEF SelectRight, PickRight
  <2>1. /\ \A i \in 1 .. Len(sel) : sel[i].group \in 1 .. Len(file) /\ PickRight(sel[i])
        /\ \A i, j \in 1 .. Len(sel) : i < j => sel[i].group < sel[j].group
        /\ \A k \in 1 .. Len(file) : Mine(k) # {} => \E i \in 1 .. Len(sel) : sel[i].group = k
        /\ sel \in Seq(Picks)
    BY DEF PointInv, SelectInv, SelectedTo
  <2>2. ASSUME NEW i \in 1 .. Len(sel)
        PROVE  Mine(sel[i].group) # {}
    <3>1. Len(sel[i].rows) \in Nat
      <4>1. sel[i] \in Picks
        BY <2>1
      <4>2. QED
        BY <4>1 DEF Picks
    <3>2. PICK lo \in 1 .. Len(want) :
            Mine(sel[i].group) = lo .. lo + Len(sel[i].rows) - 1 /\ Len(sel[i].rows) >= 1
      BY <2>1 DEF PickRight
    <3>3. lo \in lo .. lo + Len(sel[i].rows) - 1
      BY <3>1, <3>2
    <3>4. QED
      BY <3>2, <3>3
  <2>3. QED
    BY <2>1, <2>2
<1>2. QED
  BY <1>1, PointInvariant, PTL

(* A point read returns the wanted row and nothing else, wherever groups,  *)
(* chunks and units were cut, and never panics.                            *)
THEOREM PointReadCorrect == Spec => []PointRight
<1>1. PointInv => PointRight
  <2> SUFFICES ASSUME PointInv, Ended, want # << >>
               PROVE  pc = "done" /\ got = want
    BY DEF PointRight
  <2>1. pc = "done" /\ got = Asked /\ CallInv
    BY DEF PointInv, DecodeInv, Ended, Decoding
  <2>2. len = 1 /\ want = <<file[g].first + row>> /\ file[g].first \in Nat /\ row \in Nat
    BY <2>1, AskedIs DEF CallInv, PointInv
  <2>3. PICK r \in Nat : r = file[g].first + row
    BY <2>2
  <2>4. Asked = [i \in 1 .. 1 |-> r + i - 1]
    BY <2>2, <2>3 DEF Asked, Rows
  <2>5. Asked \in Seq(Nat) /\ Len(Asked) = 1 /\ Asked[1] = r
    BY <2>4
  <2>6. Asked = <<r>>
    BY <2>5
  <2>7. QED
    BY <2>1, <2>2, <2>3, <2>6
<1>2. QED
  BY <1>1, PointInvariant, PTL

(* A range that lies in one encoding unit is decoded to exactly its rows.  *)
THEOREM RangeReadCorrect == Spec => []RangeRight
<1>1. PointInv => RangeRight
  BY DEF PointInv, DecodeInv, RangeRight, Ended, Decoding, InUnit
<1>2. QED
  BY <1>1, PointInvariant, PTL
=============================================================================

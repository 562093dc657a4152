----------------------------- MODULE PointRead ------------------------------
(***************************************************************************)
(* How a reader finds rows by number: process_selection turns row numbers  *)
(* of the file into row groups and rows in them (fff-poc/src/reader/mod.rs)*)
(* and decode_row_at walks the chunks of a column                          *)
(* (fff-poc/src/decoder/logical.rs) and the encoding units of a chunk      *)
(* (fff-poc/src/decoder/physical.rs).                                      *)
(*                                                                         *)
(* The file is one that FileWriter's property ColumnsComplete describes:   *)
(* rows are numbered through, and every unit knows its first row.  One     *)
(* column is enough, since each column is decoded on its own.              *)
(***************************************************************************)
EXTENDS Integers, Sequences, FiniteSets

CONSTANTS
  Files,     \* the files: sequences of row groups
  Wants,     \* sorted row numbers a caller selects
  RangeLens  \* numbers of rows a list decoder asks of its children

(* What FileWriter guarantees of a column: the units of a chunk follow     *)
(* each other and add up to its rows, and so do the chunks of a row group  *)
(* and the row groups of a file.  A unit, a chunk and a row group may be   *)
(* without rows, a row group without chunks.                               *)
ChunkFirst(ch) == ch.units[1].first
ChunkOK(ch) ==
  /\ ch.rows \in Nat /\ Len(ch.units) \in Nat \ {0}
  /\ \A j \in 1 .. Len(ch.units) : ch.units[j].first \in Nat /\ ch.units[j].rows \in Nat
  /\ \A j \in 1 .. Len(ch.units) - 1 :
       ch.units[j + 1].first = ch.units[j].first + ch.units[j].rows
  /\ ch.units[Len(ch.units)].first + ch.units[Len(ch.units)].rows = ChunkFirst(ch) + ch.rows
GroupOK(gr) ==
  LET n == Len(gr.chunks)
  IN /\ gr.first \in Nat /\ gr.rows \in Nat /\ n \in Nat
     /\ \A i \in 1 .. n : ChunkOK(gr.chunks[i])
     /\ \A i \in 1 .. n - 1 :
          ChunkFirst(gr.chunks[i + 1]) = ChunkFirst(gr.chunks[i]) + gr.chunks[i].rows
     /\ IF n = 0 THEN gr.rows = 0
        ELSE /\ ChunkFirst(gr.chunks[1]) = gr.first
             /\ ChunkFirst(gr.chunks[n]) + gr.chunks[n].rows = gr.first + gr.rows
FileOK(f) ==
  /\ Len(f) \in Nat \ {0} /\ f[1].first = 0
  /\ \A k \in 1 .. Len(f) : GroupOK(f[k])
  /\ \A k \in 1 .. Len(f) - 1 : f[k + 1].first = f[k].first + f[k].rows

ASSUME FilesAssumption == \A f \in Files : FileOK(f)
ASSUME WantsAssumption ==
  /\ Wants \subseteq Seq(Nat)
  /\ \A w \in Wants : \A i, j \in 1 .. Len(w) : i <= j => w[i] <= w[j]
ASSUME RangesAssumption == RangeLens \subseteq Nat \ {0}

VARIABLES
  file,    \* per row group: rows, first row, chunks
  want,    \* sorted_indexes
  pc,      \* "select", then "chunk" and "unit" of the column decoder
  g,       \* the row group process_selection or the decoder is at
  cum,     \* cumulative_row_count
  at,      \* current_idx_pos
  sel,     \* result: row groups with the rows selected in them
  row,     \* row_id, relative to the row group
  len,     \* len
  c,       \* next chunk of chunks_meta_iter
  curRow,  \* cur_row
  left,    \* remaining rows of the call on the column
  u,       \* next unit of encunit_iter
  cur,     \* cur of the call on the chunk
  unitLeft,\* to_decode, then remaining of the call on the chunk
  part,    \* arrays of the call on the chunk, as row numbers of the file
  got      \* arrays of the call on the column

selVars == <<cum, at, sel>>
colVars == <<row, len, c, curRow, left, got>>
unitVars == <<u, cur, unitLeft, part>>
vars == <<file, want, pc, g, selVars, colVars, unitVars>>

-----------------------------------------------------------------------------
Minimum(a, b) == IF a <= b THEN a ELSE b
Chunks == file[g].chunks
Units == Chunks[c].units

(* The rows lo .. lo+n-1 of a file.                                        *)
Rows(lo, n) == [i \in 1 .. n |-> lo + i - 1]

(* decode_row_at of a column is called for n rows from row r of group k.   *)
Start(k, r, n) ==
  /\ pc' = "chunk" /\ g' = k /\ row' = r /\ len' = n
  /\ c' = 1 /\ curRow' = 0 /\ left' = n /\ got' = << >>

(* A caller selects rows, or a list decoder asks for the rows of a list.   *)
Init ==
  /\ file \in Files /\ want \in Wants
  /\ pc = IF want = << >> THEN "selected" ELSE "select"
  /\ g = 1 /\ cum = 0 /\ at = 1 /\ sel = << >>
  /\ row = 0 /\ len = 0 /\ c = 1 /\ curRow = 0 /\ left = 0
  /\ u = 1 /\ cur = 0 /\ unitLeft = 0 /\ part = << >> /\ got = << >>

(* Where a while loop over sorted_indexes that starts at position from and *)
(* runs past the rows below x stops.                                       *)
PastBelow(from, x) ==
  CHOOSE p \in from .. Len(want) + 1 :
    /\ \A k \in from .. p - 1 : want[k] < x
    /\ p <= Len(want) => want[p] >= x

(* cumulative_row_count after a group, and a mutant that counts only the   *)
(* groups that were selected from.                                         *)
CountedSelected(start, n) ==
  IF PastBelow(at, start) = PastBelow(at, start + n) THEN start ELSE start + n
Counted(start, n) == start + n

(* process_selection: one row group.                                       *)
SelectGroup ==
  LET lo == PastBelow(at, cum)
      hi == PastBelow(lo, cum + file[g].rows)
      group_indexes == [k \in 1 .. hi - lo |-> want[lo + k - 1] - cum]
  IN /\ pc = "select"
     /\ sel' = IF hi = lo THEN sel ELSE Append(sel, [group |-> g, rows |-> group_indexes])
     /\ cum' = Counted(cum, file[g].rows)
     /\ at' = hi
     /\ IF at' > Len(want) \/ g = Len(file)
        THEN pc' = "selected" /\ UNCHANGED g
        ELSE pc' = pc /\ g' = g + 1
     /\ UNCHANGED <<file, want, colVars, unitVars>>

(* read_file decodes the first selected row of the group; the builder      *)
(* admits selections of one row.                                           *)
ReadSelected ==
  /\ pc = "selected" /\ Len(want) = 1 /\ sel # << >>
  /\ Start(sel[1].group, sel[1].rows[1], 1)
  /\ UNCHANGED <<file, want, selVars, unitVars>>

(* The decoder of a list column asks its child for a range of a row group. *)
ReadRange(k, r, n) ==
  /\ pc = "selected" /\ want = << >>
  /\ r + n <= file[k].rows
  /\ Start(k, r, n)
  /\ UNCHANGED <<file, want, selVars, unitVars>>

-----------------------------------------------------------------------------
(* The row wanted lies behind chunk c, and an off-by-one mutant.           *)
ChunkBeforeStrict == curRow + Chunks[c].rows < row
ChunkBefore == curRow + Chunks[c].rows <= row

SkipChunk ==
  /\ pc = "chunk" /\ c <= Len(Chunks) /\ left > 0
  /\ ChunkBefore
  /\ curRow' = curRow + Chunks[c].rows
  /\ c' = c + 1
  /\ UNCHANGED <<file, want, pc, g, selVars, row, len, left, got, unitVars>>

(* The chunk is read and a chunk decoder made for it.                      *)
OpenChunk ==
  /\ pc = "chunk" /\ c <= Len(Chunks) /\ left > 0
  /\ ~ChunkBefore
  /\ unitLeft' = Minimum(Chunks[c].rows - (row - curRow), left)
  /\ u' = 1 /\ cur' = 0 /\ part' = << >>
  /\ pc' = "unit"
  /\ UNCHANGED <<file, want, g, selVars, row, len, c, curRow, left, got>>

(* All chunks are seen, or all rows found.                                 *)
DecodeDone ==
  /\ pc = "chunk" /\ (c > Len(Chunks) \/ left = 0)
  /\ pc' = "done"
  /\ UNCHANGED <<file, want, g, selVars, colVars, unitVars>>

(* NoDictColDecoder::decode_row_at: a unit that ends before the row.       *)
SkipUnit ==
  /\ pc = "unit" /\ u <= Len(Units)
  /\ cur + Units[u].rows < row - curRow
  /\ cur' = cur + Units[u].rows
  /\ u' = u + 1
  /\ UNCHANGED <<file, want, pc, g, selVars, colVars, unitLeft, part>>

(* Where row lies in a unit that starts at row cur of the chunk, and a     *)
(* mutant that forgets the units before it.                                *)
UnitIndexAbsolute(r) == r
UnitIndex(r) == r - cur

(* The unit holds, or ends right before, the row: part of it is decoded,   *)
(* until the rows of this chunk are complete and go to the column decoder. *)
(* A unit behind the first one decoded makes the index underflow.  The     *)
(* units of a chunk add up to its rows, so the chunk never returns None:   *)
(* running out of units would be a deadlock here.                          *)
DecodeUnit ==
  LET idx == UnitIndex(row - curRow)
      unit == Units[u]
      n == Minimum(unitLeft, unit.rows - idx)
      array == part \o Rows(unit.first + idx, n)
  IN /\ pc = "unit" /\ u <= Len(Units)
     /\ cur + unit.rows >= row - curRow
     /\ \/ /\ idx < 0 \/ n < 0
           /\ pc' = "panicked"
           /\ UNCHANGED <<c, left, got, unitVars>>
        \/ /\ idx >= 0 /\ n = unitLeft
           /\ pc' = "chunk" /\ c' = c + 1
           /\ left' = left - Len(array) /\ got' = got \o array
           /\ UNCHANGED unitVars
        \/ /\ idx >= 0 /\ 0 <= n /\ n < unitLeft
           /\ part' = array /\ unitLeft' = unitLeft - n
           /\ cur' = cur + unit.rows /\ u' = u + 1
           /\ UNCHANGED <<pc, c, left, got>>
     /\ UNCHANGED <<file, want, g, selVars, row, len, curRow>>

Terminated ==
  /\ \/ pc \in {"done", "panicked"}
     \/ pc = "selected" /\ want # << >> /\ (Len(want) > 1 \/ sel = << >>)
  /\ UNCHANGED vars

Next ==
  \/ SelectGroup \/ ReadSelected
  \/ \E k \in 1 .. Len(file), n \in RangeLens :
       \E r \in 0 .. file[k].rows - 1 : ReadRange(k, r, n)
  \/ SkipChunk \/ OpenChunk \/ DecodeDone
  \/ SkipUnit \/ DecodeUnit
  \/ Terminated

Spec == Init /\ [][Next]_vars

-----------------------------------------------------------------------------
Ended == pc \in {"done", "panicked"}

(* The positions of the wanted rows that lie in row group k.               *)
Mine(k) ==
  {p \in 1 .. Len(want) : file[k].first <= want[p] /\ want[p] < file[k].first + file[k].rows}

(* process_selection (reader/mod.rs:447): every wanted row of the file is  *)
(* selected, under its number in its row group, groups and rows in order   *)
(* and with no group named twice or for nothing.                           *)
SelectRight ==
  pc = "selected" =>
    /\ {sel[i].group : i \in 1 .. Len(sel)} = {k \in 1 .. Len(file) : Mine(k) # {}}
    /\ \A i, j \in 1 .. Len(sel) : i < j => sel[i].group < sel[j].group
    /\ \A i \in 1 .. Len(sel) :
         LET k == sel[i].group
             n == Len(sel[i].rows)
         IN \E lo \in 1 .. Len(want) :
              /\ Mine(k) = lo .. lo + n - 1
              /\ \A r \in 1 .. n : sel[i].rows[r] = want[lo + r - 1] - file[k].first

(* A point read (reader/mod.rs:223) returns the wanted row of the file and *)
(* nothing else, whichever group, chunk and unit it lies in, first and     *)
(* last rows of each included.                                             *)
PointRight == Ended /\ want # << >> => pc = "done" /\ got = want

(* The rows asked for, as numbers of the file.                             *)
Asked == Rows(file[g].first + row, len)

(* decode_row_at of len rows (decoder/logical.rs:108) is right for ranges  *)
(* that lie in one encoding unit.                                          *)
RangeRight ==
  Ended /\ want = << >>
  /\ (\E ch \in 1 .. Len(Chunks) : \E un \in 1 .. Len(Chunks[ch].units) :
        LET unit == Chunks[ch].units[un]
        IN /\ unit.first <= Asked[1]
           /\ Asked[len] < unit.first + unit.rows)
  => pc = "done" /\ got = Asked
=============================================================================

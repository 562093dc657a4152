----------------------------- MODULE FileTable ------------------------------
(***************************************************************************)
(* The file as a table: what the reader gets back of the chunks that       *)
(* FileWriter lists (read_file_based_on_footer, fff-poc/src/reader/mod.rs) *)
(* is what Table promises.                                                 *)
(***************************************************************************)
EXTENDS FileWriter, SequencesExt

(* What a reader gets back for column c of row group g: the rows from the  *)
(* first unit of its first chunk to the last unit of its last chunk.       *)
ReadGroup(g, c) ==
  LET chunks == groups[g].cols[c]
      first == chunks[1].units
      last == chunks[Len(chunks)].units
  IN IF chunks = << >> THEN [lo |-> groups[g].lo, hi |-> groups[g].lo]
     ELSE [lo |-> first[1].first, hi |-> last[Len(last)].first + last[Len(last)].rows]

ReadTable == [g \in 1 .. Len(groups) |-> [c \in Columns |-> ReadGroup(g, c)]]

T == INSTANCE Table WITH
       table <- rows, groups <- ReadTable, closed <- (pc = "closed")

(* Without failures the file implements Table: the rows the chunks of      *)
(* every column give back, group by group, are the rows appended, cut at   *)
(* the row-group threshold (options.rs:115-118).                           *)
FileIsTable == T!TableSpec

(* The units of a column of a row group in the order decode_batch returns  *)
(* them: chunk by chunk.                                                   *)
UnitsOf(chunks) == FlattenSeq([k \in 1 .. Len(chunks) |-> chunks[k].units])

(* read_file_based_on_footer makes its i-th record batch from the i-th     *)
(* unit of every column and stops at the units of the first column.  With  *)
(* one encunit length for all columns and no failed call, these units      *)
(* agree in number and in the rows they hold, wherever each column's       *)
(* chunks were split.                                                      *)
UnitsPairUp ==
  (~failed /\ \A c \in Columns : EncunitLen[c] = EncunitLen[1]) =>
    \A g \in 1 .. Len(groups) : \A c \in Columns :
      LET a == UnitsOf(groups[g].cols[1])
          b == UnitsOf(groups[g].cols[c])
      IN /\ Len(a) = Len(b)
         /\ \A i \in 1 .. Len(a) : a[i].first = b[i].first /\ a[i].rows = b[i].rows
=============================================================================

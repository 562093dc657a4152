----------------------------- MODULE FileWriter -----------------------------
(***************************************************************************)
(* The data part of a file: FileWriter::write_batch, flush_pending_chunks  *)
(* and the first half of FileWriter::finish (fff-poc/src/writer.rs), with  *)
(* one EncoderDictColEncoder (fff-poc/src/encoder/physical.rs) per column. *)
(*                                                                         *)
(* A call is split into the steps at which it hands over between the       *)
(* encoder, the chunk writer and the row-group bookkeeping; pc forces the  *)
(* steps of a call to be taken in the order of the code, and a call that   *)
(* returns an error leaves the state as the code leaves it.                *)
(*                                                                         *)
(* Values are abstracted to row numbers: an encoding unit holds the rows   *)
(* first .. first+rows-1 of its column, and `disk' is the set of extents   *)
(* whose bytes have been written, each with the rows they encode.  How     *)
(* many bytes a unit takes after encoding and compression is a choice.     *)
(***************************************************************************)
EXTENDS Integers, Sequences, FiniteSets

CONSTANTS
  NumCols,       \* number of (flat) columns, one encoder each
  RowGroupSize,  \* options.row_group_size()
  ChunkSize,     \* options.iounit_size(), the encoder's column_chunk_size
  EncunitLen,    \* options.custom_encunit_len(); 0 for a column without one
  UnitSizes,     \* sizes in bytes an encoded, compressed unit may have
  BatchRows,     \* row counts of the batches a caller passes
  MaxRows,       \* bound: rows in the file
  MaxBatches,    \* bound: number of calls of write_batch
  U32,           \* 2^32, where u32 arithmetic wraps
  Faults         \* what may fail: "encode", "write", "position"

Columns == 1 .. NumCols

ASSUME ColumnsAssumption == NumCols \in Nat \ {0}
ASSUME SizesAssumption ==
  /\ RowGroupSize \in Nat
  /\ ChunkSize \in Nat
  /\ UnitSizes \subseteq Nat \ {0}
  /\ BatchRows \subseteq Nat
  /\ MaxBatches \in Nat
(* A file has fewer than 2^32 rows and a chunk fewer than 2^32 bytes: the  *)
(* code narrows both with `as u32' and checks neither.                     *)
ASSUME U32Assumption ==
  /\ U32 \in Nat \ {0}
  /\ MaxRows \in Nat /\ MaxRows < U32
  /\ \A u \in UnitSizes : ChunkSize + u < U32
(* writer.rs:256 "Currently requires the input batch size to be the        *)
(* multiple of the custom encunit size."                                   *)
ASSUME EncunitAssumption ==
  /\ EncunitLen \in [Columns -> Nat]
  /\ \A c \in Columns : EncunitLen[c] > 0 =>
       \A n \in BatchRows : /\ n \div EncunitLen[c] \in Nat
                            /\ n = (n \div EncunitLen[c]) * EncunitLen[c]
ASSUME FaultsAssumption == Faults \subseteq {"encode", "write", "position"}

VARIABLES
  pc,       \* where the current call is: "idle" between calls
  col,      \* the column the current call works on
  batch,    \* batch.num_rows()
  slices,   \* encode() calls still to be made for column col
  enc,      \* per column: accumulated_chunk and accumulated_size
  out,      \* the chunk being written by flush_chunk_and_get_metadata
  pos,      \* writer.stream_position()
  summed,   \* bytes fed to data_checksum
  metas,    \* column_metadatas_in_cur_row_group
  groups,   \* row_groups_table
  rows,     \* num_rows_in_file
  cur,      \* num_rows_in_cur_row_group
  start,    \* start_offset_of_cur_row_group
  closing,  \* finish() has been called
  disk,     \* the extents written, with the rows their bytes encode
  next,     \* history: rows handed to each column's encoder so far
  failed,   \* history: some call has returned Err
  calls     \* history: calls of write_batch so far

callVars == <<col, batch, slices>>
fileVars == <<pos, summed, disk>>
tableVars == <<metas, groups, start>>
rowVars == <<rows, cur>>
histVars == <<next, failed, calls>>
vars == <<pc, callVars, enc, out, fileVars, tableVars, rowVars, closing,
          histVars>>

-----------------------------------------------------------------------------
(* An encoder with an empty accumulated chunk.                             *)
EmptyEncoder == [units |-> << >>, num_rows |-> 0, accumulated_size |-> 0]

(* No chunk is being written.                                              *)
NoChunk == [units |-> << >>, num_rows |-> 0, offset |-> 0, written |-> 0]

(* How many times write_batch calls encode for a column, and on how many   *)
(* rows each time.                                                         *)
SliceCount(c, n) == IF EncunitLen[c] = 0 THEN 1 ELSE n \div EncunitLen[c]
SliceRows(c, n) == IF EncunitLen[c] = 0 THEN n ELSE EncunitLen[c]

(* Where the next unit will lie relative to the start of its chunk.        *)
EndOf(units) ==
  IF units = << >> THEN 0 ELSE units[Len(units)].rel + units[Len(units)].size

(* The unit that encode() makes of the next n rows of column c.            *)
NewUnit(c, n, size) ==
  [first |-> next[c], rows |-> n, size |-> size, rel |-> EndOf(enc[c].units)]

(* Mutants: the chunk's row count is forgotten; rows are added up for bytes. *)
AccumulateUncounted(e, u) ==
  [units |-> Append(e.units, u),
   num_rows |-> e.num_rows,
   accumulated_size |-> e.accumulated_size + u.size]
AccumulateRows(e, u) ==
  [units |-> Append(e.units, u),
   num_rows |-> e.num_rows + u.rows,
   accumulated_size |-> e.accumulated_size + u.rows]

(* push the unit and add up, before the size is tested                     *)
Accumulate(e, u) ==
  [units |-> Append(e.units, u),
   num_rows |-> e.num_rows + u.rows,
   accumulated_size |-> e.accumulated_size + u.size]

(* Mutant: the chunk is placed at the start of its row group.              *)
TakeChunkAtGroup(e) ==
  [units |-> e.units, num_rows |-> e.num_rows, offset |-> start, written |-> 0]

(* The accumulated chunk is handed to the file writer at the current       *)
(* stream position.                                                        *)
TakeChunk(e) ==
  [units |-> e.units, num_rows |-> e.num_rows, offset |-> pos, written |-> 0]

(* The bytes of unit u of column c, written at offset at.                  *)
Extent(c, u, at) ==
  [at |-> at, size |-> u.size, col |-> c, first |-> u.first, rows |-> u.rows]

(* Mutant: the chunk's row count is that of its last unit.                 *)
ChunkMetaLastUnit(o, end) ==
  [offset |-> o.offset, size |-> (end - o.offset) % U32,
   rows |-> o.units[Len(o.units)].rows, first |-> o.units[1].first,
   units |-> o.units]

(* Chunk::new: what the metadata records of a chunk written up to end.     *)
ChunkMeta(o, end) ==
  [offset |-> o.offset, size |-> (end - o.offset) % U32,
   rows |-> o.num_rows, first |-> o.units[1].first, units |-> o.units]

(* ColumnMetadata::add_chunk, and a mutant that keeps only the last chunk. *)
ReplaceChunks(chunks, m) == <<m>>
AddChunk(chunks, m) == Append(chunks, m)

(* Mutant: the row group is given the stream position at its end.          *)
GroupMetaLate ==
  [rows |-> cur, offset |-> pos, size |-> (pos - start) % U32,
   cols |-> metas, lo |-> rows - cur]

(* RowGroupsTable::add_meta at stream position pos.  lo is a history       *)
(* field: the number of rows in the file before this row group.            *)
GroupMeta ==
  [rows |-> cur, offset |-> start, size |-> (pos - start) % U32,
   cols |-> metas, lo |-> rows - cur]

(* When write_batch cuts a row group of n rows, and an off-by-one mutant.  *)
RowGroupOver(n) == n > RowGroupSize
RowGroupFull(n) == n >= RowGroupSize

-----------------------------------------------------------------------------
(* FileWriter::try_new                                                     *)
Init ==
  /\ pc = "idle"
  /\ col = 1 /\ batch = 0 /\ slices = 0
  /\ enc = [c \in Columns |-> EmptyEncoder]
  /\ out = NoChunk
  /\ pos = 0 /\ summed = 0 /\ disk = {}
  /\ metas = [c \in Columns |-> << >>]
  /\ groups = << >>
  /\ rows = 0 /\ cur = 0 /\ start = 0
  /\ closing = FALSE
  /\ next = [c \in Columns |-> 0]
  /\ failed = FALSE /\ calls = 0

(* write_batch is called with n rows.                                      *)
WriteBatch(n) ==
  /\ pc = "idle" /\ calls < MaxBatches
  /\ rows + n <= MaxRows
  /\ pc' = "encode"
  /\ col' = 1 /\ batch' = n /\ slices' = SliceCount(1, n)
  /\ calls' = calls + 1
  /\ UNCHANGED <<enc, out, fileVars, tableVars, rowVars, closing, next, failed>>

(* One encode() of column col.  A chunk that has outgrown ChunkSize is     *)
(* taken out of the encoder and goes to flush_chunk.                       *)
Encode(size) ==
  LET r == SliceRows(col, batch)
      full == Accumulate(enc[col], NewUnit(col, r, size))
  IN /\ pc = "encode" /\ col \in Columns
     /\ batch >= EncunitLen[col] /\ slices > 0
     /\ slices' = slices - 1
     /\ next' = [next EXCEPT ![col] = @ + r]
     /\ IF full.accumulated_size > ChunkSize
        THEN /\ enc' = [enc EXCEPT ![col] = EmptyEncoder]
             /\ out' = TakeChunk(full)
             /\ pc' = "write"
        ELSE /\ enc' = [enc EXCEPT ![col] = full]
             /\ UNCHANGED <<out, pc>>
     /\ UNCHANGED <<col, batch, fileVars, tableVars, rowVars, closing, failed,
                    calls>>

(* The next column of the batch.                                           *)
NextColumn ==
  /\ pc = "encode" /\ col \in Columns
  /\ batch >= EncunitLen[col] /\ slices = 0
  /\ col' = col + 1
  /\ slices' = IF col + 1 \in Columns THEN SliceCount(col + 1, batch) ELSE 0
  /\ UNCHANGED <<pc, batch, enc, out, fileVars, tableVars, rowVars, closing,
                 histVars>>

(* write_batch returns Err from column col: the batch is smaller than the  *)
(* column's custom encunit length, or the encoder fails.  Columns before   *)
(* col keep the rows they have encoded and no counter moves.               *)
RejectBatch ==
  /\ pc = "encode" /\ col \in Columns
  /\ batch < EncunitLen[col] \/ (slices > 0 /\ "encode" \in Faults)
  /\ pc' = "idle" /\ failed' = TRUE
  /\ UNCHANGED <<callVars, enc, out, fileVars, tableVars, rowVars, closing,
                 next, calls>>

(* Mutant: only the rows of the row group are counted.                     *)
EndBatchGroupOnly ==
  /\ pc = "encode" /\ col \notin Columns
  /\ cur' = (cur + batch) % U32
  /\ IF RowGroupFull(cur')
     THEN pc' = "flush" /\ col' = 1
     ELSE pc' = "idle" /\ UNCHANGED col
  /\ UNCHANGED <<rows, batch, slices, enc, out, fileVars, tableVars, closing,
                 histVars>>

(* All columns are encoded: count the rows; a full row group is flushed.   *)
EndBatch ==
  /\ pc = "encode" /\ col \notin Columns
  /\ rows' = (rows + batch) % U32
  /\ cur' = (cur + batch) % U32
  /\ IF RowGroupFull(cur')
     THEN pc' = "flush" /\ col' = 1
     ELSE pc' = "idle" /\ UNCHANGED col
  /\ UNCHANGED <<batch, slices, enc, out, fileVars, tableVars, closing,
                 histVars>>

(* flush_chunk_and_get_metadata writes the next unit of the chunk and      *)
(* feeds it to the file-level checksum.                                    *)
WriteUnit ==
  LET u == out.units[out.written + 1]
  IN /\ pc \in {"write", "writePending"} /\ out.written < Len(out.units)
     /\ pos' = pos + u.size
     /\ summed' = summed + u.size
     /\ disk' = disk \union {Extent(col, u, pos)}
     /\ out' = [out EXCEPT !.written = @ + 1]
     /\ UNCHANGED <<pc, callVars, enc, tableVars, rowVars, closing, histVars>>

(* flush_chunk: every unit is written, the chunk joins its column.  The    *)
(* caller goes on with the same column (encode) or the next one (flush).   *)
EndChunk ==
  /\ pc \in {"write", "writePending"} /\ out.written = Len(out.units)
  /\ metas' = [metas EXCEPT ![col] = AddChunk(@, ChunkMeta(out, pos))]
  /\ out' = NoChunk
  /\ IF pc = "write"
     THEN pc' = "encode" /\ UNCHANGED col
     ELSE pc' = "flush" /\ col' = col + 1
  /\ UNCHANGED <<batch, slices, enc, fileVars, groups, start, rowVars, closing,
                 histVars>>

(* stream_position() fails before or after the units are written: the call *)
(* returns Err and the chunk is lost.  finish() consumes the writer.       *)
LoseChunk ==
  /\ pc \in {"write", "writePending"} /\ out.written \in {0, Len(out.units)}
  /\ "position" \in Faults
  /\ failed' = TRUE
  /\ out' = NoChunk
  /\ pc' = IF closing THEN "dead" ELSE "idle"
  /\ UNCHANGED <<callVars, enc, fileVars, tableVars, rowVars, closing, next,
                 calls>>

(* write_all fails: its result is unwrapped and the thread panics.         *)
PanicInWrite ==
  /\ pc \in {"write", "writePending"} /\ out.written < Len(out.units)
  /\ "write" \in Faults
  /\ failed' = TRUE
  /\ out' = NoChunk
  /\ pc' = "dead"
  /\ UNCHANGED <<callVars, enc, fileVars, tableVars, rowVars, closing, next,
                 calls>>

(* flush_pending_chunks: finish() of column col's encoder.                 *)
FinishColumn ==
  /\ pc = "flush" /\ col \in Columns
  /\ IF enc[col].units = << >>
     THEN /\ col' = col + 1
          /\ UNCHANGED <<pc, enc, out>>
     ELSE /\ enc' = [enc EXCEPT ![col] = EmptyEncoder]
          /\ out' = TakeChunk(enc[col])
          /\ pc' = "writePending"
          /\ UNCHANGED col
  /\ UNCHANGED <<batch, slices, fileVars, tableVars, rowVars, closing, histVars>>

(* finish_row_group, the last step of a flush.                             *)
FinishRowGroup ==
  /\ pc = "flush" /\ col \notin Columns
  /\ groups' = Append(groups, GroupMeta)
  /\ metas' = [c \in Columns |-> << >>]
  /\ cur' = 0
  /\ start' = pos
  /\ pc' = IF closing THEN "closed" ELSE "idle"
  /\ UNCHANGED <<callVars, enc, out, fileVars, rows, closing, histVars>>

(* One of the two stream_position() calls of finish_row_group fails: the   *)
(* first before anything is recorded, the second when only the start of    *)
(* the next row group is still to be set.                                  *)
FailRowGroup ==
  /\ pc = "flush" /\ col \notin Columns
  /\ "position" \in Faults
  /\ \/ UNCHANGED <<groups, metas, cur>>
     \/ /\ groups' = Append(groups, GroupMeta)
        /\ metas' = [c \in Columns |-> << >>]
        /\ cur' = 0
  /\ failed' = TRUE
  /\ pc' = IF closing THEN "dead" ELSE "idle"
  /\ UNCHANGED <<callVars, enc, out, fileVars, start, rows, closing, next, calls>>

(* finish() is called: the pending chunks go into one more row group,      *)
(* whether or not it has rows.                                             *)
Finish ==
  /\ pc = "idle"
  /\ closing' = TRUE
  /\ pc' = "flush" /\ col' = 1
  /\ UNCHANGED <<batch, slices, enc, out, fileVars, tableVars, rowVars, histVars>>

(* The writer is consumed.                                                 *)
Terminated == pc \in {"closed", "dead"} /\ UNCHANGED vars

(* The steps a call takes on its own once it has been made.                *)
Step ==
  \/ \E size \in UnitSizes : Encode(size)
  \/ NextColumn \/ RejectBatch \/ EndBatch
  \/ WriteUnit \/ EndChunk \/ LoseChunk \/ PanicInWrite
  \/ FinishColumn \/ FinishRowGroup \/ FailRowGroup

Next ==
  \/ \E n \in BatchRows : WriteBatch(n)
  \/ Finish
  \/ Step
  \/ Terminated

Spec == Init /\ [][Next]_vars

-----------------------------------------------------------------------------
Units == [first : Nat, rows : Nat, size : UnitSizes, rel : Nat]
Chunks == [offset : Nat, size : Nat, rows : Nat, first : Nat, units : Seq(Units)]
Groups == [rows : Nat, offset : Nat, size : Nat,
           cols : [Columns -> Seq(Chunks)], lo : Nat]
Extents == [at : Nat, size : UnitSizes, col : Columns, first : Nat, rows : Nat]
OutChunks == [units : Seq(Units), num_rows : Nat, offset : Nat, written : Nat]
Encoders == [units : Seq(Units), num_rows : Nat, accumulated_size : Nat]

(* Every variable of FileWriteState and of the encoders keeps its type;    *)
(* in particular the counters never wrap below the bound MaxRows.          *)
TypeOK ==
  /\ pc \in {"idle", "encode", "write", "flush", "writePending", "closed",
             "dead"}
  /\ col \in 1 .. NumCols + 1
  /\ batch \in Nat /\ slices \in Nat /\ calls \in Nat
  /\ enc \in [Columns -> Encoders]
  /\ out \in OutChunks
  /\ pos \in Nat /\ summed \in Nat /\ start \in Nat
  /\ disk \subseteq Extents
  /\ metas \in [Columns -> Seq(Chunks)]
  /\ groups \in Seq(Groups)
  /\ rows \in 0 .. MaxRows /\ cur \in 0 .. rows
  /\ next \in [Columns -> Nat]
  /\ closing \in BOOLEAN /\ failed \in BOOLEAN

(* s covers the rows lo .. hi-1 once each and in order: its elements are   *)
(* units or chunks with a first row and a row count.                       *)
Chain(s, lo, hi) ==
  /\ s = << >> => lo = hi
  /\ s # << >> => /\ s[1].first = lo
                 /\ s[Len(s)].first + s[Len(s)].rows = hi
  /\ \A k \in 1 .. Len(s) - 1 : s[k + 1].first = s[k].first + s[k].rows

(* What finish() promises a reader: unless a call has failed, the chunks   *)
(* of each column of a row group hold exactly the rows the row-groups      *)
(* table gives that group, in order, none left behind in an encoder when   *)
(* the group was cut and none leaked into the next group; and the row      *)
(* counts of the groups add up to the rows of the file.                    *)
ColumnsComplete ==
  ~failed =>
    /\ \A g \in 1 .. Len(groups) :
         /\ \A c \in Columns :
              /\ Chain(groups[g].cols[c], groups[g].lo,
                       groups[g].lo + groups[g].rows)
              /\ \A k \in 1 .. Len(groups[g].cols[c]) :
                   LET ch == groups[g].cols[c][k]
                   IN Chain(ch.units, ch.first, ch.first + ch.rows)
         /\ groups[g].lo = (IF g = 1 THEN 0
                            ELSE groups[g - 1].lo + groups[g - 1].rows)
    /\ pc = "closed" => rows = groups[Len(groups)].lo + groups[Len(groups)].rows

(* The chunks of column c the metadata lists.                              *)
ListedChunks(c) ==
  {metas[c][k] : k \in 1 .. Len(metas[c])}
    \union UNION {{groups[g].cols[c][k] : k \in 1 .. Len(groups[g].cols[c])} :
                    g \in 1 .. Len(groups)}

(* The units of a chunk lie one after the other from its first byte, and   *)
(* take up size bytes: what a reader that adds up the sizes relies on.     *)
Packed(units, size) ==
  /\ units # << >> => units[1].rel = 0
  /\ \A j \in 1 .. Len(units) - 1 : units[j + 1].rel = units[j].rel + units[j].size
  /\ EndOf(units) = size

(* The j-th unit of a chunk of column c is found by adding the sizes of    *)
(* the units before it to the chunk's offset.                              *)
ChunkPlaced(c, ch) ==
  /\ Packed(ch.units, ch.size)
  /\ \A j \in 1 .. Len(ch.units) :
       Extent(c, ch.units[j], ch.offset + ch.units[j].rel) \in disk

(* No byte is written twice: two extents of the file never overlap.        *)
ExtentsDisjoint ==
  \A e, f \in disk : e = f \/ e.at + e.size <= f.at \/ f.at + f.size <= e.at

(* Whatever calls fail, a chunk the metadata lists for a column points at  *)
(* bytes of that column which nothing has overwritten: what read_chunk and *)
(* the unit iterator of the decoders rely on.                              *)
ChunksPlaced ==
  /\ ExtentsDisjoint
  /\ \A c \in Columns : \A ch \in ListedChunks(c) : ChunkPlaced(c, ch)

(* Unless a call has failed, no written byte is lost: each extent belongs  *)
(* to a listed chunk or to the chunk being written.                        *)
NoOrphans ==
  ~failed => \A e \in disk :
    \/ out.units # << >> /\ e.at >= out.offset
    \/ \E ch \in ListedChunks(e.col) : /\ ch.offset <= e.at
                                      /\ e.at + e.size <= ch.offset + ch.size

(* Chunks of a row group lie behind the group's recorded offset and,       *)
(* unless a call has failed, before the offset of the next one (or of the  *)
(* current group).                                                         *)
GroupExtents ==
  \A g \in 1 .. Len(groups) :
    LET end == IF g = Len(groups) THEN start ELSE groups[g + 1].offset
    IN /\ groups[g].offset <= end
       /\ \A c \in Columns : \A k \in 1 .. Len(groups[g].cols[c]) :
            LET ch == groups[g].cols[c][k]
            IN /\ groups[g].offset <= ch.offset
               /\ ~failed => ch.offset + ch.size <= end

(* accumulated_size is the number of bytes the encoder buffers, and what   *)
(* is buffered never exceeds the desired chunk size, not even after calls  *)
(* that failed half way.                                                   *)
BufferBounded ==
  \A c \in Columns : /\ enc[c].accumulated_size = EndOf(enc[c].units)
                     /\ enc[c].accumulated_size <= ChunkSize

(* The file-level checksum has seen every byte written so far.             *)
ChecksumCovers == summed = pos
=============================================================================

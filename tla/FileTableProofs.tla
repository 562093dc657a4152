-------------------------- MODULE FileTableProofs ---------------------------
(***************************************************************************)
(* FileWriter implements Table: as long as no call fails, the rows that    *)
(* the chunks give back, group by group and column by column, are the rows *)
(* that were appended, and a group is cut exactly at the threshold; and    *)
(* the units of the columns of a group pair up.                            *)
(***************************************************************************)
EXTENDS FileTable, FileWriterProofs, SequenceLemmas

(* A row group that may take one more batch.                               *)
MayFill(n) == ~RowGroupFull(n) \/ n = 0

(* A flush that finish() did not ask for is one of a full row group; at    *)
(* any other time the row group being filled is not full.                  *)
CutInv ==
  /\ closing => pc \in {"flush", "writePending", "closed", "dead"}
  /\ pc \in {"flush", "writePending"} /\ ~closing => RowGroupFull(cur)
  /\ pc \in {"idle", "encode", "write"} \/ closing => MayFill(cur)

(* Every listed chunk has a unit.                                          *)
UnitsInv ==
  /\ \A c \in Columns : \A k \in 1 .. Len(metas[c]) : metas[c][k].units # << >>
  /\ \A g \in 1 .. Len(groups) : \A c \in Columns :
       \A k \in 1 .. Len(groups[g].cols[c]) : groups[g].cols[c][k].units # << >>

TableInv == (~failed => CutInv) /\ UnitsInv

-----------------------------------------------------------------------------
LEMMA CutStep ==
  ASSUME TInv, CutInv, [Next]_vars, ~failed'
  PROVE  CutInv'
<1> USE DEF CutInv
<1>1. rows \in Nat /\ cur \in Nat /\ batch \in Nat
  BY RowTypes
<1>2. CASE RejectBatch \/ LoseChunk \/ PanicInWrite \/ FailRowGroup
  BY <1>2 DEF RejectBatch, LoseChunk, PanicInWrite, FailRowGroup
<1>3. CASE Terminated \/ UNCHANGED vars
  BY <1>3 DEF Terminated, vars, rowVars
<1>4. ASSUME NEW n \in BatchRows, WriteBatch(n)
      PROVE  CutInv'
  BY <1>4 DEF WriteBatch, rowVars
<1>5. ASSUME NEW size \in UnitSizes, Encode(size)
      PROVE  CutInv'
  <2>1. pc = "encode" /\ pc' \in {"encode", "write"} /\ UNCHANGED <<rows, cur, closing>>
    BY <1>5 DEF Encode, rowVars
  <2>2. QED
    BY <2>1
<1>6. CASE NextColumn \/ WriteUnit
  BY <1>6 DEF NextColumn, WriteUnit, rowVars
<1>7. CASE EndBatch
  <2>1. pc = "encode" /\ UNCHANGED closing
        /\ (IF RowGroupFull(cur') THEN pc' = "flush" ELSE pc' = "idle")
    BY <1>7 DEF EndBatch
  <2>2. QED
    BY <2>1 DEF MayFill, RowGroupFull
<1>8. CASE EndChunk
  BY <1>8 DEF EndChunk, rowVars
<1>9. CASE FinishColumn
  BY <1>9 DEF FinishColumn, rowVars
<1>10. CASE FinishRowGroup
  BY <1>10 DEF FinishRowGroup, MayFill
<1>11. CASE Finish
  BY <1>11 DEF Finish, rowVars
<1>12. QED
  BY <1>2, <1>3, <1>4, <1>5, <1>6, <1>7, <1>8, <1>9, <1>10, <1>11 DEF Next, Step

(* A row group is added that has the listed chunks of the current one.     *)
LEMMA UnitsAdded ==
  ASSUME TInv, PosInv, UnitsInv, groups' = Append(groups, GroupMeta),
         metas' = [c \in Columns |-> << >>]
  PROVE  UnitsInv'
<1>1. GroupMeta \in Groups /\ groups \in Seq(Groups) /\ GroupMeta.cols = metas
  BY GroupMetaType DEF TInv, TypeOK, GroupMeta
<1>2. /\ Len(groups') = Len(groups) + 1 /\ Len(groups) \in Nat
      /\ groups'[Len(groups) + 1].cols = metas
      /\ \A g \in 1 .. Len(groups) : groups'[g] = groups[g]
  BY <1>1, AppendIs
<1>3. ASSUME NEW c \in Columns
      PROVE  1 .. Len(metas'[c]) = {}
  <2>1. metas'[c] = << >>
    OBVIOUS
  <2>2. QED
    BY <2>1
<1>4. ASSUME NEW g \in 1 .. Len(groups'), NEW c \in Columns,
             NEW k \in 1 .. Len(groups'[g].cols[c])
      PROVE  groups'[g].cols[c][k].units # << >>
  <2>1. g \in 1 .. Len(groups) \/ g = Len(groups) + 1
    BY <1>2
  <2>2. QED
    BY <1>2, <2>1 DEF UnitsInv
<1>5. QED
  BY <1>3, <1>4 DEF UnitsInv

LEMMA UnitsStep ==
  ASSUME TInv, PosInv, UnitsInv, [Next]_vars
  PROVE  UnitsInv'
<1>1. CASE UNCHANGED <<metas, groups>>
  BY <1>1 DEF UnitsInv
<1>2. CASE EndChunk
  <2> DEFINE m == ChunkMeta(out, pos)
  <2>1. /\ pc \in {"write", "writePending"} /\ UNCHANGED groups
        /\ metas' = [metas EXCEPT ![col] = Append(metas[col], m)]
    BY <1>2 DEF EndChunk, AddChunk
  <2>2. m \in Chunks /\ m.units # << >> /\ col \in Columns
    BY <2>1, ChunkMetaType DEF PosInv, TInv, CallInv, ChunkMeta
  <2> HIDE DEF m
  <2>3. metas \in [Columns -> Seq(Chunks)]
    BY DEF TInv, TypeOK
  <2>4. ASSUME NEW c \in Columns, NEW k \in 1 .. Len(metas'[c])
        PROVE  metas'[c][k].units # << >>
    <3>1. CASE c = col
      <4>1. metas'[c] = Append(metas[c], m) /\ metas[c] \in Seq(Chunks)
        BY <2>1, <2>3, <3>1
      <4>2. k \in 1 .. Len(metas[c]) \/ k = Len(metas[c]) + 1
        BY <2>2, <4>1, AppendIs
      <4>3. metas'[c][k] = m \/ (k \in 1 .. Len(metas[c]) /\ metas'[c][k] = metas[c][k])
        BY <2>2, <4>1, <4>2, AppendIs
      <4>4. QED
        BY <2>2, <4>3 DEF UnitsInv
    <3>2. CASE c # col
      BY <2>1, <2>3, <3>2 DEF UnitsInv
    <3>3. QED
      BY <3>1, <3>2
  <2>5. QED
    BY <2>1, <2>4 DEF UnitsInv
<1>3. CASE FinishRowGroup
  BY <1>3, UnitsAdded DEF FinishRowGroup
<1>4. CASE FailRowGroup
  BY <1>1, <1>4, UnitsAdded DEF FailRowGroup
<1>5. QED
  BY <1>1, <1>2, <1>3, <1>4
  DEF Next, Step, WriteBatch, Encode, NextColumn, RejectBatch, EndBatch, WriteUnit,
      LoseChunk, PanicInWrite, FinishColumn, Finish, Terminated, vars, tableVars

(* Everything the refinement needs to know of the writer.                  *)
WriterInv == TInv /\ PosInv /\ RowInv /\ TableInv

LEMMA WriterInvariant == Spec => []WriterInv
<1>1. Init => WriterInv
  <2> SUFFICES ASSUME Init PROVE TableInv
    BY TypeInit, RowInit DEF WriterInv
  <2>1. CutInv
    BY DEF Init, CutInv, MayFill
  <2>2. UnitsInv
    BY DEF Init, UnitsInv
  <2>3. QED
    BY <2>1, <2>2 DEF TableInv
<1>2. WriterInv /\ [Next]_vars => WriterInv'
  <2> SUFFICES ASSUME WriterInv, [Next]_vars PROVE WriterInv'
    OBVIOUS
  <2>1. TInv' /\ PosInv' /\ RowInv' /\ UnitsInv'
    BY TypeStep, RowStep, UnitsStep DEF WriterInv, TableInv
  <2>2. failed => failed'
    BY DEF Next, Step, WriteBatch, Encode, NextColumn, RejectBatch, EndBatch, WriteUnit,
       EndChunk, LoseChunk, PanicInWrite, FinishColumn, FinishRowGroup, FailRowGroup,
       Finish, Terminated, vars, histVars
  <2>3. ~failed' => CutInv'
    BY <2>2, CutStep DEF WriterInv, TableInv
  <2>4. QED
    BY <2>1, <2>3 DEF WriterInv, TableInv
<1>3. QED
  BY <1>1, <1>2, PTL DEF Spec
-----------------------------------------------------------------------------
(* What the reader gets back is the interval recorded for the group.       *)
Interval(gr) == [lo |-> gr.lo, hi |-> gr.lo + gr.rows]

LEMMA ReadGroupIs ==
  ASSUME TInv, RowInv, UnitsInv, ~failed, NEW g \in 1 .. Len(groups), NEW c \in Columns
  PROVE  ReadGroup(g, c) = Interval(groups[g])
<1> DEFINE chunks == groups[g].cols[c]
           n == Len(chunks)
           lo == groups[g].lo
           hi == groups[g].lo + groups[g].rows
<1>1. groups[g] \in Groups
  BY DEF TInv, TypeOK
<1>2. chunks \in Seq(Chunks) /\ lo \in Nat /\ hi \in Nat
  BY <1>1 DEF Groups
<1>3. /\ Chain(chunks, lo, hi)
      /\ \A k \in 1 .. n : /\ Chain(chunks[k].units, chunks[k].first,
                                   chunks[k].first + chunks[k].rows)
                          /\ chunks[k].units # << >>
  BY DEF RowInv, GroupsInv, UnitsInv
<1>4. CASE chunks = << >>
  BY <1>3, <1>4, SMTT(40) DEF Chain, ReadGroup, Interval
<1>5. CASE chunks # << >>
  <2>1. 1 \in 1 .. n /\ n \in 1 .. n
    BY <1>2, <1>5, SeqEnds
  <2>2. chunks[1].units[1].first = lo
    BY <1>3, <1>5, <2>1, SMTT(40) DEF Chain
  <2>3. LET last == chunks[n].units
        IN last[Len(last)].first + last[Len(last)].rows = hi
    BY <1>3, <1>5, <2>1 DEF Chain
  <2>4. QED
    BY <1>5, <2>2, <2>3, SMTT(40) DEF ReadGroup, Interval
<1>6. QED
  BY <1>4, <1>5

(* The same for the whole file.                                            *)
LEMMA ReadTableIs ==
  ASSUME TInv, RowInv, UnitsInv, ~failed
  PROVE  /\ ReadTable = [g \in 1 .. Len(groups) |-> [c \in Columns |-> Interval(groups[g])]]
         /\ Len(groups) \in Nat
         /\ T!Cutoff = rows - cur /\ T!Pending = cur
         /\ T!NewGroup = [c \in Columns |-> [lo |-> rows - cur, hi |-> rows]]
<1>1. ReadTable = [g \in 1 .. Len(groups) |-> [c \in Columns |-> Interval(groups[g])]]
  BY ReadGroupIs DEF ReadTable
<1>2. groups \in Seq(Groups) /\ Len(groups) \in Nat
  BY DEF TInv, TypeOK
<1>3. rows \in Nat /\ cur \in Nat
  BY RowTypes
<1>4. T!Cutoff = rows - cur
  <2>1. CASE groups = << >>
    <3>1. ReadTable = << >>
      BY <1>1, <2>1
    <3>2. QED
      BY <1>3, <2>1, <3>1 DEF RowInv, GroupsInv, T!Cutoff
  <2>2. CASE groups # << >>
    <3> DEFINE c0 == CHOOSE c \in Columns : TRUE
    <3>1. c0 \in Columns
      BY ColumnsAssumption DEF Columns
    <3>2. Len(groups) \in 1 .. Len(groups)
      BY <1>2, <2>2, SeqEnds
    <3>3. Len(ReadTable) = Len(groups) /\ ReadTable # << >>
      BY <1>1, <1>2, <3>2
    <3>4. ReadTable[Len(groups)][c0].hi = groups[Len(groups)].lo + groups[Len(groups)].rows
      BY <1>1, <3>1, <3>2 DEF Interval
    <3>5. QED
      BY <2>2, <3>3, <3>4 DEF RowInv, GroupsInv, T!Cutoff
  <2>3. QED
    BY <2>1, <2>2
<1>5. QED
  BY <1>1, <1>2, <1>3, <1>4 DEF T!Pending, T!NewGroup

(* A step that leaves the row groups alone leaves what is read alone.      *)
LEMMA ReadTableKept ==
  ASSUME UNCHANGED groups
  PROVE  UNCHANGED ReadTable
  BY DEF ReadTable, ReadGroup

(* Cutting a row group adds the pending rows to what is read.              *)
LEMMA ReadTableCut ==
  ASSUME WriterInv, WriterInv', ~failed, ~failed', FinishRowGroup
  PROVE  ReadTable' = Append(ReadTable, T!NewGroup)
<1> DEFINE n == Len(groups)
           row(gr) == [c \in Columns |-> Interval(gr)]
           new == [c \in Columns |-> [lo |-> rows - cur, hi |-> rows]]
<1>1. groups' = Append(groups, GroupMeta)
  BY DEF FinishRowGroup
<1>2. GroupMeta \in Groups /\ groups \in Seq(Groups) /\ rows \in Nat /\ cur \in Nat
  BY GroupMetaType, RowTypes DEF WriterInv, TInv, TypeOK
<1>3. /\ Len(groups') = n + 1 /\ n \in Nat /\ groups'[n + 1] = GroupMeta
      /\ \A g \in 1 .. n : groups'[g] = groups[g]
  BY <1>1, <1>2, AppendIs
<1>4. ReadTable = [g \in 1 .. n |-> row(groups[g])] /\ T!NewGroup = new
  BY ReadTableIs DEF WriterInv, TableInv
<1>5. ReadTable' = [g \in 1 .. n + 1 |-> row(groups'[g])]
  <2>1. (TInv /\ RowInv /\ UnitsInv /\ ~failed)'
    BY DEF WriterInv, TableInv
  <2>2. (ReadTable = [g \in 1 .. Len(groups) |-> [c \in Columns |-> Interval(groups[g])]])'
    BY <2>1, ReadTableIs, PTL
  <2>3. QED
    BY <1>3, <2>2
<1>6. row(groups'[n + 1]) = new
  BY <1>2, <1>3 DEF Interval, GroupMeta
<1>7. ReadTable \in Seq({row(groups[g]) : g \in 1 .. n}) /\ Len(ReadTable) = n
  BY <1>3, <1>4
<1> HIDE DEF row, new
<1>8. Append(ReadTable, new) = [g \in 1 .. n + 1 |-> IF g = n + 1 THEN new ELSE row(groups[g])]
  BY <1>3, <1>4, <1>7
<1>9. ASSUME NEW g \in 1 .. n + 1
      PROVE  row(groups'[g]) = IF g = n + 1 THEN new ELSE row(groups[g])
  <2>1. g = n + 1 \/ g \in 1 .. n
    BY <1>3
  <2>2. QED
    BY <1>3, <1>6, <2>1
<1>10. QED
  BY <1>4, <1>5, <1>8, <1>9

-----------------------------------------------------------------------------
(* Every step of the writer is a step of the table or changes nothing a    *)
(* reader sees.                                                            *)
LEMMA TableStep ==
  ASSUME WriterInv, WriterInv', ~failed, ~failed', [Next]_vars
  PROVE  [T!TableNext]_(T!tvars)
<1>1. T!Pending = cur /\ (T!Filling <=> MayFill(cur)) /\ rows \in Nat /\ cur \in Nat
  <2>1. TInv /\ RowInv /\ UnitsInv
    BY DEF WriterInv, TableInv
  <2>2. T!Pending = cur /\ rows \in Nat /\ cur \in Nat
    BY <2>1, ReadTableIs, RowTypes
  <2>3. QED
    BY <2>2, SizesAssumption DEF T!Filling, MayFill, RowGroupFull
<1>2. CutInv
  BY DEF WriterInv, TableInv
<1>3. ASSUME UNCHANGED <<rows, groups>>, (pc' = "closed") <=> (pc = "closed")
      PROVE  UNCHANGED T!tvars
  BY <1>3, ReadTableKept DEF T!tvars
<1>4. CASE EndBatch
  <2>1. /\ pc = "encode" /\ pc' \in {"flush", "idle"} /\ UNCHANGED groups
        /\ rows' = (rows + batch) % U32
    BY <1>4 DEF EndBatch, tableVars
  <2>2. batch \in BatchRows /\ rows + batch <= MaxRows /\ batch \in Nat
    BY <2>1, SizesAssumption DEF WriterInv, TInv, CallInv
  <2>3. rows' = rows + batch
    BY <1>1, <2>1, <2>2, ModSmall, U32Assumption
  <2>4. T!AppendRows(batch)
    BY <1>1, <1>2, <2>1, <2>3, ReadTableKept DEF CutInv, T!AppendRows
  <2>5. QED
    BY <2>2, <2>4 DEF T!TableNext
<1>5. CASE FinishRowGroup
  <2>1. ReadTable' = Append(ReadTable, T!NewGroup)
    BY <1>5, ReadTableCut
  <2>2. pc = "flush" /\ UNCHANGED rows /\ pc' = (IF closing THEN "closed" ELSE "idle")
    BY <1>5 DEF FinishRowGroup
  <2>3. CASE closing
    <3>1. T!CloseTable
      BY <1>1, <1>2, <2>1, <2>2, <2>3 DEF CutInv, T!CloseTable
    <3>2. QED
      BY <3>1 DEF T!TableNext
  <2>4. CASE ~closing
    <3>1. T!CutGroup
      BY <1>1, <1>2, <2>1, <2>2, <2>4 DEF CutInv, RowGroupFull, T!CutGroup
    <3>2. QED
      BY <3>1 DEF T!TableNext
  <2>5. QED
    BY <2>3, <2>4
<1>6. CASE RejectBatch \/ LoseChunk \/ PanicInWrite \/ FailRowGroup
  BY <1>6 DEF RejectBatch, LoseChunk, PanicInWrite, FailRowGroup
<1>7. CASE Terminated \/ UNCHANGED vars
  BY <1>3, <1>7 DEF Terminated, vars, rowVars, tableVars
<1>8. CASE Finish \/ \E n \in BatchRows : WriteBatch(n)
  BY <1>3, <1>8 DEF Finish, WriteBatch, rowVars, tableVars
<1>9. CASE (\E size \in UnitSizes : Encode(size)) \/ NextColumn \/ WriteUnit
  BY <1>3, <1>9 DEF Encode, NextColumn, WriteUnit, rowVars, tableVars
<1>10. CASE EndChunk \/ FinishColumn
  BY <1>3, <1>10 DEF EndChunk, FinishColumn, rowVars, tableVars
<1>11. QED
  BY <1>4, <1>5, <1>6, <1>7, <1>8, <1>9, <1>10 DEF Next, Step

(* A file that is written without a failing call, with whatever batches,   *)
(* chunk sizes and unit sizes, implements Table: the reader gets back the  *)
(* rows appended, group by group the same interval for every column, with  *)
(* a group cut by write_batch exactly at the threshold and one by finish.  *)
THEOREM FileImplementsTable == Spec /\ []~failed => FileIsTable
<1>1. Init => T!TableInit
  <2> SUFFICES ASSUME Init PROVE T!TableInit
    OBVIOUS
  <2>1. groups = << >> /\ rows = 0 /\ pc = "idle"
    BY DEF Init
  <2>2. ReadTable = << >>
    BY <2>1 DEF ReadTable
  <2>3. QED
    BY <2>1, <2>2 DEF T!TableInit
<1>2. WriterInv /\ WriterInv' /\ ~failed /\ ~failed' /\ [Next]_vars
        => [T!TableNext]_(T!tvars)
  BY TableStep
<1>3. QED
  BY <1>1, <1>2, WriterInvariant, PTL DEF Spec, FileIsTable, T!TableSpec

(* A writer whose encoder and file never fail, and that is never given a   *)
(* batch shorter than a custom encunit length, implements Table.           *)
THEOREM WriterImplementsTable ==
  ASSUME Faults = {}, \A n \in BatchRows : \A c \in Columns : n >= EncunitLen[c]
  PROVE  Spec => FileIsTable
<1>1. Init => ~failed
  BY DEF Init
<1>2. WriterInv /\ ~failed /\ [Next]_vars => ~failed'
  <2> SUFFICES ASSUME WriterInv, ~failed, [Next]_vars PROVE ~failed'
    OBVIOUS
  <2>1. ~RejectBatch
    <3> SUFFICES ASSUME RejectBatch PROVE FALSE
      OBVIOUS
    <3>1. pc = "encode" /\ col \in Columns /\ batch < EncunitLen[col]
      BY DEF RejectBatch
    <3>2. batch \in BatchRows
      BY <3>1 DEF WriterInv, TInv, CallInv
    <3>3. batch \in Nat /\ EncunitLen[col] \in Nat /\ batch >= EncunitLen[col]
      BY <3>1, <3>2, SizesAssumption, EncunitAssumption
    <3>4. QED
      BY <3>1, <3>3
  <2>2. ~LoseChunk /\ ~PanicInWrite /\ ~FailRowGroup
    BY DEF LoseChunk, PanicInWrite, FailRowGroup
  <2>3. QED
    BY <2>1, <2>2
    DEF Next, Step, WriteBatch, Encode, NextColumn, EndBatch, WriteUnit, EndChunk,
        FinishColumn, FinishRowGroup, Finish, Terminated, vars, histVars
<1>3. QED
  BY <1>1, <1>2, WriterInvariant, FileImplementsTable, PTL DEF Spec

-----------------------------------------------------------------------------
(***************************************************************************)
(* The units the reader pairs up.                                          *)
(***************************************************************************)
LEMMA UnitsOfEmpty == UnitsOf(<< >>) = << >>
<1>1. [k \in 1 .. Len(<< >>) |-> << >>[k].units] = << >>
  OBVIOUS
<1>2. QED
  BY <1>1, FlattenEmpty DEF UnitsOf

LEMMA UnitsOfAppend ==
  ASSUME NEW chunks \in Seq(Chunks), NEW m \in Chunks
  PROVE  /\ UnitsOf(chunks) \in Seq(Units) /\ m.units \in Seq(Units)
         /\ UnitsOf(Append(chunks, m)) = UnitsOf(chunks) \o m.units
<1> DEFINE n == Len(chunks)
           more == Append(chunks, m)
           s == [k \in 1 .. n |-> chunks[k].units]
           t == [k \in 1 .. n + 1 |-> more[k].units]
<1>1. /\ n \in Nat /\ more \in Seq(Chunks) /\ Len(more) = n + 1
      /\ more[n + 1] = m /\ \A k \in 1 .. n : more[k] = chunks[k] /\ chunks[k] \in Chunks
  BY AppendIs
<1>2. m.units \in Seq(Units) /\ \A k \in 1 .. n : chunks[k].units \in Seq(Units)
  BY <1>1 DEF Chunks
<1>3. s \in Seq(Seq(Units)) /\ Len(s) = n
  BY <1>1, <1>2
<1>4. t = Append(s, m.units)
  <2>1. \A k \in 1 .. n : t[k] = s[k]
    BY <1>1
  <2>2. t[n + 1] = m.units
    BY <1>1
  <2>3. t \in Seq(Seq(Units)) /\ Len(t) = n + 1
    <3>1. \A k \in 1 .. n + 1 : more[k].units \in Seq(Units)
      BY <1>1, <1>2
    <3> HIDE DEF more
    <3>2. QED
      BY <1>1, <3>1
  <2> HIDE DEF s, t, n, more
  <2>4. QED
    BY <1>1, <1>2, <1>3, <2>1, <2>2, <2>3
<1>5. UnitsOf(chunks) = FlattenSeq(s) /\ UnitsOf(more) = FlattenSeq(t)
  BY <1>1 DEF UnitsOf
<1> HIDE DEF s, t, n, more
<1>6. FlattenSeq(s) \in Seq(Units) /\ FlattenSeq(t) = FlattenSeq(s) \o m.units
  BY <1>2, <1>3, <1>4, FlattenType, FlattenAppend
<1>7. QED
  BY <1>2, <1>5, <1>6 DEF more

LEMMA UnitsOfType ==
  ASSUME NEW chunks \in Seq(Chunks)
  PROVE  UnitsOf(chunks) \in Seq(Units)
<1>1. Len(chunks) \in Nat /\ \A k \in 1 .. Len(chunks) : chunks[k] \in Chunks
  OBVIOUS
<1>2. \A k \in 1 .. Len(chunks) : chunks[k].units \in Seq(Units)
  BY <1>1 DEF Chunks
<1> DEFINE s == [k \in 1 .. Len(chunks) |-> chunks[k].units]
<1>3. s \in Seq(Seq(Units))
  BY <1>1, <1>2
<1> HIDE DEF s
<1>4. FlattenSeq(s) \in Seq(Units)
  BY <1>3, FlattenType
<1>5. QED
  BY <1>4 DEF s, UnitsOf

(* The units of column c in the row group being filled: listed, on their   *)
(* way to the file, and buffered.                                          *)
OutUnits(c) == IF Writing /\ c = col THEN out.units ELSE << >>
CurUnits(c) == (UnitsOf(metas[c]) \o OutUnits(c)) \o enc[c].units

(* How many units of the current batch column c has been given.            *)
Encoded(c) ==
  IF pc \notin {"encode", "write"} \/ c > col THEN 0
  ELSE IF c < col THEN SliceCount(c, batch)
  ELSE SliceCount(c, batch) - slices

(* How many units of the row group come from the batches before.           *)
Whole == Len(CurUnits(1)) - Encoded(1)

SameEncunitLen == \A c \in Columns : EncunitLen[c] = EncunitLen[1]
SameRows(u, v) == u.first = v.first /\ u.rows = v.rows

(* All columns have the same units of the batches before; of the current   *)
(* batch each has its share, cut at the same rows.                         *)
CurPair ==
  /\ Whole \in Nat
  /\ pc \in {"encode", "write"} /\ col \in Columns => slices <= SliceCount(col, batch)
  /\ \A c \in Columns :
       /\ Len(CurUnits(c)) = Whole + Encoded(c)
       /\ \A i \in 1 .. Whole : SameRows(CurUnits(c)[i], CurUnits(1)[i])
       /\ \A j \in 1 .. Encoded(c) :
            /\ CurUnits(c)[Whole + j].first = rows + (j - 1) * SliceRows(1, batch)
            /\ CurUnits(c)[Whole + j].rows = SliceRows(1, batch)

PairsUp(cols) ==
  \A c \in Columns :
    LET a == UnitsOf(cols[1])
        b == UnitsOf(cols[c])
    IN /\ Len(a) = Len(b)
       /\ \A i \in 1 .. Len(a) : a[i].first = b[i].first /\ a[i].rows = b[i].rows

GroupsPair == \A g \in 1 .. Len(groups) : PairsUp(groups[g].cols)

PairInv == ~failed /\ SameEncunitLen => CurPair /\ GroupsPair

LEMMA ConcatEmpty ==
  ASSUME NEW S, NEW a \in Seq(S)
  PROVE  a \o << >> = a /\ << >> \o a = a
  OBVIOUS

LEMMA CurTypes ==
  ASSUME TInv, NEW c \in Columns
  PROVE  /\ UnitsOf(metas[c]) \in Seq(Units) /\ OutUnits(c) \in Seq(Units)
         /\ enc[c].units \in Seq(Units)
         /\ CurUnits(c) \in Seq(Units) /\ Len(CurUnits(c)) \in Nat
<1>1. UnitsOf(metas[c]) \in Seq(Units) /\ enc[c].units \in Seq(Units)
  BY RowTypes, UnitsOfType
<1>2. OutUnits(c) \in Seq(Units)
  BY RowTypes DEF OutUnits
<1> DEFINE a == UnitsOf(metas[c])
           b == OutUnits(c)
           d == enc[c].units
<1>3. a \in Seq(Units) /\ b \in Seq(Units) /\ d \in Seq(Units)
  BY <1>1, <1>2
<1>4. CurUnits(c) = (a \o b) \o d
  BY DEF CurUnits
<1> HIDE DEF a, b, d
<1>5. a \o b \in Seq(Units)
  BY <1>3
<1>6. (a \o b) \o d \in Seq(Units)
  BY <1>3, <1>5
<1>7. CurUnits(c) \in Seq(Units)
  BY <1>4, <1>6
<1>8. Len(CurUnits(c)) \in Nat
  BY <1>7
<1>9. QED
  BY <1>1, <1>2, <1>7, <1>8

(* Steps that move units on but make none.                                 *)
LEMMA CurKept ==
  ASSUME CurPair, \A c \in Columns : CurUnits(c)' = CurUnits(c),
         \A c \in Columns : Encoded(c)' = Encoded(c),
         UNCHANGED <<rows, batch>> \/ \A c \in Columns : Encoded(c) = 0,
         pc' \in {"encode", "write"} /\ col' \in Columns
           => slices' <= SliceCount(col', batch')
  PROVE  CurPair'
<1>0. 1 \in Columns
  BY ColumnsAssumption DEF Columns
<1>1. Whole' = Whole
  BY <1>0 DEF Whole
<1>2. ASSUME NEW c \in Columns
      PROVE  /\ Len(CurUnits(c)') = Whole + Encoded(c)
             /\ \A i \in 1 .. Whole : SameRows(CurUnits(c)'[i], CurUnits(1)'[i])
  BY <1>0 DEF CurPair
<1>3. ASSUME NEW c \in Columns, NEW j \in 1 .. Encoded(c)'
      PROVE  /\ CurUnits(c)'[Whole + j].first = rows' + (j - 1) * SliceRows(1, batch')
             /\ CurUnits(c)'[Whole + j].rows = SliceRows(1, batch')
  <2>1. j \in 1 .. Encoded(c)
    OBVIOUS
  <2>2. Encoded(c) # 0
    BY <2>1
  <2>3. rows' = rows /\ batch' = batch
    BY <2>2
  <2>4. QED
    BY <2>1, <2>3 DEF CurPair
<1>4. QED
  BY <1>1, <1>2, <1>3 DEF CurPair

(* A chunk that is neither made nor moved.                                 *)
LEMMA CurSame ==
  ASSUME TInv, UNCHANGED <<enc, metas>>, ~Writing, ~Writing'
  PROVE  \A c \in Columns : CurUnits(c)' = CurUnits(c)
  BY DEF CurUnits, OutUnits

LEMMA PairWriteBatch ==
  ASSUME TInv, CurPair, NEW n \in BatchRows, WriteBatch(n)
  PROVE  CurPair'
<1>1. /\ pc = "idle" /\ pc' = "encode" /\ col' = 1 /\ batch' = n
      /\ slices' = SliceCount(1, n) /\ UNCHANGED <<enc, metas, rows>>
  BY DEF WriteBatch, tableVars, rowVars
<1>2. 1 \in Columns /\ \A c \in Columns : c \in Nat /\ (c = 1 \/ c > 1)
  BY ColumnsAssumption DEF Columns
<1>3. SliceCount(1, n) \in Nat
  BY <1>2, SliceType
<1>4. \A c \in Columns : CurUnits(c)' = CurUnits(c)
  BY <1>1, CurSame DEF Writing
<1>5. \A c \in Columns : Encoded(c) = 0
  BY <1>1 DEF Encoded
<1>6. \A c \in Columns : Encoded(c)' = 0
  <2> SUFFICES ASSUME NEW c \in Columns PROVE Encoded(c)' = 0
    OBVIOUS
  <2>1. CASE c = 1
    BY <1>1, <1>3, <2>1 DEF Encoded
  <2>2. CASE c > 1
    BY <1>1, <2>2 DEF Encoded
  <2>3. QED
    BY <1>2, <2>1, <2>2
<1>7. slices' <= SliceCount(col', batch')
  BY <1>1, <1>3
<1>8. QED
  BY <1>4, <1>5, <1>6, <1>7, CurKept

LEMMA PairNextColumn ==
  ASSUME TInv, CurPair, NextColumn
  PROVE  CurPair'
<1>1. /\ pc = "encode" /\ pc' = "encode" /\ col \in Columns /\ col' = col + 1
      /\ slices = 0
      /\ slices' = IF col + 1 \in Columns THEN SliceCount(col + 1, batch) ELSE 0
      /\ UNCHANGED <<batch, enc, metas, rows>>
  BY DEF NextColumn, tableVars, rowVars
<1>2. batch \in BatchRows /\ \A c \in Columns : c \in Nat /\ SliceCount(c, batch) \in Nat
  BY <1>1, SliceType, RowTypes DEF TInv, CallInv
<1>3. \A c \in Columns : CurUnits(c)' = CurUnits(c)
  BY <1>1, CurSame DEF Writing
<1>4. \A c \in Columns : Encoded(c)' = Encoded(c)
  <2> SUFFICES ASSUME NEW c \in Columns PROVE Encoded(c)' = Encoded(c)
    OBVIOUS
  <2>1. c \in Nat /\ col \in Nat /\ SliceCount(c, batch) \in Nat
    BY <1>1, <1>2
  <2>2. CASE c < col
    BY <1>1, <2>1, <2>2 DEF Encoded
  <2>3. CASE c = col
    BY <1>1, <2>1, <2>3 DEF Encoded
  <2>4. CASE c = col + 1
    BY <1>1, <2>1, <2>4 DEF Encoded
  <2>5. CASE c > col + 1
    BY <1>1, <2>1, <2>5 DEF Encoded
  <2>6. QED
    BY <2>1, <2>2, <2>3, <2>4, <2>5
<1>5. col' \in Columns => slices' <= SliceCount(col', batch')
  BY <1>1, <1>2
<1>6. QED
  BY <1>1, <1>3, <1>4, <1>5, CurKept

LEMMA PairFinish ==
  ASSUME TInv, CurPair, Finish
  PROVE  CurPair'
<1>1. pc = "idle" /\ pc' = "flush" /\ UNCHANGED <<batch, enc, metas, rows>>
  BY DEF Finish, tableVars, rowVars
<1>2. \A c \in Columns : CurUnits(c)' = CurUnits(c)
  BY <1>1, CurSame DEF Writing
<1>3. \A c \in Columns : Encoded(c)' = Encoded(c)
  BY <1>1 DEF Encoded
<1>4. QED
  BY <1>1, <1>2, <1>3, CurKept

LEMMA PairWriteUnit ==
  ASSUME TInv, CurPair, WriteUnit
  PROVE  CurPair'
<1>1. UNCHANGED <<pc, col, slices, batch, enc, metas, rows>>
  BY DEF WriteUnit, callVars, tableVars, rowVars
<1>2. out \in OutChunks /\ out.written + 1 \in Nat /\ out' = [out EXCEPT !.written = out.written + 1]
  BY SMTT(40) DEF WriteUnit, TInv, TypeOK, OutChunks
<1>3. out'.units = out.units
  BY <1>2, WrittenIs
<1>4. \A c \in Columns : CurUnits(c)' = CurUnits(c)
  BY <1>1, <1>3 DEF CurUnits, OutUnits, Writing
<1>5. \A c \in Columns : Encoded(c)' = Encoded(c)
  BY <1>1 DEF Encoded
<1>6. QED
  BY <1>1, <1>4, <1>5, CurKept DEF CurPair

LEMMA PairEndChunk ==
  ASSUME TInv, PosInv, CurPair, EndChunk
  PROVE  CurPair'
<1> DEFINE m == ChunkMeta(out, pos)
<1>1. /\ pc \in {"write", "writePending"} /\ col \in Columns
      /\ metas' = [metas EXCEPT ![col] = Append(metas[col], m)]
      /\ pc = "write" => pc' = "encode" /\ col' = col
      /\ pc = "writePending" => pc' = "flush"
      /\ UNCHANGED <<batch, slices, enc, rows>>
  BY DEF EndChunk, AddChunk, rowVars, TInv, CallInv
<1>2. m \in Chunks /\ m.units = out.units
  BY <1>1, ChunkMetaType DEF PosInv, ChunkMeta
<1> HIDE DEF m
<1>3. ~Writing' /\ Writing
  BY <1>1 DEF Writing
<1>4. ASSUME NEW c \in Columns
      PROVE  CurUnits(c)' = CurUnits(c)
  <2>1. OutUnits(c)' = << >>
    BY <1>3 DEF OutUnits
  <2>2. CASE c = col
    <3>1. metas'[c] = Append(metas[c], m) /\ metas[c] \in Seq(Chunks)
      BY <1>1, <2>2, RowTypes DEF TInv, TypeOK
    <3>2. UnitsOf(metas'[c]) = UnitsOf(metas[c]) \o OutUnits(c)
      <4>1. OutUnits(c) = m.units
        BY <1>2, <1>3, <2>2 DEF OutUnits
      <4>2. QED
        BY <1>2, <3>1, <4>1, UnitsOfAppend
    <3> DEFINE a == UnitsOf(metas[c])
               b == OutUnits(c)
    <3>3. a \in Seq(Units) /\ b \in Seq(Units)
      BY CurTypes
    <3>4. UnitsOf(metas'[c]) = a \o b
      BY <3>2
    <3> HIDE DEF a, b
    <3>5. a \o b \in Seq(Units)
      BY <3>3
    <3>6. (a \o b) \o << >> = a \o b
      BY <3>5, ConcatEmpty
    <3>7. CurUnits(c)' = (UnitsOf(metas'[c]) \o << >>) \o enc[c].units
      BY <1>1, <2>1 DEF CurUnits
    <3>8. QED
      BY <3>4, <3>6, <3>7 DEF CurUnits, a, b
  <2>3. CASE c # col
    <3>1. metas'[c] = metas[c] /\ OutUnits(c) = << >>
      BY <1>1, <2>3 DEF TInv, TypeOK, OutUnits
    <3>2. QED
      BY <1>1, <2>1, <3>1 DEF CurUnits
  <2>4. QED
    BY <2>2, <2>3
<1>5. \A c \in Columns : Encoded(c)' = Encoded(c)
  BY <1>1 DEF Encoded
<1>6. QED
  BY <1>1, <1>4, <1>5, CurKept DEF CurPair

LEMMA PairFinishColumn ==
  ASSUME TInv, CurPair, FinishColumn
  PROVE  CurPair'
<1>1. /\ pc = "flush" /\ col \in Columns /\ UNCHANGED <<batch, metas, rows>>
      /\ pc' \in {"flush", "writePending"}
  BY DEF FinishColumn, tableVars, rowVars
<1>2. \A c \in Columns : OutUnits(c) = << >>
  BY <1>1 DEF OutUnits, Writing
<1>3. ASSUME NEW c \in Columns
      PROVE  CurUnits(c)' = CurUnits(c)
  <2>1. CASE enc[col].units = << >>
    <3>1. pc' = "flush" /\ enc' = enc
      BY <1>1, <2>1 DEF FinishColumn
    <3>2. OutUnits(c)' = << >>
      BY <3>1 DEF OutUnits, Writing
    <3>3. QED
      BY <1>1, <1>2, <3>1, <3>2 DEF CurUnits
  <2>2. CASE enc[col].units # << >>
    <3>1. /\ enc' = [enc EXCEPT ![col] = EmptyEncoder] /\ out' = TakeChunk(enc[col])
          /\ pc' = "writePending" /\ col' = col
      BY <2>2 DEF FinishColumn
    <3>2. enc'[col] = EmptyEncoder /\ (c # col => enc'[c] = enc[c])
      BY <1>1, <3>1 DEF TInv, TypeOK
    <3>3. CASE c = col
      <4>1. OutUnits(c)' = enc[c].units /\ enc'[c].units = << >>
        BY <3>1, <3>2, <3>3 DEF OutUnits, Writing, TakeChunk, EmptyEncoder
      <4> DEFINE a == UnitsOf(metas[c])
                 d == enc[c].units
      <4>2. a \in Seq(Units) /\ d \in Seq(Units)
        BY CurTypes
      <4>3. CurUnits(c)' = (a \o d) \o << >>
        BY <1>1, <4>1 DEF CurUnits
      <4>4. CurUnits(c) = (a \o << >>) \o d
        BY <1>2 DEF CurUnits
      <4> HIDE DEF a, d
      <4>5. a \o d \in Seq(Units) /\ a \o << >> = a
        BY <4>2, ConcatEmpty
      <4>6. (a \o d) \o << >> = a \o d
        BY <4>5, ConcatEmpty
      <4>7. QED
        BY <4>3, <4>4, <4>5, <4>6
    <3>4. CASE c # col
      <4>1. OutUnits(c)' = << >>
        BY <3>1, <3>4 DEF OutUnits
      <4>2. QED
        BY <1>1, <1>2, <3>2, <3>4, <4>1 DEF CurUnits
    <3>5. QED
      BY <3>3, <3>4
  <2>3. QED
    BY <2>1, <2>2
<1>4. \A c \in Columns : Encoded(c)' = Encoded(c)
  BY <1>1 DEF Encoded
<1>5. QED
  BY <1>1, <1>3, <1>4, CurKept

(* One encode() appends one unit to its column and leaves the others.      *)
LEMMA CurEncode ==
  ASSUME TInv, NEW size \in UnitSizes, Encode(size)
  PROVE  LET u == NewUnit(col, SliceRows(col, batch), size)
         IN /\ u \in Units /\ u.first = next[col] /\ u.rows = SliceRows(col, batch)
            /\ CurUnits(col)' = Append(CurUnits(col), u)
            /\ \A c \in Columns : c # col => CurUnits(c)' = CurUnits(c)
<1> DEFINE r == SliceRows(col, batch)
           u == NewUnit(col, r, size)
           full == Accumulate(enc[col], u)
<1>1. pc = "encode" /\ col \in Columns /\ UNCHANGED <<col, metas>>
  BY DEF Encode, tableVars
<1>2. r \in Nat
  BY <1>1, SliceType DEF TInv, CallInv
<1>3. u \in Units /\ full.units = Append(enc[col].units, u)
  BY <1>1, <1>2, AccumulateType DEF TInv, TypeOK, Accumulate
<1>4. u.first = next[col] /\ u.rows = r
  BY DEF NewUnit
<1>5. \A c \in Columns : OutUnits(c) = << >>
  BY <1>1 DEF OutUnits, Writing
<1>6. \/ enc' = [enc EXCEPT ![col] = EmptyEncoder] /\ out' = TakeChunk(full) /\ pc' = "write"
      \/ enc' = [enc EXCEPT ![col] = full] /\ pc' = "encode"
  BY <1>1 DEF Encode
<1>7. \A c \in Columns : c # col => enc'[c] = enc[c] /\ OutUnits(c)' = << >>
  BY <1>1, <1>6 DEF TInv, TypeOK, OutUnits
<1>8. \A c \in Columns : c # col => CurUnits(c)' = CurUnits(c)
  BY <1>1, <1>5, <1>7 DEF CurUnits
<1> DEFINE a == UnitsOf(metas[col])
           d == enc[col].units
<1>9. a \in Seq(Units) /\ d \in Seq(Units) /\ UnitsOf(metas'[col]) = a
  BY <1>1, CurTypes
<1>10. CurUnits(col) = (a \o << >>) \o d
  BY <1>1, <1>5 DEF CurUnits
<1>11. \/ CurUnits(col)' = (a \o Append(d, u)) \o << >>
       \/ CurUnits(col)' = (a \o << >>) \o Append(d, u)
  <2>1. CASE enc' = [enc EXCEPT ![col] = EmptyEncoder] /\ out' = TakeChunk(full) /\ pc' = "write"
    <3>1. enc'[col] = EmptyEncoder
      BY <1>1, <2>1 DEF TInv, TypeOK
    <3>2. enc'[col].units = << >>
      BY <3>1 DEF EmptyEncoder
    <3>3. out'.units = full.units
      BY <2>1 DEF TakeChunk
    <3> HIDE DEF u, full
    <3>4. OutUnits(col)' = Append(d, u)
      BY <1>1, <1>3, <2>1, <3>3 DEF OutUnits, Writing
    <3>5. QED
      BY <1>1, <1>9, <3>2, <3>4 DEF CurUnits
  <2>2. CASE enc' = [enc EXCEPT ![col] = full] /\ pc' = "encode"
    <3> HIDE DEF u, full
    <3>1. enc'[col] = full
      BY <1>1, <2>2 DEF TInv, TypeOK
    <3>2. OutUnits(col)' = << >>
      BY <2>2 DEF OutUnits, Writing
    <3>3. QED
      BY <1>1, <1>3, <1>9, <3>1, <3>2 DEF CurUnits
  <2>3. QED
    BY <1>6, <2>1, <2>2
<1> HIDE DEF u, full, a, d
<1>12. Append(d, u) \in Seq(Units) /\ a \o << >> = a
  BY <1>3, <1>9, ConcatEmpty
<1>13. a \o Append(d, u) \in Seq(Units)
  BY <1>9, <1>12, Concat
<1>14. (a \o Append(d, u)) \o << >> = a \o Append(d, u)
  BY <1>13, ConcatEmpty
<1>15. a \o Append(d, u) = Append(a \o d, u)
  BY <1>3, <1>9, ConcatAppend
<1>16. CurUnits(col)' = Append(CurUnits(col), u)
  BY <1>10, <1>11, <1>12, <1>14, <1>15
<1>17. QED
  BY <1>3, <1>4, <1>8, <1>16 DEF u

(* How far the batch has been handed over, in rows and in units.           *)
LEMMA SlicesHanded ==
  ASSUME NEW n \in Nat, NEW r \in Nat, NEW s \in Nat, s <= n
  PROVE  n * r - s * r = (n - s) * r
  OBVIOUS

LEMMA PairEncode ==
  ASSUME TInv, RowInv, ~failed, SameEncunitLen, CurPair, NEW size \in UnitSizes, Encode(size)
  PROVE  CurPair'
<1> DEFINE r == SliceRows(1, batch)
           n == SliceCount(col, batch)
           k == Encoded(col)
           U == CurUnits(col)
           w == Whole
<1>1. /\ pc = "encode" /\ pc' \in {"encode", "write"} /\ col \in Columns /\ slices > 0
      /\ slices' = slices - 1 /\ UNCHANGED <<col, batch, rows>>
  BY DEF Encode, rowVars
<1>2. /\ batch \in BatchRows /\ n \in Nat /\ slices \in Nat /\ slices <= n
      /\ 1 \in Columns /\ \A c \in Columns : c \in Nat /\ SliceCount(c, batch) \in Nat
  BY <1>1, SliceType, RowTypes, ColumnsAssumption, SMTT(40) DEF TInv, CallInv, CurPair, Columns
<1>3. r \in Nat /\ SliceRows(col, batch) = r
  BY <1>1, <1>2, SliceType DEF SliceRows, SameEncunitLen
<1>4. k = n - slices /\ k \in Nat /\ Encoded(col)' = k + 1
  <2>1. k = n - slices /\ Encoded(col)' = n - (slices - 1)
    BY <1>1, <1>2 DEF Encoded
  <2>2. QED
    BY <1>1, <1>2, <2>1
<1>5. \A c \in Columns : c # col => Encoded(c)' = Encoded(c)
  BY <1>1, <1>2 DEF Encoded
<1>6. PICK u \in Units : /\ u.first = next[col] /\ u.rows = r
                         /\ CurUnits(col)' = Append(U, u)
                         /\ \A c \in Columns : c # col => CurUnits(c)' = CurUnits(c)
  BY <1>3, CurEncode
<1>7. next[col] = rows + k * r
  <2>1. next[col] = rows + (batch - slices * r)
    BY <1>1, <1>2, <1>3 DEF RowInv, HandedInv, Handed
  <2>2. batch = n * r
    BY <1>1, <1>2, <1>3, SlicesCover
  <2>3. n * r - slices * r = (n - slices) * r
    BY <1>2, <1>3, SlicesHanded
  <2> HIDE DEF n, r, k
  <2>4. QED
    BY <1>4, <2>1, <2>2, <2>3
<1>8. U \in Seq(Units) /\ Len(U) = w + k /\ w \in Nat
  BY <1>1, CurTypes DEF CurPair
<1> HIDE DEF r, n, k, U, w
<1>9. /\ Len(CurUnits(col)') = (w + k) + 1 /\ CurUnits(col)'[(w + k) + 1] = u
      /\ \A i \in 1 .. w + k : CurUnits(col)'[i] = U[i]
  BY <1>6, <1>8, AppendIs
<1>10. \A c \in Columns : Encoded(c) \in Nat /\ Len(CurUnits(c)) = w + Encoded(c)
  <2>1. \A c \in Columns : Len(CurUnits(c)) = w + Encoded(c)
    BY DEF CurPair, w
  <2>2. \A c \in Columns : Encoded(c) \in Nat
    <3> SUFFICES ASSUME NEW c \in Columns PROVE Encoded(c) \in Nat
      OBVIOUS
    <3>1. CASE c = col
      BY <1>4, <3>1 DEF k
    <3>2. CASE c # col
      BY <1>1, <1>2, <3>2 DEF Encoded
    <3>3. QED
      BY <3>1, <3>2
  <2>3. QED
    BY <2>1, <2>2
<1>11. Whole' = w
  <2>1. CASE col = 1
    <3>1. Whole' = ((w + k) + 1) - (k + 1)
      BY <1>1, <1>4, <1>9, <2>1 DEF Whole
    <3>2. QED
      BY <1>4, <1>8, <3>1
  <2>2. CASE col # 1
    BY <1>2, <1>5, <1>6, <2>2 DEF Whole, w
  <2>3. QED
    BY <2>1, <2>2
<1>12. \A c \in Columns : \A i \in 1 .. w : CurUnits(c)'[i] = CurUnits(c)[i]
  <2> SUFFICES ASSUME NEW c \in Columns, NEW i \in 1 .. w PROVE CurUnits(c)'[i] = CurUnits(c)[i]
    OBVIOUS
  <2>1. CASE c = col
    <3>1. i \in 1 .. w + k
      BY <1>4, <1>8
    <3>2. QED
      BY <1>1, <1>9, <2>1, <3>1 DEF U
  <2>2. CASE c # col
    BY <1>6, <2>2
  <2>3. QED
    BY <2>1, <2>2
<1>13. \A c \in Columns : \A i \in 1 .. w : SameRows(CurUnits(c)'[i], CurUnits(1)'[i])
  <2>1. \A c \in Columns : \A i \in 1 .. w : SameRows(CurUnits(c)[i], CurUnits(1)[i])
    BY DEF CurPair, w
  <2>2. QED
    BY <1>2, <1>12, <2>1
<1>14. \A c \in Columns : Len(CurUnits(c)') = w + Encoded(c)'
  <2> SUFFICES ASSUME NEW c \in Columns PROVE Len(CurUnits(c)') = w + Encoded(c)'
    OBVIOUS
  <2>1. CASE c = col
    BY <1>1, <1>4, <1>8, <1>9, <2>1
  <2>2. CASE c # col
    BY <1>5, <1>6, <1>10, <2>2
  <2>3. QED
    BY <2>1, <2>2
<1>15. ASSUME NEW c \in Columns, NEW j \in 1 .. Encoded(c)'
       PROVE  /\ CurUnits(c)'[w + j].first = rows + (j - 1) * r
              /\ CurUnits(c)'[w + j].rows = r
  <2>1. \A d \in Columns : \A i \in 1 .. Encoded(d) :
          /\ CurUnits(d)[w + i].first = rows + (i - 1) * r
          /\ CurUnits(d)[w + i].rows = r
    BY DEF CurPair, w, r
  <2>2. CASE c # col
    <3>1. j \in 1 .. Encoded(c) /\ CurUnits(c)' = CurUnits(c)
      BY <1>5, <1>6, <2>2
    <3>2. QED
      BY <2>1, <3>1
  <2>3. CASE c = col /\ j # k + 1
    <3>1. j \in 1 .. k /\ k = Encoded(c)
      BY <1>1, <1>4, <2>3 DEF k
    <3>2. w + j \in 1 .. w + k
      BY <1>4, <1>8, <3>1
    <3>3. CurUnits(c)'[w + j] = CurUnits(c)[w + j]
      BY <1>1, <1>9, <2>3, <3>2 DEF U
    <3>4. QED
      BY <2>1, <3>1, <3>3
  <2>4. CASE c = col /\ j = k + 1
    <3>1. w + j = (w + k) + 1 /\ j - 1 = k
      BY <1>4, <1>8, <2>4
    <3>2. CurUnits(c)'[w + j] = u
      BY <1>1, <1>9, <2>4, <3>1
    <3>3. QED
      BY <1>6, <1>7, <3>1, <3>2
  <2>5. QED
    BY <2>2, <2>3, <2>4
<1>16. slices' <= SliceCount(col', batch')
  BY <1>1, <1>2 DEF n
<1>17. QED
  BY <1>1, <1>8, <1>11, <1>13, <1>14, <1>15, <1>16 DEF CurPair, r

LEMMA PairEndBatch ==
  ASSUME TInv, SameEncunitLen, CurPair, EndBatch
  PROVE  CurPair'
<1> DEFINE r == SliceRows(1, batch)
           n == SliceCount(1, batch)
           w == Whole
<1>1. /\ pc = "encode" /\ col \notin Columns /\ pc' \in {"idle", "flush"}
      /\ UNCHANGED <<enc, metas>>
  BY DEF EndBatch, tableVars
<1>2. /\ 1 \in Columns /\ batch \in BatchRows
      /\ \A c \in Columns : c \in Nat /\ c < col /\ SliceCount(c, batch) = n
  BY <1>1, ColumnsAssumption DEF TInv, TypeOK, CallInv, Columns, SameEncunitLen, SliceCount
<1>3. n \in Nat /\ r \in Nat /\ w \in Nat
  BY <1>2, SliceType DEF CurPair
<1>4. \A c \in Columns : Encoded(c) = n /\ Encoded(c)' = 0
  <2>1. \A c \in Columns : Encoded(c)' = 0
    BY <1>1 DEF Encoded
  <2>2. col \in Nat
    BY ColumnsAssumption DEF TInv, TypeOK
  <2>3. \A c \in Columns : Encoded(c) = SliceCount(c, batch)
    BY <1>1, <1>2, <2>2 DEF Encoded
  <2>4. QED
    BY <1>2, <2>1, <2>3
<1>5. \A c \in Columns : CurUnits(c)' = CurUnits(c)
  BY <1>1, CurSame DEF Writing
<1> HIDE DEF n, r, w
<1>6. \A c \in Columns : Len(CurUnits(c)) = w + n
  BY <1>4 DEF CurPair, w
<1>7. Whole' = w + n
  <2>1. Whole' = (w + n) - 0
    BY <1>2, <1>4, <1>5, <1>6 DEF Whole
  <2>2. QED
    BY <1>3, <2>1
<1>8. ASSUME NEW c \in Columns, NEW i \in 1 .. w + n
      PROVE  SameRows(CurUnits(c)[i], CurUnits(1)[i])
  <2>1. CASE i \in 1 .. w
    BY <2>1 DEF CurPair, w
  <2>2. CASE i \notin 1 .. w
    <3> DEFINE j == i - w
    <3>1. j \in 1 .. n /\ w + j = i
      BY <1>3, <2>2
    <3> HIDE DEF j
    <3>2. \A d \in Columns : /\ CurUnits(d)[w + j].first = rows + (j - 1) * r
                             /\ CurUnits(d)[w + j].rows = r
      BY <1>4, <3>1 DEF CurPair, w, r
    <3>3. QED
      BY <1>2, <3>1, <3>2 DEF SameRows
  <2>3. QED
    BY <2>1, <2>2
<1>9. ASSUME NEW c \in Columns
      PROVE  /\ Len(CurUnits(c)') = Whole' + Encoded(c)'
             /\ \A i \in 1 .. Whole' : SameRows(CurUnits(c)'[i], CurUnits(1)'[i])
             /\ 1 .. Encoded(c)' = {}
  <2>1. Len(CurUnits(c)') = (w + n) + 0 /\ w + n \in Nat
    BY <1>3, <1>5, <1>6
  <2>2. QED
    BY <1>2, <1>4, <1>5, <1>7, <1>8, <2>1
<1>10. Whole' \in Nat /\ pc' \notin {"encode", "write"}
  BY <1>1, <1>3, <1>7
<1>11. QED
  BY <1>9, <1>10 DEF CurPair

LEMMA PairFinishRowGroup ==
  ASSUME TInv, PosInv, RowInv, ~failed, CurPair, GroupsPair, FinishRowGroup
  PROVE  CurPair' /\ GroupsPair'
<1>1. /\ pc = "flush" /\ col \notin Columns /\ pc' \in {"idle", "closed"}
      /\ groups' = Append(groups, GroupMeta) /\ metas' = [c \in Columns |-> << >>]
      /\ UNCHANGED enc
  BY DEF FinishRowGroup
<1>2. 1 \in Columns /\ \A c \in Columns : c \in Nat /\ c < col
  BY <1>1, ColumnsAssumption DEF TInv, TypeOK, Columns
<1>3. \A c \in Columns : enc[c].units = << >>
  BY <1>1, <1>2 DEF RowInv, FlushInv
<1>4. \A c \in Columns : /\ OutUnits(c) = << >> /\ OutUnits(c)' = << >>
                         /\ Encoded(c) = 0 /\ Encoded(c)' = 0
  BY <1>1 DEF OutUnits, Writing, Encoded
<1>5. ASSUME NEW c \in Columns
      PROVE  CurUnits(c) = UnitsOf(metas[c]) /\ CurUnits(c)' = << >>
  <2> DEFINE a == UnitsOf(metas[c])
  <2>1. a \in Seq(Units) /\ CurUnits(c) = (a \o << >>) \o << >>
    BY <1>3, <1>4, CurTypes DEF CurUnits
  <2> HIDE DEF a
  <2>2. CurUnits(c) = a
    BY <2>1, ConcatEmpty
  <2>3. metas'[c] = << >>
    BY <1>1
  <2>4. CurUnits(c)' = (<< >> \o << >>) \o << >>
    BY <1>1, <1>3, <1>4, <2>3, UnitsOfEmpty DEF CurUnits
  <2>5. (<< >> \o << >>) \o << >> = << >>
    OBVIOUS
  <2>6. QED
    BY <2>2, <2>4, <2>5 DEF a
<1>6. CurPair'
  <2>1. \A c \in Columns : Len(CurUnits(c)') = 0
    BY <1>5
  <2>2. Whole' = 0
    BY <1>2, <1>4, <2>1 DEF Whole
  <2>3. QED
    BY <1>1, <1>4, <2>1, <2>2 DEF CurPair
<1>7. PairsUp(metas)
  <2>1. Whole = Len(CurUnits(1)) /\ Len(CurUnits(1)) \in Nat
    BY <1>2, <1>4, CurTypes DEF Whole
  <2>2. \A c \in Columns : Len(CurUnits(c)) = Len(CurUnits(1))
    BY <1>2, <1>4, <2>1 DEF CurPair
  <2>3. \A c \in Columns : \A i \in 1 .. Len(CurUnits(1)) : SameRows(CurUnits(c)[i], CurUnits(1)[i])
    BY <2>1 DEF CurPair
  <2>4. QED
    BY <1>2, <1>5, <2>2, <2>3 DEF PairsUp, SameRows
<1>8. GroupsPair'
  <2>1. GroupMeta \in Groups /\ groups \in Seq(Groups) /\ GroupMeta.cols = metas
    BY GroupMetaType DEF TInv, TypeOK, GroupMeta
  <2>2. /\ Len(groups') = Len(groups) + 1 /\ Len(groups) \in Nat
        /\ groups'[Len(groups) + 1].cols = metas
        /\ \A g \in 1 .. Len(groups) : groups'[g] = groups[g]
    BY <1>1, <2>1, AppendIs
  <2> SUFFICES ASSUME NEW g \in 1 .. Len(groups') PROVE PairsUp(groups'[g].cols)
    BY DEF GroupsPair
  <2>3. g \in 1 .. Len(groups) \/ g = Len(groups) + 1
    BY <2>2
  <2>4. QED
    BY <1>7, <2>2, <2>3 DEF GroupsPair
<1>9. QED
  BY <1>6, <1>8

LEMMA PairStep ==
  ASSUME TInv, PosInv, RowInv, PairInv, [Next]_vars
  PROVE  PairInv'
<1> SUFFICES ASSUME ~failed', SameEncunitLen PROVE CurPair' /\ GroupsPair'
  BY DEF PairInv, SameEncunitLen
<1>1. ~failed
  BY DEF Next, Step, WriteBatch, Encode, NextColumn, RejectBatch, EndBatch, WriteUnit,
     EndChunk, LoseChunk, PanicInWrite, FinishColumn, FinishRowGroup, FailRowGroup,
     Finish, Terminated, vars, histVars
<1>2. CurPair /\ GroupsPair
  BY <1>1 DEF PairInv
<1>3. CASE RejectBatch \/ LoseChunk \/ PanicInWrite \/ FailRowGroup
  BY <1>3 DEF RejectBatch, LoseChunk, PanicInWrite, FailRowGroup
<1>4. CASE Terminated \/ UNCHANGED vars
  <2>1. UNCHANGED <<pc, col, batch, slices, enc, out, metas, groups, rows>>
    BY <1>4 DEF Terminated, vars, callVars, tableVars, rowVars
  <2>2. \A c \in Columns : CurUnits(c)' = CurUnits(c) /\ Encoded(c)' = Encoded(c)
    BY <2>1 DEF CurUnits, OutUnits, Writing, Encoded
  <2>3. CurPair'
    BY <1>2, <2>1, <2>2, CurKept DEF CurPair
  <2>4. QED
    BY <1>2, <2>1, <2>3 DEF GroupsPair
<1>5. CASE FinishRowGroup
  BY <1>1, <1>2, <1>5, PairFinishRowGroup
<1>6. CASE UNCHANGED groups /\ CurPair'
  BY <1>2, <1>6 DEF GroupsPair
<1>7. ASSUME NEW n \in BatchRows, WriteBatch(n)
      PROVE  UNCHANGED groups /\ CurPair'
  BY <1>2, <1>7, PairWriteBatch DEF WriteBatch, tableVars
<1>8. ASSUME NEW size \in UnitSizes, Encode(size)
      PROVE  UNCHANGED groups /\ CurPair'
  BY <1>1, <1>2, <1>8, PairEncode DEF Encode, tableVars
<1>9. CASE NextColumn
  BY <1>2, <1>6, <1>9, PairNextColumn DEF NextColumn, tableVars
<1>10. CASE EndBatch
  BY <1>2, <1>6, <1>10, PairEndBatch DEF EndBatch, tableVars
<1>11. CASE WriteUnit
  BY <1>2, <1>6, <1>11, PairWriteUnit DEF WriteUnit, tableVars
<1>12. CASE EndChunk
  BY <1>2, <1>6, <1>12, PairEndChunk DEF EndChunk
<1>13. CASE FinishColumn
  BY <1>2, <1>6, <1>13, PairFinishColumn DEF FinishColumn, tableVars
<1>14. CASE Finish
  BY <1>2, <1>6, <1>14, PairFinish DEF Finish, tableVars
<1>15. QED
  BY <1>3, <1>4, <1>5, <1>6, <1>7, <1>8, <1>9, <1>10, <1>11, <1>12, <1>13, <1>14
     DEF Next, Step

(* For any number of columns, any chunk size and any sizes of the encoded  *)
(* units: with one encunit length, the i-th units of all columns of a row  *)
(* group hold the same rows, so the i-th record batch that                 *)
(* read_file_based_on_footer makes of them is a range of the table,        *)
(* wherever flush_chunk split each column.                                 *)
THEOREM BatchesPairUp == Spec => []UnitsPairUp
<1>1. Init => PairInv
  <2> SUFFICES ASSUME Init PROVE CurPair /\ GroupsPair
    BY DEF PairInv
  <2>0. 1 \in Columns
    BY ColumnsAssumption DEF Columns
  <2>1. /\ pc = "idle" /\ groups = << >>
        /\ \A c \in Columns : metas[c] = << >> /\ enc[c].units = << >>
    BY DEF Init, EmptyEncoder
  <2>2. (<< >> \o << >>) \o << >> = << >>
    OBVIOUS
  <2>3. \A c \in Columns : CurUnits(c) = (<< >> \o << >>) \o << >> /\ Encoded(c) = 0
    BY <2>1, UnitsOfEmpty DEF CurUnits, OutUnits, Writing, Encoded
  <2>4. \A c \in Columns : Len(CurUnits(c)) = 0
    BY <2>2, <2>3
  <2>5. Whole = 0
    BY <2>0, <2>3, <2>4 DEF Whole
  <2>6. CurPair
    <3>1. 1 .. 0 = {} /\ 0 = 0 + 0
      OBVIOUS
    <3>2. \A c \in Columns : Encoded(c) = 0
      BY <2>3
    <3>3. QED
      BY <2>1, <2>4, <2>5, <3>1, <3>2 DEF CurPair
  <2>7. QED
    BY <2>1, <2>6 DEF GroupsPair
<1>2. WriterInv /\ PairInv /\ [Next]_vars => PairInv'
  BY PairStep DEF WriterInv
<1>3. PairInv => UnitsPairUp
  BY DEF PairInv, SameEncunitLen, GroupsPair, PairsUp, UnitsPairUp
<1>4. QED
  BY <1>1, <1>2, <1>3, WriterInvariant, PTL DEF Spec
=============================================================================

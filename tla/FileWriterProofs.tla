-------------------------- MODULE FileWriterProofs --------------------------
(***************************************************************************)
(* Proofs about FileWriter for every number of columns, every row-group    *)
(* and chunk size, every set of batch and unit sizes and every combination *)
(* of faults.                                                              *)
(***************************************************************************)
EXTENDS FileWriter, TLAPS

-----------------------------------------------------------------------------
(* Narrowing with `as u32' keeps a number that fits.                       *)
LEMMA ModSmall ==
  ASSUME NEW a \in Nat, NEW b \in Nat, a < b
  PROVE  a % b = a
  OBVIOUS

(* A remainder of naturals is a natural.                                   *)
LEMMA ModNat ==
  ASSUME NEW a \in Nat, NEW b \in Nat \ {0}
  PROVE  a % b \in Nat /\ a % b < b
  OBVIOUS

(* What Append returns.                                                    *)
LEMMA AppendIs ==
  ASSUME NEW S, NEW s \in Seq(S), NEW x \in S
  PROVE  /\ Append(s, x) \in Seq(S) /\ Append(s, x) # << >>
         /\ Len(Append(s, x)) = Len(s) + 1 /\ Len(s) \in Nat
         /\ Append(s, x)[Len(s) + 1] = x
         /\ \A i \in 1 .. Len(s) : Append(s, x)[i] = s[i] /\ s[i] \in S
<1> DEFINE t == Append(s, x)
<1>1. t \in Seq(S) /\ Len(t) = Len(s) + 1 /\ Len(s) \in Nat
  OBVIOUS
<1>2. t[Len(s) + 1] = x /\ \A i \in 1 .. Len(s) : t[i] = s[i] /\ s[i] \in S
  OBVIOUS
<1>3. t # << >>
  BY <1>1
<1>4. QED
  BY <1>1, <1>2, <1>3

(* Appending the element that starts where s ends extends the chain.       *)
LEMMA ChainAppend ==
  ASSUME NEW S, \A e \in S : e.first \in Nat /\ e.rows \in Nat,
         NEW s \in Seq(S), NEW x \in S,
         NEW lo \in Int, NEW hi \in Int,
         Chain(s, lo, hi), x.first = hi
  PROVE  Chain(Append(s, x), lo, hi + x.rows)
  BY DEF Chain

(* Appending the unit that starts where the packed units end keeps them    *)
(* packed.                                                                 *)
LEMMA PackedAppend ==
  ASSUME NEW s \in Seq(Units), NEW x \in Units, NEW n \in Nat,
         Packed(s, n), x.rel = n
  PROVE  Packed(Append(s, x), n + x.size)
<1> DEFINE t == Append(s, x)
<1>1. t \in Seq(Units) /\ t # << >> /\ Len(t) = Len(s) + 1 /\ t[Len(t)] = x
  BY AppendIs
<1>2. \A j \in 1 .. Len(s) : t[j] = s[j] /\ s[j] \in Units
  OBVIOUS
<1>3. Len(s) \in Nat /\ (s # << >> => Len(s) > 0)
  OBVIOUS
<1>4. n = EndOf(s)
  BY DEF Packed
<1>5. t[1].rel = 0
  <2>1. CASE s = << >>
    BY <1>1, <1>4, <2>1 DEF EndOf
  <2>2. CASE s # << >>
    BY <1>2, <1>3, <2>2 DEF Packed
  <2>3. QED
    BY <2>1, <2>2
<1>6. ASSUME NEW j \in 1 .. Len(t) - 1
      PROVE  t[j + 1].rel = t[j].rel + t[j].size
  <2>1. CASE j < Len(s)
    BY <1>1, <1>2, <1>3, <2>1 DEF Packed
  <2>2. CASE j = Len(s)
    BY <1>1, <1>2, <1>3, <1>4, <2>2 DEF EndOf
  <2>3. QED
    BY <1>1, <1>3, <2>1, <2>2
<1>7. EndOf(t) = n + x.size
  BY <1>1 DEF EndOf
<1>8. QED
  BY <1>5, <1>6, <1>7 DEF Packed

-----------------------------------------------------------------------------
(* What a call in progress knows: the batch it works on fits in the file   *)
(* and the chunk it writes has at least one unit.                          *)
CallInv ==
  /\ pc \in {"encode", "write"} => batch \in BatchRows /\ rows + batch <= MaxRows
  /\ pc \in {"write", "writePending"} =>
       col \in Columns /\ out.units # << >> /\ out.written <= Len(out.units)
  /\ pc \notin {"write", "writePending"} => out = NoChunk

TInv == TypeOK /\ CallInv

(* A nonempty sequence has a first and a last element.                     *)
LEMMA SeqEnds ==
  ASSUME NEW S, NEW s \in Seq(S), s # << >>
  PROVE  Len(s) \in Nat \ {0} /\ s[1] \in S /\ s[Len(s)] \in S
<1>1. Len(s) \in Nat /\ Len(s) # 0
  OBVIOUS
<1>2. QED
  BY <1>1

(* The end of a sequence of units is a number of bytes.                    *)
LEMMA EndOfNat ==
  ASSUME NEW s \in Seq(Units)
  PROVE  EndOf(s) \in Nat
<1>1. CASE s = << >>
  BY <1>1 DEF EndOf
<1>2. CASE s # << >>
  <2>1. s[Len(s)] \in Units
    BY <1>2, SeqEnds
  <2>2. s[Len(s)].rel \in Nat /\ s[Len(s)].size \in Nat
    BY <2>1, SizesAssumption DEF Units
  <2>3. QED
    BY <1>2, <2>2 DEF EndOf
<1>3. QED
  BY <1>1, <1>2

(* What one encode() leaves in the encoder.                                *)
LEMMA AccumulateType ==
  ASSUME NEW c \in Columns, NEW n \in Nat, NEW size \in UnitSizes,
         next \in [Columns -> Nat], enc \in [Columns -> Encoders]
  PROVE  /\ NewUnit(c, n, size) \in Units
         /\ Accumulate(enc[c], NewUnit(c, n, size)) \in Encoders
         /\ Accumulate(enc[c], NewUnit(c, n, size)).units # << >>
<1>1. enc[c] \in Encoders /\ enc[c].units \in Seq(Units)
  BY DEF Encoders
<1>2. NewUnit(c, n, size) \in Units
  BY <1>1, EndOfNat DEF NewUnit, Units
<1>3. size \in Nat
  BY SizesAssumption
<1>4. Append(enc[c].units, NewUnit(c, n, size)) \in Seq(Units)
  BY <1>1, <1>2
<1>5. Append(enc[c].units, NewUnit(c, n, size)) # << >>
  BY <1>1, <1>2, AppendIs
<1>6. NewUnit(c, n, size).rows = n /\ NewUnit(c, n, size).size = size
  BY DEF NewUnit
<1>7. QED
  BY <1>1, <1>2, <1>3, <1>4, <1>5, <1>6 DEF Accumulate, Encoders

(* The row count of a slice is a natural number.                           *)
LEMMA SliceType ==
  ASSUME NEW c \in Columns, NEW n \in BatchRows
  PROVE  SliceRows(c, n) \in Nat /\ SliceCount(c, n) \in Nat
<1>1. n \in Nat /\ EncunitLen[c] \in Nat
  BY SizesAssumption, EncunitAssumption
<1>2. EncunitLen[c] # 0 => n \div EncunitLen[c] \in Nat
  BY <1>1, EncunitAssumption
<1>3. QED
  BY <1>1, <1>2 DEF SliceRows, SliceCount

(* A chunk's metadata is well formed when the chunk has a unit.            *)
LEMMA ChunkMetaType ==
  ASSUME TInv, pc \in {"write", "writePending"}, out.offset <= pos
  PROVE  ChunkMeta(out, pos) \in Chunks
<1>1. out.units \in Seq(Units) /\ out.num_rows \in Nat /\ out.offset \in Nat
  BY DEF TInv, TypeOK, OutChunks
<1>2. out.units[1] \in Units
  BY <1>1, SeqEnds DEF TInv, CallInv
<1>3. (pos - out.offset) % U32 \in Nat
  <2>1. pos - out.offset \in Nat
    BY <1>1 DEF TInv, TypeOK
  <2>2. QED
    BY <2>1, ModNat, U32Assumption
<1>4. QED
  BY <1>1, <1>2, <1>3 DEF ChunkMeta, Chunks, Units

(* The stream position never moves back behind the chunk or the row group  *)
(* that started there.                                                     *)
PosInv ==
  /\ start <= pos
  /\ pc \in {"write", "writePending"} => start <= out.offset /\ out.offset <= pos
  /\ pc = "closed" => groups # << >>

(* Counting a written unit changes nothing else of the chunk.              *)
LEMMA WrittenIs ==
  ASSUME NEW o \in OutChunks, NEW w \in Nat
  PROVE  /\ [o EXCEPT !.written = w] \in OutChunks
         /\ [o EXCEPT !.written = w].written = w
         /\ [o EXCEPT !.written = w].units = o.units
         /\ [o EXCEPT !.written = w].offset = o.offset
         /\ [o EXCEPT !.written = w].num_rows = o.num_rows
  BY DEF OutChunks

(* The entry of a row group in the row-groups table.                       *)
LEMMA GroupMetaType ==
  ASSUME TInv, PosInv
  PROVE  GroupMeta \in Groups
<1>1. pos - start \in Nat /\ rows - cur \in Nat
  BY U32Assumption DEF TInv, TypeOK, PosInv
<1>2. (pos - start) % U32 \in Nat
  BY <1>1, ModNat, U32Assumption
<1>3. QED
  BY <1>1, <1>2, U32Assumption DEF GroupMeta, Groups, TInv, TypeOK

LEMMA TypeInit == Init => TInv /\ PosInv
<1> SUFFICES ASSUME Init PROVE TInv /\ PosInv
  OBVIOUS
<1>1. 1 \in 1 .. NumCols + 1
  BY ColumnsAssumption
<1>2. enc \in [Columns -> Encoders]
  BY DEF Init, EmptyEncoder, Encoders
<1>3. metas \in [Columns -> Seq(Chunks)] /\ groups \in Seq(Groups)
  BY DEF Init
<1>4. rows \in 0 .. MaxRows /\ cur \in 0 .. rows
  BY U32Assumption DEF Init
<1>5. out \in OutChunks
  BY DEF Init, NoChunk, OutChunks
<1>6. TypeOK
  BY <1>1, <1>2, <1>3, <1>4, <1>5 DEF Init, TypeOK
<1>7. CallInv /\ PosInv
  BY DEF Init, CallInv, PosInv
<1>8. QED
  BY <1>6, <1>7 DEF TInv

LEMMA TypeStep ==
  ASSUME TInv, PosInv, [Next]_vars
  PROVE  TInv' /\ PosInv'
<1> USE DEF TInv, CallInv, PosInv, callVars, fileVars, tableVars, rowVars, histVars
<1>1. ASSUME NEW n \in BatchRows, WriteBatch(n)
      PROVE  TInv' /\ PosInv'
  <2>1. n \in Nat /\ 1 \in Columns /\ 1 \in 1 .. NumCols + 1
    BY SizesAssumption, ColumnsAssumption DEF Columns
  <2>2. SliceCount(1, n) \in Nat
    BY <2>1, SliceType
  <2>3. TypeOK'
    BY <1>1, <2>1, <2>2 DEF WriteBatch, TypeOK
  <2>4. QED
    BY <1>1, <2>3 DEF WriteBatch
<1>2. ASSUME NEW size \in UnitSizes, Encode(size)
      PROVE  TInv' /\ PosInv'
  <2> DEFINE r == SliceRows(col, batch)
             full == Accumulate(enc[col], NewUnit(col, r, size))
  <2>1. pc = "encode" /\ col \in Columns /\ batch \in BatchRows /\ r \in Nat
    BY <1>2, SliceType DEF Encode
  <2>2. full \in Encoders /\ full.units # << >>
    BY <2>1, AccumulateType DEF TypeOK
  <2>3. next' \in [Columns -> Nat] /\ slices' \in Nat
    BY <1>2, <2>1 DEF Encode, TypeOK
  <2>4. CASE full.accumulated_size > ChunkSize
    <3>1. enc' = [enc EXCEPT ![col] = EmptyEncoder] /\ out' = TakeChunk(full)
          /\ pc' = "write"
      BY <1>2, <2>4 DEF Encode
    <3>2. EmptyEncoder \in Encoders
      BY DEF EmptyEncoder, Encoders
    <3>3. enc' \in [Columns -> Encoders]
      BY <3>1, <3>2 DEF TypeOK
    <3>4. out' \in OutChunks
          /\ out'.units = full.units /\ out'.offset = pos /\ out'.written = 0
      BY <3>1, <2>2 DEF TakeChunk, Encoders, OutChunks, TypeOK
    <3>5. TypeOK'
      BY <1>2, <2>3, <3>1, <3>3, <3>4 DEF Encode, TypeOK
    <3>6. 0 <= Len(full.units)
      BY <2>2 DEF Encoders
    <3>7. UNCHANGED <<col, batch, rows, pos, start, groups>>
      BY <1>2 DEF Encode
    <3>8. CallInv'
      BY <2>1, <2>2, <3>1, <3>4, <3>6, <3>7
    <3>9. PosInv'
      BY <2>1, <3>1, <3>4, <3>7 DEF TypeOK
    <3>10. QED
      BY <3>5, <3>8, <3>9
  <2>5. CASE ~(full.accumulated_size > ChunkSize)
    <3>1. enc' = [enc EXCEPT ![col] = full] /\ UNCHANGED <<out, pc>>
      BY <1>2, <2>5 DEF Encode
    <3>2. TypeOK'
      BY <1>2, <2>2, <2>3, <3>1 DEF Encode, TypeOK
    <3>3. QED
      BY <1>2, <2>1, <3>1, <3>2 DEF Encode
  <2>6. QED
    BY <2>4, <2>5
<1>3. CASE NextColumn
  <2>1. col + 1 \in 1 .. NumCols + 1
    BY <1>3, ColumnsAssumption DEF NextColumn, Columns, TypeOK
  <2>2. slices' \in Nat
    BY <1>3, SliceType DEF NextColumn
  <2>3. TypeOK'
    BY <1>3, <2>1, <2>2 DEF NextColumn, TypeOK
  <2>4. QED
    BY <1>3, <2>3 DEF NextColumn
<1>4. CASE RejectBatch
  BY <1>4 DEF RejectBatch, TypeOK
<1>5. CASE EndBatch
  <2>1. batch \in Nat /\ rows + batch <= MaxRows
    BY <1>5, SizesAssumption DEF EndBatch, TypeOK
  <2>2. rows' = rows + batch /\ cur' = cur + batch
    <3>1. rows + batch \in Nat /\ cur + batch \in Nat
      BY <2>1, U32Assumption DEF TypeOK
    <3>2. rows + batch < U32 /\ cur + batch < U32
      BY <2>1, U32Assumption DEF TypeOK
    <3>3. U32 \in Nat
      BY U32Assumption
    <3>4. QED
      BY <1>5, <3>1, <3>2, <3>3, ModSmall DEF EndBatch
  <2>3. rows' \in 0 .. MaxRows /\ cur' \in 0 .. rows'
    BY <2>1, <2>2, U32Assumption DEF TypeOK
  <2>4. 1 \in 1 .. NumCols + 1 /\ col' \in 1 .. NumCols + 1
    BY <1>5, ColumnsAssumption DEF EndBatch, TypeOK
  <2>5. pc' \in {"flush", "idle"}
    BY <1>5 DEF EndBatch
  <2>6. TypeOK'
    BY <1>5, <2>3, <2>4, <2>5 DEF EndBatch, TypeOK
  <2>7. QED
    BY <1>5, <2>5, <2>6 DEF EndBatch
<1>6. CASE WriteUnit
  <2> DEFINE u == out.units[out.written + 1]
  <2>1. out.units \in Seq(Units) /\ out.written \in Nat
        /\ out.written < Len(out.units) /\ Len(out.units) \in Nat
    BY <1>6 DEF WriteUnit, TypeOK, OutChunks
  <2>2. u \in Units
    <3>1. out.written + 1 \in 1 .. Len(out.units)
      BY <2>1
    <3>2. QED
      BY <2>1, <3>1
  <2>3. u.size \in Nat
    BY <2>2, SizesAssumption DEF Units
  <2>4. out' = [out EXCEPT !.written = out.written + 1]
    BY <1>6 DEF WriteUnit
  <2>5. /\ out' \in OutChunks
        /\ out'.written = out.written + 1 /\ out'.units = out.units
        /\ out'.offset = out.offset
    <3>1. out \in OutChunks /\ out.written + 1 \in Nat
      BY <2>1 DEF TypeOK
    <3>2. QED
      BY <2>4, <3>1, WrittenIs
  <2>6. Extent(col, u, pos) \in Extents
    BY <1>6, <2>2 DEF WriteUnit, TypeOK, Extent, Extents, Units
  <2>7. pos' = pos + u.size /\ summed' = summed + u.size
        /\ disk' = disk \union {Extent(col, u, pos)}
    BY <1>6 DEF WriteUnit
  <2>8. pos' \in Nat /\ summed' \in Nat /\ pos' >= pos
    <3>1. pos \in Nat /\ summed \in Nat
      BY DEF TypeOK
    <3> HIDE DEF u
    <3>2. QED
      BY <2>3, <2>7, <3>1
  <2>9. disk' \subseteq Extents
    BY <2>6, <2>7 DEF TypeOK
  <2>10. UNCHANGED <<pc, col, batch, slices, enc, metas, groups, start, rows, cur,
                     closing, next, failed, calls>>
    BY <1>6 DEF WriteUnit
  <2>11. TypeOK'
    BY <2>5, <2>8, <2>9, <2>10 DEF TypeOK
  <2>12. CallInv'
    BY <1>6, <2>1, <2>5, <2>10 DEF WriteUnit
  <2>13. PosInv'
    <3>1. pos \in Nat /\ start \in Nat /\ out.offset \in Nat
      BY DEF TypeOK, OutChunks
    <3>2. start <= pos' /\ out.offset <= pos' /\ start <= out.offset
      BY <1>6, <2>8, <3>1 DEF WriteUnit
    <3>3. QED
      BY <1>6, <2>5, <2>10, <3>2 DEF WriteUnit
  <2>14. QED
    BY <2>11, <2>12, <2>13
<1>7. CASE EndChunk
  <2>1. ChunkMeta(out, pos) \in Chunks
    BY <1>7, ChunkMetaType DEF EndChunk
  <2>2. metas' \in [Columns -> Seq(Chunks)]
    <3>1. col \in Columns /\ metas[col] \in Seq(Chunks)
      BY <1>7 DEF EndChunk, TypeOK
    <3>2. Append(metas[col], ChunkMeta(out, pos)) \in Seq(Chunks)
      BY <2>1, <3>1
    <3>3. QED
      BY <1>7, <3>2 DEF EndChunk, AddChunk, TypeOK
  <2>3. col' \in 1 .. NumCols + 1 /\ pc' \in {"encode", "flush"}
        /\ (pc' = "encode" => pc = "write")
    <3>1. col \in Columns
      BY <1>7 DEF EndChunk
    <3>2. col \in 1 .. NumCols + 1 /\ col + 1 \in 1 .. NumCols + 1
      BY <3>1, ColumnsAssumption DEF Columns
    <3>3. QED
      BY <1>7, <3>2 DEF EndChunk
  <2>4. out' = NoChunk
        /\ out' \in OutChunks
    BY <1>7 DEF EndChunk, NoChunk, OutChunks
  <2>5. TypeOK'
    BY <1>7, <2>2, <2>3, <2>4 DEF EndChunk, TypeOK
  <2>6. QED
    BY <1>7, <2>3, <2>4, <2>5 DEF EndChunk
<1>8. CASE LoseChunk \/ PanicInWrite
  <2>1. out' = NoChunk /\ pc' \in {"idle", "dead"}
    BY <1>8 DEF LoseChunk, PanicInWrite
  <2>4. NoChunk \in OutChunks
    BY DEF NoChunk, OutChunks
  <2>2. TypeOK'
    BY <1>8, <2>1, <2>4 DEF LoseChunk, PanicInWrite, TypeOK
  <2>3. QED
    BY <1>8, <2>1, <2>2 DEF LoseChunk, PanicInWrite
<1>9. CASE FinishColumn
  <2>1. col \in Columns /\ pc = "flush" /\ enc[col] \in Encoders
    BY <1>9 DEF FinishColumn, TypeOK
  <2>2. CASE enc[col].units = << >>
    <3>1. col' \in 1 .. NumCols + 1
      BY <1>9, <2>1, <2>2, ColumnsAssumption DEF FinishColumn, Columns
    <3>2. UNCHANGED <<pc, enc, out>>
      BY <1>9, <2>2 DEF FinishColumn
    <3>3. TypeOK'
      BY <1>9, <3>1, <3>2 DEF FinishColumn, TypeOK
    <3>4. QED
      BY <1>9, <2>1, <3>2, <3>3 DEF FinishColumn
  <2>3. CASE enc[col].units # << >>
    <3>1. enc' = [enc EXCEPT ![col] = EmptyEncoder] /\ out' = TakeChunk(enc[col])
          /\ pc' = "writePending" /\ UNCHANGED col
      BY <1>9, <2>3 DEF FinishColumn
    <3>2. EmptyEncoder \in Encoders
      BY DEF EmptyEncoder, Encoders
    <3>3. enc' \in [Columns -> Encoders]
      BY <3>1, <3>2 DEF TypeOK
    <3>4. out' \in OutChunks
          /\ out'.units = enc[col].units /\ out'.offset = pos /\ out'.written = 0
      BY <3>1, <2>1 DEF TakeChunk, Encoders, OutChunks, TypeOK
    <3>5. TypeOK'
      BY <1>9, <3>1, <3>3, <3>4 DEF FinishColumn, TypeOK
    <3>6. 0 <= Len(enc[col].units)
      BY <2>1 DEF Encoders
    <3>7. QED
      BY <1>9, <2>1, <2>3, <3>1, <3>4, <3>5, <3>6 DEF FinishColumn, TypeOK
  <2>4. QED
    BY <2>2, <2>3
<1>10. CASE FinishRowGroup
  <2>2. GroupMeta \in Groups
    BY GroupMetaType
  <2>3. groups' \in Seq(Groups) /\ groups' # << >>
    BY <1>10, <2>2, AppendIs DEF FinishRowGroup, TypeOK
  <2>4. metas' \in [Columns -> Seq(Chunks)]
    BY <1>10 DEF FinishRowGroup
  <2>5. pc' \in {"closed", "idle"} /\ cur' \in 0 .. rows'
    BY <1>10, U32Assumption DEF FinishRowGroup, TypeOK
  <2>6. TypeOK'
    BY <1>10, <2>3, <2>4, <2>5 DEF FinishRowGroup, TypeOK
  <2>7. QED
    BY <1>10, <2>3, <2>5, <2>6 DEF FinishRowGroup, TypeOK
<1>14. CASE FailRowGroup
  <2>1. GroupMeta \in Groups
    BY GroupMetaType
  <2>2. groups' \in Seq(Groups) /\ metas' \in [Columns -> Seq(Chunks)]
    <3>1. Append(groups, GroupMeta) \in Seq(Groups)
      BY <2>1 DEF TypeOK
    <3>2. [c \in Columns |-> << >>] \in [Columns -> Seq(Chunks)]
      OBVIOUS
    <3>3. QED
      BY <1>14, <3>1, <3>2 DEF FailRowGroup, TypeOK
  <2>3. pc' \in {"dead", "idle"} /\ cur' \in 0 .. rows'
    BY <1>14, U32Assumption DEF FailRowGroup, TypeOK
  <2>4. TypeOK'
    BY <1>14, <2>2, <2>3 DEF FailRowGroup, TypeOK
  <2>5. QED
    BY <1>14, <2>3, <2>4 DEF FailRowGroup
<1>11. CASE Finish
  <2>1. 1 \in 1 .. NumCols + 1
    BY ColumnsAssumption
  <2>2. TypeOK'
    BY <1>11, <2>1 DEF Finish, TypeOK
  <2>3. QED
    BY <1>11, <2>2 DEF Finish
<1>12. CASE Terminated \/ UNCHANGED vars
  BY <1>12 DEF Terminated, vars, TypeOK
<1>13. QED
  BY <1>1, <1>2, <1>3, <1>4, <1>5, <1>6, <1>7, <1>8, <1>9, <1>10, <1>11, <1>12,
     <1>14
  DEF Next, Step

(* The variables of the writer and of the encoders keep their types in     *)
(* every behaviour; num_rows_in_file and num_rows_in_cur_row_group never   *)
(* wrap for a file of at most MaxRows rows.                                *)
THEOREM TypeCorrect == Spec => []TypeOK
<1>1. Init => TInv /\ PosInv
  BY TypeInit
<1>2. TInv /\ PosInv /\ [Next]_vars => TInv' /\ PosInv'
  BY TypeStep
<1>3. TInv => TypeOK
  BY DEF TInv
<1>4. QED
  BY <1>1, <1>2, <1>3, PTL DEF Spec

-----------------------------------------------------------------------------
(* Where the bytes are.  The strengthening of ChunksPlaced, GroupExtents   *)
(* and the other byte-level invariants: the buffered units are packed, the *)
(* chunk being written has its first units on disk and the stream stands   *)
(* where the next one goes, and everything on disk lies below the stream   *)
(* position.                                                               *)
BuffersPacked ==
  \A c \in Columns : /\ Packed(enc[c].units, enc[c].accumulated_size)
                     /\ enc[c].accumulated_size <= ChunkSize

NextUnitAt ==
  IF out.written = Len(out.units) THEN EndOf(out.units)
  ELSE out.units[out.written + 1].rel

OutPlaced ==
  pc \in {"write", "writePending"} =>
    /\ Packed(out.units, EndOf(out.units)) /\ EndOf(out.units) < U32
    /\ pos = out.offset + NextUnitAt
    /\ \A j \in 1 .. out.written :
         Extent(col, out.units[j], out.offset + out.units[j].rel) \in disk

DiskBelow == \A e \in disk : e.at + e.size <= pos

MetasPlaced ==
  \A c \in Columns : \A k \in 1 .. Len(metas[c]) :
    /\ ChunkPlaced(c, metas[c][k])
    /\ start <= metas[c][k].offset
    /\ metas[c][k].offset + metas[c][k].size <= pos

GroupsPlaced ==
  \A g \in 1 .. Len(groups) : \A c \in Columns :
    \A k \in 1 .. Len(groups[g].cols[c]) : ChunkPlaced(c, groups[g].cols[c][k])

PlaceInv ==
  /\ ChecksumCovers /\ BuffersPacked /\ OutPlaced
  /\ DiskBelow /\ ExtentsDisjoint
  /\ MetasPlaced /\ GroupsPlaced /\ GroupExtents

(* A chunk stays placed while the disk only grows.                         *)
LEMMA PlacedStays ==
  ASSUME disk \subseteq disk', NEW c, NEW ch, ChunkPlaced(c, ch)
  PROVE  ChunkPlaced(c, ch)'
  BY DEF ChunkPlaced

LEMMA PlaceInit == Init => PlaceInv
<1> SUFFICES ASSUME Init PROVE PlaceInv
  OBVIOUS
<1>1. BuffersPacked
  BY SizesAssumption
  DEF Init, BuffersPacked, EmptyEncoder, Packed, EndOf
<1>2. ChecksumCovers /\ OutPlaced /\ DiskBelow /\ ExtentsDisjoint
  BY DEF Init, ChecksumCovers, OutPlaced, DiskBelow, ExtentsDisjoint
<1>3. MetasPlaced /\ GroupsPlaced /\ GroupExtents
  BY DEF Init, MetasPlaced, GroupsPlaced, GroupExtents
<1>4. QED
  BY <1>1, <1>2, <1>3 DEF PlaceInv

(* Steps that leave the file and what is recorded of it alone.             *)
LEMMA PlaceUnchanged ==
  ASSUME PlaceInv, UNCHANGED <<pos, summed, disk, metas, groups, start>>,
         failed => failed', OutPlaced', BuffersPacked'
  PROVE  PlaceInv'
<1>1. ChecksumCovers' /\ DiskBelow' /\ ExtentsDisjoint'
  BY DEF PlaceInv, ChecksumCovers, DiskBelow, ExtentsDisjoint
<1>2. MetasPlaced' /\ GroupsPlaced'
  BY DEF PlaceInv, MetasPlaced, GroupsPlaced, ChunkPlaced
<1>3. GroupExtents'
  BY DEF PlaceInv, GroupExtents
<1>4. QED
  BY <1>1, <1>2, <1>3 DEF PlaceInv

(* A chunk taken out of an encoder starts at the stream position.          *)
LEMMA PlaceTaken ==
  ASSUME NEW e \in Encoders, e.units # << >>, Packed(e.units, e.accumulated_size),
         e.accumulated_size < U32, pos \in Nat,
         out' = TakeChunk(e), UNCHANGED <<pos, disk>>
  PROVE  OutPlaced'
<1>1. e.units \in Seq(Units)
  BY DEF Encoders
<1>2. out'.units = e.units /\ out'.offset = pos /\ out'.written = 0
  BY DEF TakeChunk
<1>3. EndOf(e.units) = e.accumulated_size /\ e.units[1].rel = 0
  BY DEF Packed
<1>4. Len(e.units) # 0
  BY <1>1, SeqEnds
<1>5. NextUnitAt' = 0
  BY <1>2, <1>3, <1>4 DEF NextUnitAt
<1>6. Packed(out'.units, EndOf(out'.units)) /\ EndOf(out'.units) < U32
  BY <1>2, <1>3
<1>7. pos' = out'.offset + NextUnitAt'
  BY <1>2, <1>5
<1>8. QED
  BY <1>2, <1>6, <1>7 DEF OutPlaced

(* Taking the accumulated chunk leaves empty, packed buffers.              *)
LEMMA EmptyPacked == Packed(EmptyEncoder.units, EmptyEncoder.accumulated_size)
  BY DEF Packed, EmptyEncoder, EndOf

LEMMA PlaceEncode ==
  ASSUME TInv, PlaceInv, NEW size \in UnitSizes, Encode(size)
  PROVE  PlaceInv'
<1> DEFINE u == NewUnit(col, SliceRows(col, batch), size)
           full == Accumulate(enc[col], u)
<1>1. col \in Columns /\ batch \in BatchRows /\ SliceRows(col, batch) \in Nat
  BY SliceType DEF Encode, TInv, CallInv
<1>2. u \in Units /\ full \in Encoders /\ full.units # << >>
  BY <1>1, AccumulateType DEF TInv, TypeOK
<1>3. enc[col] \in Encoders /\ enc[col].units \in Seq(Units)
      /\ enc[col].accumulated_size \in Nat
  BY <1>1 DEF TInv, TypeOK, Encoders
<1>4. Packed(enc[col].units, enc[col].accumulated_size)
      /\ enc[col].accumulated_size <= ChunkSize
  BY <1>1 DEF PlaceInv, BuffersPacked
<1>5. u.rel = enc[col].accumulated_size /\ u.size = size
  BY <1>4 DEF NewUnit, Packed
<1>6. full.units = Append(enc[col].units, u)
      /\ full.accumulated_size = enc[col].accumulated_size + size
  BY <1>5 DEF Accumulate
<1>7. Packed(full.units, full.accumulated_size)
  BY <1>2, <1>3, <1>4, <1>5, <1>6, PackedAppend
<1>8. full.accumulated_size < U32
  <2>1. size \in Nat /\ ChunkSize \in Nat /\ U32 \in Nat /\ ChunkSize + size < U32
    BY SizesAssumption, U32Assumption
  <2>2. QED
    BY <1>3, <1>4, <1>6, <2>1
<1>9. UNCHANGED <<pos, summed, disk, metas, groups, start, failed>> /\ pc = "encode"
  BY DEF Encode, fileVars, tableVars, histVars
<1> HIDE DEF full, u
<1>10. CASE full.accumulated_size > ChunkSize
  <2>1. enc' = [enc EXCEPT ![col] = EmptyEncoder] /\ out' = TakeChunk(full)
    BY <1>10 DEF Encode, full, u
  <2>2. OutPlaced'
    BY <1>2, <1>7, <1>8, <1>9, <2>1, PlaceTaken DEF TInv, TypeOK
  <2>3. BuffersPacked'
    <3> SUFFICES ASSUME NEW c \in Columns
                 PROVE  /\ Packed(enc'[c].units, enc'[c].accumulated_size)
                        /\ enc'[c].accumulated_size <= ChunkSize
      BY DEF BuffersPacked
    <3>1. CASE c = col
      <4>1. enc'[c] = EmptyEncoder
        BY <1>1, <2>1, <3>1 DEF TInv, TypeOK
      <4>2. EmptyEncoder.accumulated_size <= ChunkSize
        BY SizesAssumption DEF EmptyEncoder
      <4>3. QED
        BY <4>1, <4>2, EmptyPacked
    <3>2. CASE c # col
      <4>1. enc'[c] = enc[c]
        BY <2>1, <3>2 DEF TInv, TypeOK
      <4>2. QED
        BY <4>1 DEF PlaceInv, BuffersPacked
    <3>3. QED
      BY <3>1, <3>2
  <2>4. QED
    BY <1>9, <2>2, <2>3, PlaceUnchanged
<1>11. CASE ~(full.accumulated_size > ChunkSize)
  <2>1. enc' = [enc EXCEPT ![col] = full] /\ UNCHANGED <<out, pc>>
    BY <1>11 DEF Encode, full, u
  <2>2. OutPlaced'
    BY <1>9, <2>1 DEF OutPlaced
  <2>3. BuffersPacked'
    <3> SUFFICES ASSUME NEW c \in Columns
                 PROVE  /\ Packed(enc'[c].units, enc'[c].accumulated_size)
                        /\ enc'[c].accumulated_size <= ChunkSize
      BY DEF BuffersPacked
    <3>1. CASE c = col
      <4>1. enc'[c] = full
        BY <1>1, <2>1, <3>1 DEF TInv, TypeOK
      <4>2. full.accumulated_size <= ChunkSize
        BY <1>2, <1>11, SizesAssumption DEF Encoders
      <4>3. QED
        BY <1>7, <4>1, <4>2
    <3>2. CASE c # col
      <4>1. enc'[c] = enc[c]
        BY <2>1, <3>2 DEF TInv, TypeOK
      <4>2. QED
        BY <4>1 DEF PlaceInv, BuffersPacked
    <3>3. QED
      BY <3>1, <3>2
  <2>4. QED
    BY <1>9, <2>2, <2>3, PlaceUnchanged
<1>12. QED
  BY <1>10, <1>11

LEMMA PlaceFinishColumn ==
  ASSUME TInv, PlaceInv, FinishColumn
  PROVE  PlaceInv'
<1>1. col \in Columns /\ pc = "flush" /\ enc[col] \in Encoders
      /\ UNCHANGED <<pos, summed, disk, metas, groups, start, failed>>
  BY DEF FinishColumn, TInv, TypeOK, fileVars, tableVars, histVars
<1>2. CASE enc[col].units = << >>
  <2>1. UNCHANGED <<pc, enc, out>>
    BY <1>2 DEF FinishColumn
  <2>2. OutPlaced' /\ BuffersPacked'
    BY <1>1, <2>1 DEF OutPlaced, BuffersPacked, PlaceInv
  <2>3. QED
    BY <1>1, <2>2, PlaceUnchanged
<1>3. CASE enc[col].units # << >>
  <2>1. enc' = [enc EXCEPT ![col] = EmptyEncoder] /\ out' = TakeChunk(enc[col])
    BY <1>3 DEF FinishColumn
  <2>2. Packed(enc[col].units, enc[col].accumulated_size)
        /\ enc[col].accumulated_size <= ChunkSize
    BY <1>1 DEF PlaceInv, BuffersPacked
  <2>3. enc[col].accumulated_size < U32
    <3>1. PICK u \in UnitSizes : TRUE
      <4>1. enc[col].units \in Seq(Units)
        BY <1>1 DEF Encoders
      <4>2. enc[col].units[1] \in Units
        BY <1>3, <4>1, SeqEnds
      <4>3. QED
        BY <4>2 DEF Units
    <3>2. u \in Nat /\ ChunkSize \in Nat /\ U32 \in Nat /\ ChunkSize + u < U32
      BY SizesAssumption, U32Assumption
    <3>3. QED
      BY <1>1, <2>2, <3>2 DEF Encoders
  <2>4. OutPlaced'
    BY <1>1, <1>3, <2>1, <2>2, <2>3, PlaceTaken DEF TInv, TypeOK
  <2>5. BuffersPacked'
    <3> SUFFICES ASSUME NEW c \in Columns
                 PROVE  /\ Packed(enc'[c].units, enc'[c].accumulated_size)
                        /\ enc'[c].accumulated_size <= ChunkSize
      BY DEF BuffersPacked
    <3>1. CASE c = col
      <4>1. enc'[c] = EmptyEncoder
        BY <1>1, <2>1, <3>1 DEF TInv, TypeOK
      <4>2. EmptyEncoder.accumulated_size <= ChunkSize
        BY SizesAssumption DEF EmptyEncoder
      <4>3. QED
        BY <4>1, <4>2, EmptyPacked
    <3>2. CASE c # col
      <4>1. enc'[c] = enc[c]
        BY <2>1, <3>2 DEF TInv, TypeOK
      <4>2. QED
        BY <4>1 DEF PlaceInv, BuffersPacked
    <3>3. QED
      BY <3>1, <3>2
  <2>6. QED
    BY <1>1, <2>4, <2>5, PlaceUnchanged
<1>4. QED
  BY <1>2, <1>3

LEMMA PlaceWriteUnit ==
  ASSUME TInv, PlaceInv, WriteUnit
  PROVE  PlaceInv'
<1> DEFINE w == out.written
           u == out.units[w + 1]
           new == Extent(col, u, pos)
<1>1. /\ pc \in {"write", "writePending"} /\ w < Len(out.units)
      /\ pos' = pos + u.size /\ summed' = summed + u.size
      /\ disk' = disk \union {new}
      /\ out' = [out EXCEPT !.written = w + 1]
      /\ UNCHANGED <<pc, col, enc, metas, groups, start, failed>>
  BY DEF WriteUnit, callVars, tableVars, histVars
<1>2. out \in OutChunks /\ out.units \in Seq(Units) /\ w \in Nat
      /\ out.offset \in Nat /\ Len(out.units) \in Nat /\ pos \in Nat /\ summed \in Nat
  BY DEF TInv, TypeOK, OutChunks
<1>3. w + 1 \in 1 .. Len(out.units) /\ w + 1 \in Nat
  BY <1>1, <1>2
<1>4. u \in Units
  BY <1>2, <1>3
<1>5. u.size \in Nat /\ u.rel \in Nat
  BY <1>4, SizesAssumption DEF Units
<1>6. out'.written = w + 1 /\ out'.units = out.units /\ out'.offset = out.offset
  BY <1>1, <1>2, <1>3, WrittenIs
<1>7. /\ Packed(out.units, EndOf(out.units)) /\ EndOf(out.units) < U32
      /\ pos = out.offset + u.rel
      /\ \A j \in 1 .. w : Extent(col, out.units[j], out.offset + out.units[j].rel) \in disk
  <2>1. NextUnitAt = u.rel
    BY <1>1, <1>2 DEF NextUnitAt
  <2>2. QED
    BY <1>1, <2>1 DEF PlaceInv, OutPlaced
<1>8. NextUnitAt' = u.rel + u.size
  <2>1. CASE w + 1 = Len(out.units)
    <3>1. out.units # << >>
      BY <1>1 DEF TInv, CallInv
    <3>2. QED
      BY <1>6, <2>1, <3>1 DEF NextUnitAt, EndOf
  <2>2. CASE w + 1 # Len(out.units)
    <3>1. w + 1 \in 1 .. Len(out.units) - 1
      BY <1>2, <1>3, <2>2
    <3>2. out.units[(w + 1) + 1].rel = u.rel + u.size
      BY <1>7, <3>1 DEF Packed
    <3>3. QED
      BY <1>6, <2>2, <3>2 DEF NextUnitAt
  <2>3. QED
    BY <2>1, <2>2
<1>9. new.at = pos /\ new.size = u.size
  BY DEF Extent
<1>10. OutPlaced'
  <2>1. ASSUME NEW j \in 1 .. w + 1
        PROVE  Extent(col, out.units[j], out.offset + out.units[j].rel) \in disk'
    <3>1. CASE j \in 1 .. w
      BY <1>1, <1>7, <3>1
    <3>2. CASE j = w + 1
      BY <1>1, <1>7, <3>2
    <3>3. QED
      BY <1>2, <2>1, <3>1, <3>2
  <2>2. pos' = out'.offset + NextUnitAt'
    <3> HIDE DEF u
    <3>1. QED
      BY <1>1, <1>2, <1>5, <1>6, <1>7, <1>8
  <2>3. QED
    BY <1>1, <1>6, <1>7, <2>1, <2>2 DEF OutPlaced
<1> HIDE DEF u, new
<1>11. ChecksumCovers'
  BY <1>1, <1>2, <1>5 DEF PlaceInv, ChecksumCovers
<1>12. \A e \in disk : e.at \in Nat /\ e.size \in Nat
  BY SizesAssumption DEF TInv, TypeOK, Extents
<1>13. DiskBelow'
  BY <1>1, <1>2, <1>5, <1>9, <1>12, SMTT(40) DEF PlaceInv, DiskBelow
<1>14. ExtentsDisjoint'
  <2> SUFFICES ASSUME NEW e \in disk', NEW f \in disk', e # f
               PROVE  e.at + e.size <= f.at \/ f.at + f.size <= e.at
    BY DEF ExtentsDisjoint
  <2>1. \A d \in disk : d.at + d.size <= new.at
    BY <1>9 DEF PlaceInv, DiskBelow
  <2>2. CASE e \in disk /\ f \in disk
    BY <2>2 DEF PlaceInv, ExtentsDisjoint
  <2>3. CASE e = new \/ f = new
    BY <1>1, <2>1, <2>3
  <2>4. QED
    BY <1>1, <2>2, <2>3
<1>15. pos \in Nat /\ pos' \in Nat /\ pos <= pos'
  BY <1>1, <1>2, <1>5
<1>16. MetasPlaced'
  <2> SUFFICES ASSUME NEW c \in Columns, NEW k \in 1 .. Len(metas[c])
               PROVE  /\ ChunkPlaced(c, metas[c][k])'
                      /\ start <= metas[c][k].offset
                      /\ metas[c][k].offset + metas[c][k].size <= pos'
    BY <1>1 DEF MetasPlaced, ChunkPlaced
  <2>1. metas[c][k] \in Chunks
    BY DEF TInv, TypeOK
  <2>2. metas[c][k].offset \in Nat /\ metas[c][k].size \in Nat
    BY <2>1 DEF Chunks
  <2>3. /\ ChunkPlaced(c, metas[c][k]) /\ start <= metas[c][k].offset
        /\ metas[c][k].offset + metas[c][k].size <= pos
    BY DEF PlaceInv, MetasPlaced
  <2>4. ChunkPlaced(c, metas[c][k])'
    BY <1>1, <2>3 DEF ChunkPlaced
  <2>5. metas[c][k].offset + metas[c][k].size <= pos'
    BY <1>15, <2>2, <2>3
  <2>6. QED
    BY <2>3, <2>4, <2>5
<1>17. GroupsPlaced'
  BY <1>1 DEF PlaceInv, GroupsPlaced, ChunkPlaced
<1>18. GroupExtents' /\ BuffersPacked'
  BY <1>1 DEF PlaceInv, GroupExtents, BuffersPacked
<1>19. QED
  BY <1>10, <1>11, <1>13, <1>14, <1>16, <1>17, <1>18 DEF PlaceInv

LEMMA PlaceEndChunk ==
  ASSUME TInv, PosInv, PlaceInv, EndChunk
  PROVE  PlaceInv'
<1> DEFINE new == ChunkMeta(out, pos)
<1>1. /\ pc \in {"write", "writePending"} /\ out.written = Len(out.units)
      /\ metas' = [metas EXCEPT ![col] = Append(metas[col], new)]
      /\ pc' \in {"encode", "flush"}
      /\ UNCHANGED <<enc, pos, summed, disk, groups, start, failed>>
  BY DEF EndChunk, AddChunk, fileVars, histVars
<1>2. out.units \in Seq(Units) /\ out.offset \in Nat /\ pos \in Nat /\ start \in Nat
      /\ col \in Columns /\ start <= out.offset
  BY <1>1 DEF TInv, TypeOK, OutChunks, CallInv, PosInv
<1>3. /\ Packed(out.units, EndOf(out.units)) /\ EndOf(out.units) < U32
      /\ pos = out.offset + EndOf(out.units)
      /\ \A j \in 1 .. Len(out.units) :
           Extent(col, out.units[j], out.offset + out.units[j].rel) \in disk
  BY <1>1 DEF PlaceInv, OutPlaced, NextUnitAt
<1>4. new.offset = out.offset /\ new.units = out.units
      /\ new.size = EndOf(out.units) /\ new.size \in Nat
  <2>1. EndOf(out.units) \in Nat /\ U32 \in Nat
    BY <1>2, EndOfNat, U32Assumption
  <2>2. pos - out.offset = EndOf(out.units)
    BY <1>2, <1>3, <2>1
  <2>3. (pos - out.offset) % U32 = EndOf(out.units)
    BY <1>3, <2>1, <2>2, ModSmall
  <2>4. QED
    BY <2>1, <2>3 DEF ChunkMeta
<1>5. ChunkPlaced(col, new) /\ start <= new.offset /\ new.offset + new.size <= pos
  BY <1>2, <1>3, <1>4 DEF ChunkPlaced
<1>6. new \in Chunks
  BY <1>1, ChunkMetaType DEF PosInv
<1> HIDE DEF new
<1>7. MetasPlaced'
  <2> SUFFICES ASSUME NEW c \in Columns, NEW k \in 1 .. Len(metas'[c])
               PROVE  /\ ChunkPlaced(c, metas'[c][k])
                      /\ start <= metas'[c][k].offset
                      /\ metas'[c][k].offset + metas'[c][k].size <= pos
    BY <1>1 DEF MetasPlaced, ChunkPlaced
  <2>1. metas[c] \in Seq(Chunks) /\ metas \in [Columns -> Seq(Chunks)]
    BY DEF TInv, TypeOK
  <2>2. CASE c # col
    <3>1. metas'[c] = metas[c]
      BY <1>1, <2>1, <2>2
    <3>2. QED
      BY <3>1 DEF PlaceInv, MetasPlaced
  <2>3. CASE c = col
    <3>1. metas'[c] = Append(metas[c], new)
      BY <1>1, <2>1, <2>3
    <3>2. Len(metas'[c]) = Len(metas[c]) + 1 /\ Len(metas[c]) \in Nat
          /\ metas'[c][Len(metas[c]) + 1] = new
          /\ \A i \in 1 .. Len(metas[c]) : metas'[c][i] = metas[c][i]
      BY <1>6, <2>1, <3>1, AppendIs
    <3>3. CASE k = Len(metas[c]) + 1
      BY <1>5, <2>3, <3>2, <3>3
    <3>4. CASE k \in 1 .. Len(metas[c])
      <4>1. metas'[c][k] = metas[c][k]
        BY <3>2, <3>4
      <4>2. QED
        BY <3>4, <4>1 DEF PlaceInv, MetasPlaced
    <3>5. QED
      BY <3>2, <3>3, <3>4
  <2>4. QED
    BY <2>2, <2>3
<1>8. GroupsPlaced' /\ GroupExtents'
  BY <1>1, SMTT(40) DEF PlaceInv, GroupsPlaced, ChunkPlaced, GroupExtents
<1>9. OutPlaced' /\ ChecksumCovers' /\ BuffersPacked'
  BY <1>1 DEF PlaceInv, OutPlaced, ChecksumCovers, BuffersPacked
<1>10. DiskBelow' /\ ExtentsDisjoint'
  BY <1>1 DEF PlaceInv, DiskBelow, ExtentsDisjoint
<1>11. QED
  BY <1>7, <1>8, <1>9, <1>10 DEF PlaceInv

LEMMA PlaceFinishRowGroup ==
  ASSUME TInv, PosInv, PlaceInv,
         groups' = Append(groups, GroupMeta), metas' = [c \in Columns |-> << >>],
         start' = pos \/ (start' = start /\ failed'), failed => failed',
         pc' \notin {"write", "writePending"},
         UNCHANGED <<enc, out, pos, summed, disk>>
  PROVE  PlaceInv'
<1> DEFINE new == GroupMeta
<1>1. /\ groups' = Append(groups, new) /\ metas' = [c \in Columns |-> << >>]
      /\ start' = pos \/ (start' = start /\ failed')
      /\ failed => failed' /\ pc' \notin {"write", "writePending"}
      /\ UNCHANGED <<enc, out, pos, summed, disk>>
  OBVIOUS
<1>2. groups \in Seq(Groups) /\ new \in Groups
  BY GroupMetaType DEF TInv, TypeOK
<1>3. new.offset = start /\ new.cols = metas
  BY DEF GroupMeta
<1> HIDE DEF new
<1>4. Len(groups') = Len(groups) + 1 /\ Len(groups) \in Nat
      /\ groups'[Len(groups) + 1] = new
      /\ \A i \in 1 .. Len(groups) : groups'[i] = groups[i]
  BY <1>1, <1>2, AppendIs
<1>5. MetasPlaced'
  BY <1>1 DEF MetasPlaced
<1>6. GroupsPlaced'
  <2> SUFFICES ASSUME NEW g \in 1 .. Len(groups'), NEW c \in Columns,
                      NEW k \in 1 .. Len(groups'[g].cols[c])
               PROVE  ChunkPlaced(c, groups[g].cols[c][k])'
    BY DEF GroupsPlaced
  <2>1. CASE g = Len(groups) + 1
    <3>1. groups'[g].cols = metas
      BY <1>3, <1>4, <2>1
    <3>2. ChunkPlaced(c, metas[c][k])
      BY <3>1, SMTT(40) DEF PlaceInv, MetasPlaced
    <3>3. QED
      BY <1>1, <3>1, <3>2 DEF ChunkPlaced
  <2>2. CASE g \in 1 .. Len(groups)
    <3>1. groups'[g] = groups[g]
      BY <1>4, <2>2
    <3>2. ChunkPlaced(c, groups[g].cols[c][k])
      BY <2>2, <3>1 DEF PlaceInv, GroupsPlaced
    <3>3. QED
      BY <1>1, <3>1, <3>2 DEF ChunkPlaced
  <2>3. QED
    BY <1>4, <2>1, <2>2
<1>7. GroupExtents'
  <2> SUFFICES ASSUME NEW g \in 1 .. Len(groups')
               PROVE  LET end == IF g = Len(groups') THEN start' ELSE groups'[g + 1].offset
                      IN /\ groups'[g].offset <= end
                         /\ \A c \in Columns : \A k \in 1 .. Len(groups'[g].cols[c]) :
                              /\ groups'[g].offset <= groups'[g].cols[c][k].offset
                              /\ ~failed' => groups'[g].cols[c][k].offset
                                   + groups'[g].cols[c][k].size <= end
    BY <1>1 DEF GroupExtents
  <2>1. CASE g = Len(groups) + 1
    <3>1. groups'[g] = new /\ g = Len(groups')
      BY <1>4, <2>1
    <3>2. start <= start' /\ (~failed' => start' = pos)
      BY <1>1 DEF PosInv, TInv, TypeOK
    <3>3. QED
      BY <1>3, <3>1, <3>2 DEF PlaceInv, MetasPlaced
  <2>2. CASE g \in 1 .. Len(groups)
    <3>1. groups'[g] = groups[g] /\ g # Len(groups')
      BY <1>4, <2>2
    <3>2. groups'[g + 1].offset =
            (IF g = Len(groups) THEN start ELSE groups[g + 1].offset)
      <4>1. CASE g = Len(groups)
        BY <1>3, <1>4, <4>1
      <4>2. CASE g # Len(groups)
        <5>1. g + 1 \in 1 .. Len(groups)
          BY <1>4, <2>2, <4>2
        <5>2. QED
          BY <1>4, <4>2, <5>1
      <4>3. QED
        BY <4>1, <4>2
    <3>3. QED
      BY <1>1, <2>2, <3>1, <3>2 DEF PlaceInv, GroupExtents
  <2>3. QED
    BY <1>4, <2>1, <2>2
<1>8. OutPlaced' /\ ChecksumCovers' /\ BuffersPacked'
  BY <1>1 DEF PlaceInv, OutPlaced, ChecksumCovers, BuffersPacked
<1>9. DiskBelow' /\ ExtentsDisjoint'
  BY <1>1 DEF PlaceInv, DiskBelow, ExtentsDisjoint
<1>10. QED
  BY <1>5, <1>6, <1>7, <1>8, <1>9 DEF PlaceInv

LEMMA PlaceStep ==
  ASSUME TInv, PosInv, PlaceInv, [Next]_vars
  PROVE  PlaceInv'
<1> USE DEF callVars, fileVars, tableVars, histVars
<1>1. ASSUME NEW n \in BatchRows, WriteBatch(n)
      PROVE  PlaceInv'
  <2>1. OutPlaced' /\ BuffersPacked'
    BY <1>1 DEF WriteBatch, OutPlaced, BuffersPacked, PlaceInv
  <2>2. QED
    BY <1>1, <2>1, PlaceUnchanged DEF WriteBatch
<1>2. ASSUME NEW size \in UnitSizes, Encode(size)
      PROVE  PlaceInv'
  BY <1>2, PlaceEncode
<1>3. CASE NextColumn \/ RejectBatch \/ EndBatch \/ LoseChunk \/ PanicInWrite \/ Finish
  <2>1. pc' \notin {"write", "writePending"} /\ (failed => failed')
        /\ UNCHANGED <<enc, pos, summed, disk, metas, groups, start>>
    BY <1>3 DEF NextColumn, RejectBatch, EndBatch, LoseChunk, PanicInWrite, Finish
  <2>2. OutPlaced' /\ BuffersPacked'
    BY <2>1 DEF OutPlaced, BuffersPacked, PlaceInv
  <2>3. QED
    BY <2>1, <2>2, PlaceUnchanged
<1>4. CASE WriteUnit
  BY <1>4, PlaceWriteUnit
<1>5. CASE EndChunk
  BY <1>5, PlaceEndChunk
<1>6. CASE FinishColumn
  BY <1>6, PlaceFinishColumn
<1>7. CASE FinishRowGroup
  <2>1. /\ groups' = Append(groups, GroupMeta) /\ metas' = [c \in Columns |-> << >>]
        /\ start' = pos /\ pc' \in {"closed", "idle"}
        /\ UNCHANGED <<enc, out, pos, summed, disk, failed>>
    BY <1>7 DEF FinishRowGroup
  <2>2. QED
    BY <2>1, PlaceFinishRowGroup
<1>10. CASE FailRowGroup
  <2>1. pc' \notin {"write", "writePending"} /\ failed'
        /\ UNCHANGED <<enc, out, pos, summed, disk, start>>
    BY <1>10 DEF FailRowGroup
  <2>2. CASE UNCHANGED <<groups, metas, cur>>
    <3>1. OutPlaced' /\ BuffersPacked'
      BY <2>1 DEF OutPlaced, BuffersPacked, PlaceInv
    <3>2. QED
      BY <2>1, <2>2, <3>1, PlaceUnchanged
  <2>3. CASE groups' = Append(groups, GroupMeta) /\ metas' = [c \in Columns |-> << >>]
    BY <2>1, <2>3, PlaceFinishRowGroup
  <2>4. QED
    BY <1>10, <2>2, <2>3 DEF FailRowGroup
<1>8. CASE Terminated \/ UNCHANGED vars
  <2>1. UNCHANGED <<pc, col, enc, out, pos, summed, disk, metas, groups, start, failed>>
    BY <1>8 DEF Terminated, vars
  <2>2. OutPlaced' /\ BuffersPacked'
    BY <2>1 DEF OutPlaced, BuffersPacked, PlaceInv, NextUnitAt
  <2>3. QED
    BY <2>1, <2>2, PlaceUnchanged
<1>9. QED
  BY <1>1, <1>2, <1>3, <1>4, <1>5, <1>6, <1>7, <1>8, <1>10 DEF Next, Step

(* The listed chunks are those of the current and of the finished groups.  *)
LEMMA PlaceImplies ==
  PlaceInv => ChunksPlaced /\ BufferBounded
  BY DEF PlaceInv, ChunksPlaced, ListedChunks, MetasPlaced, GroupsPlaced,
         BufferBounded, BuffersPacked, Packed

LEMMA PlaceInvariant == Spec => [](TInv /\ PosInv /\ PlaceInv)
<1>1. Init => TInv /\ PosInv /\ PlaceInv
  BY TypeInit, PlaceInit
<1>2. TInv /\ PosInv /\ PlaceInv /\ [Next]_vars => TInv' /\ PosInv' /\ PlaceInv'
  BY TypeStep, PlaceStep
<1>3. QED
  BY <1>1, <1>2, PTL DEF Spec

(* Whatever calls fail and wherever the chunks are cut, every chunk listed *)
(* in the metadata points at the bytes of its own column and no byte is    *)
(* written twice (flush_chunk_and_get_metadata); the file checksum has     *)
(* seen every byte.                                                        *)
THEOREM PlacementCorrect == Spec => [](ChunksPlaced /\ ChecksumCovers)
<1>1. PlaceInv => ChunksPlaced /\ ChecksumCovers
  BY PlaceImplies DEF PlaceInv
<1>2. QED
  BY <1>1, PlaceInvariant, PTL

(* The chunks of a row group lie behind the offset finish_row_group        *)
(* records for it and, without failed calls, before the next group's.      *)
THEOREM GroupsContained == Spec => []GroupExtents
<1>1. PlaceInv => GroupExtents
  BY DEF PlaceInv
<1>2. QED
  BY <1>1, PlaceInvariant, PTL

(* accumulated_size of an encoder is what it buffers, and encode() never   *)
(* returns with more than a chunk in the buffer, failed calls or not.      *)
THEOREM BuffersBounded == Spec => []BufferBounded
<1>1. PlaceInv => BufferBounded
  BY PlaceImplies
<1>2. QED
  BY <1>1, PlaceInvariant, PTL

-----------------------------------------------------------------------------
(* No byte is lost.  NoOrphans alone is not inductive: when the chunk that *)
(* is being written joins its column, the extents behind its offset must   *)
(* be of that column.                                                      *)
OutExtents ==
  pc \in {"write", "writePending"} =>
    \A e \in disk : e.at >= out.offset => e.col = col

OrphanInv == NoOrphans /\ OutExtents

(* A chunk stays listed while groups and metas only grow.                  *)
LEMMA ListedKept ==
  ASSUME NEW c \in Columns, UNCHANGED <<metas, groups>>
  PROVE  ListedChunks(c)' = ListedChunks(c)
  BY DEF ListedChunks

(* Steps that write nothing and start no chunk.                            *)
LEMMA OrphanUnchanged ==
  ASSUME TInv, OrphanInv, UNCHANGED <<disk, metas, groups, out>>, failed => failed',
         pc' \in {"write", "writePending"} => pc' = pc /\ col' = col
  PROVE  OrphanInv'
<1>1. \A e \in disk : e.col \in Columns
  BY DEF TInv, TypeOK, Extents
<1>2. NoOrphans'
  BY <1>1, ListedKept DEF OrphanInv, NoOrphans
<1>3. OutExtents'
  BY DEF OrphanInv, OutExtents
<1>4. QED
  BY <1>2, <1>3 DEF OrphanInv

(* A chunk is taken: it starts behind everything on disk.                  *)
LEMMA OrphanTaken ==
  ASSUME TInv, PlaceInv, OrphanInv, pc \notin {"write", "writePending"},
         NEW e, out' = TakeChunk(e), UNCHANGED <<disk, metas, groups, failed>>
  PROVE  OrphanInv'
<1>1. out.units = << >>
  BY DEF TInv, CallInv, NoChunk
<1>2. \A x \in disk : x.col \in Columns /\ x.at \in Nat /\ x.size \in Nat \ {0}
  BY SizesAssumption DEF TInv, TypeOK, Extents
<1>3. NoOrphans'
  BY <1>1, <1>2, ListedKept DEF OrphanInv, NoOrphans
<1>4. out'.offset = pos /\ pos \in Nat
  BY DEF TakeChunk, TInv, TypeOK
<1>5. \A x \in disk : x.at < pos
  BY <1>2, <1>4 DEF PlaceInv, DiskBelow
<1>6. OutExtents'
  BY <1>2, <1>4, <1>5 DEF OutExtents
<1>7. QED
  BY <1>3, <1>6 DEF OrphanInv

LEMMA OrphanWriteUnit ==
  ASSUME TInv, PosInv, OrphanInv, WriteUnit
  PROVE  OrphanInv'
<1> DEFINE u == out.units[out.written + 1]
           new == Extent(col, u, pos)
<1>1. /\ pc \in {"write", "writePending"}
      /\ disk' = disk \union {new}
      /\ out' = [out EXCEPT !.written = out.written + 1]
      /\ UNCHANGED <<pc, col, metas, groups, failed>>
  BY DEF WriteUnit, callVars, tableVars, histVars
<1>2. out \in OutChunks /\ out.written \in Nat /\ out.offset \in Nat /\ pos \in Nat
      /\ col \in Columns /\ out.units # << >> /\ out.offset <= pos
  BY <1>1 DEF TInv, TypeOK, OutChunks, CallInv, PosInv
<1>3. out'.units = out.units /\ out'.offset = out.offset
  BY <1>1, <1>2, WrittenIs
<1>4. new.at = pos /\ new.col = col
  BY DEF Extent
<1> HIDE DEF new
<1>5. \A e \in disk : e.col \in Columns /\ ListedChunks(e.col)' = ListedChunks(e.col)
  BY <1>1, ListedKept DEF TInv, TypeOK, Extents
<1>6. NoOrphans'
  <2> SUFFICES ASSUME ~failed, NEW e \in disk'
               PROVE  \/ out'.units # << >> /\ e.at >= out'.offset
                      \/ \E ch \in ListedChunks(e.col)' :
                           ch.offset <= e.at /\ e.at + e.size <= ch.offset + ch.size
    BY <1>1 DEF NoOrphans
  <2>1. CASE e = new
    BY <1>2, <1>3, <1>4, <2>1
  <2>2. CASE e \in disk
    BY <1>3, <1>5, <2>2 DEF OrphanInv, NoOrphans
  <2>3. QED
    BY <1>1, <2>1, <2>2
<1>7. OutExtents'
  BY <1>1, <1>3, <1>4 DEF OrphanInv, OutExtents
<1>8. QED
  BY <1>6, <1>7 DEF OrphanInv

LEMMA OrphanEndChunk ==
  ASSUME TInv, PosInv, PlaceInv, OrphanInv, EndChunk
  PROVE  OrphanInv'
<1> DEFINE new == ChunkMeta(out, pos)
<1>1. /\ pc \in {"write", "writePending"} /\ out.written = Len(out.units)
      /\ metas' = [metas EXCEPT ![col] = Append(metas[col], new)]
      /\ pc' \in {"encode", "flush"}
      /\ UNCHANGED <<pos, disk, groups, failed>>
  BY DEF EndChunk, AddChunk, fileVars, histVars
<1>2. out.units \in Seq(Units) /\ out.offset \in Nat /\ pos \in Nat /\ col \in Columns
  BY <1>1 DEF TInv, TypeOK, OutChunks, CallInv
<1>3. new.offset = out.offset /\ new.offset + new.size = pos
  <2>1. EndOf(out.units) \in Nat /\ U32 \in Nat
    BY <1>2, EndOfNat, U32Assumption
  <2>2. pos = out.offset + EndOf(out.units) /\ EndOf(out.units) < U32
    BY <1>1 DEF PlaceInv, OutPlaced, NextUnitAt
  <2>5. pos - out.offset = EndOf(out.units)
    BY <1>2, <2>1, <2>2
  <2>3. (pos - out.offset) % U32 = EndOf(out.units)
    BY <2>1, <2>2, <2>5, ModSmall
  <2>4. QED
    BY <1>2, <2>1, <2>2, <2>3 DEF ChunkMeta
<1>4. new \in Chunks
  BY <1>1, ChunkMetaType DEF PosInv
<1> HIDE DEF new
<1>5. ASSUME NEW c \in Columns, c = col
      PROVE  new \in ListedChunks(c)'
  <2>1. metas[c] \in Seq(Chunks) /\ metas'[c] = Append(metas[c], new)
    BY <1>1, <1>5 DEF TInv, TypeOK
  <2>2. Len(metas'[c]) \in 1 .. Len(metas'[c]) /\ metas'[c][Len(metas'[c])] = new
    BY <1>4, <2>1
  <2>3. QED
    BY <2>2 DEF ListedChunks
<1>6. ASSUME NEW c \in Columns
      PROVE  ListedChunks(c) \subseteq ListedChunks(c)'
  <2>1. metas[c] \in Seq(Chunks) /\ metas \in [Columns -> Seq(Chunks)]
    BY DEF TInv, TypeOK
  <2>2. ASSUME NEW k \in 1 .. Len(metas[c])
        PROVE  k \in 1 .. Len(metas'[c]) /\ metas'[c][k] = metas[c][k]
    <3>1. CASE c # col
      BY <1>1, <2>1, <2>2, <3>1
    <3>2. CASE c = col
      <4>1. metas'[c] = Append(metas[c], new)
        BY <1>1, <2>1, <3>2
      <4>2. QED
        BY <1>4, <2>1, <2>2, <4>1, AppendIs
    <3>3. QED
      BY <3>1, <3>2
  <2>3. QED
    BY <1>1, <2>2 DEF ListedChunks
<1>7. NoOrphans'
  <2> SUFFICES ASSUME ~failed, NEW e \in disk
               PROVE  \E ch \in ListedChunks(e.col)' :
                        ch.offset <= e.at /\ e.at + e.size <= ch.offset + ch.size
    BY <1>1 DEF NoOrphans
  <2>1. e.col \in Columns
    BY DEF TInv, TypeOK, Extents
  <2>2. CASE e.at >= out.offset
    <3>1. e.col = col /\ e.at + e.size <= pos
      BY <1>1, <2>2 DEF OrphanInv, OutExtents, PlaceInv, DiskBelow
    <3>2. new \in ListedChunks(e.col)'
      BY <1>5, <2>1, <3>1
    <3>3. QED
      BY <1>3, <2>2, <3>1, <3>2
  <2>3. CASE ~(e.at >= out.offset)
    <3>1. \E ch \in ListedChunks(e.col) :
            ch.offset <= e.at /\ e.at + e.size <= ch.offset + ch.size
      BY <2>3 DEF OrphanInv, NoOrphans
    <3>2. QED
      BY <1>6, <2>1, <3>1
  <2>4. QED
    BY <2>2, <2>3
<1>8. OutExtents'
  BY <1>1 DEF OutExtents
<1>9. QED
  BY <1>7, <1>8 DEF OrphanInv

(* The chunks of the current row group become those of the new group.      *)
LEMMA OrphanFinishRowGroup ==
  ASSUME TInv, PosInv, OrphanInv, groups' = Append(groups, GroupMeta),
         UNCHANGED <<out, disk, failed>>, pc' \notin {"write", "writePending"}
  PROVE  OrphanInv'
<1>1. groups \in Seq(Groups) /\ GroupMeta \in Groups
  BY GroupMetaType DEF TInv, TypeOK
<1>2. /\ Len(groups') = Len(groups) + 1 /\ Len(groups) \in Nat
      /\ groups'[Len(groups) + 1] = GroupMeta
      /\ \A g \in 1 .. Len(groups) : groups'[g] = groups[g]
  BY <1>1, AppendIs
<1>3. GroupMeta.cols = metas
  BY DEF GroupMeta
<1>4. ASSUME NEW c \in Columns
      PROVE  ListedChunks(c) \subseteq ListedChunks(c)'
  <2>1. Len(groups) + 1 \in 1 .. Len(groups')
    BY <1>2
  <2>2. \A k \in 1 .. Len(metas[c]) : metas[c][k] \in ListedChunks(c)'
    BY <1>2, <1>3, <2>1 DEF ListedChunks
  <2>3. ASSUME NEW g \in 1 .. Len(groups), NEW k \in 1 .. Len(groups[g].cols[c])
        PROVE  groups[g].cols[c][k] \in ListedChunks(c)'
    <3>1. g \in 1 .. Len(groups') /\ groups'[g] = groups[g]
      BY <1>2
    <3>2. QED
      BY <3>1 DEF ListedChunks
  <2>4. ASSUME NEW ch \in ListedChunks(c)
        PROVE  \/ \E k \in 1 .. Len(metas[c]) : ch = metas[c][k]
               \/ \E g \in 1 .. Len(groups) : \E k \in 1 .. Len(groups[g].cols[c]) :
                    ch = groups[g].cols[c][k]
    BY DEF ListedChunks
  <2>5. QED
    BY <2>2, <2>3, <2>4
<1>5. \A e \in disk : e.col \in Columns
  BY DEF TInv, TypeOK, Extents
<1>6. NoOrphans'
  BY <1>4, <1>5 DEF OrphanInv, NoOrphans
<1>7. OutExtents'
  BY DEF OutExtents
<1>8. QED
  BY <1>6, <1>7 DEF OrphanInv

LEMMA OrphanStep ==
  ASSUME TInv, PosInv, PlaceInv, OrphanInv, [Next]_vars
  PROVE  OrphanInv'
<1> USE DEF callVars, fileVars, tableVars, histVars
<1>1. ASSUME NEW n \in BatchRows, WriteBatch(n)
      PROVE  OrphanInv'
  BY <1>1, OrphanUnchanged DEF WriteBatch
<1>2. ASSUME NEW size \in UnitSizes, Encode(size)
      PROVE  OrphanInv'
  BY <1>2, OrphanUnchanged, OrphanTaken DEF Encode
<1>3. CASE NextColumn \/ EndBatch \/ Finish
  BY <1>3, OrphanUnchanged DEF NextColumn, EndBatch, Finish
<1>4. CASE WriteUnit
  BY <1>4, OrphanWriteUnit
<1>5. CASE EndChunk
  BY <1>5, OrphanEndChunk
<1>6. CASE FinishColumn
  BY <1>6, OrphanUnchanged, OrphanTaken DEF FinishColumn
<1>7. CASE FinishRowGroup
  BY <1>7, OrphanFinishRowGroup DEF FinishRowGroup
<1>8. CASE RejectBatch \/ LoseChunk \/ PanicInWrite \/ FailRowGroup
  BY <1>8 DEF RejectBatch, LoseChunk, PanicInWrite, FailRowGroup, OrphanInv,
              NoOrphans, OutExtents
<1>9. CASE Terminated \/ UNCHANGED vars
  BY <1>9, OrphanUnchanged DEF Terminated, vars
<1>10. QED
  BY <1>1, <1>2, <1>3, <1>4, <1>5, <1>6, <1>7, <1>8, <1>9 DEF Next, Step

(* Unless a call has failed, every byte flush_chunk_and_get_metadata wrote *)
(* belongs to a chunk the metadata lists for the byte's column or to the   *)
(* chunk being written, wherever chunks and row groups are cut.            *)
THEOREM NothingOrphaned == Spec => []NoOrphans
<1>1. Init => OrphanInv
  BY DEF Init, OrphanInv, NoOrphans, OutExtents
<1>2. OrphanInv => NoOrphans
  BY DEF OrphanInv
<1>3. TInv /\ PosInv /\ PlaceInv /\ OrphanInv /\ [Next]_vars => OrphanInv'
  BY OrphanStep
<1>4. QED
  BY <1>1, <1>2, <1>3, PlaceInvariant, PTL DEF Spec

-----------------------------------------------------------------------------
(***************************************************************************)
(* The rows.  Unless a call has failed, each column of each row group      *)
(* holds exactly the rows of that group.                                   *)
(***************************************************************************)
Writing == pc \in {"write", "writePending"}

(* How many rows of the current batch column c's encoder has been given.   *)
Handed(c) ==
  IF pc \notin {"encode", "write"} \/ c > col THEN 0
  ELSE IF c < col THEN batch
  ELSE batch - slices * SliceRows(c, batch)

(* Rows of column c in the chunk being written.                            *)
OutRows(c) == IF Writing /\ c = col THEN out.num_rows ELSE 0

(* The first row of column c that its encoder still buffers, and the first *)
(* that no listed chunk holds.                                             *)
BufferStart(c) == next[c] - enc[c].num_rows
ListedEnd(c) == BufferStart(c) - OutRows(c)

(* The encoders are given the same rows, batch by batch ...                *)
HandedInv == \A c \in Columns : next[c] = rows + Handed(c)
(* ... which are in the buffer, ...                                        *)
BufferInv == \A c \in Columns : Chain(enc[c].units, BufferStart(c), next[c])
(* ... in the chunk being written, ...                                     *)
OutInv == Writing => Chain(out.units, ListedEnd(col), BufferStart(col))
(* ... in the chunks of the current row group ...                          *)
ListedInv ==
  \A c \in Columns :
    /\ Chain(metas[c], rows - cur, ListedEnd(c))
    /\ \A k \in 1 .. Len(metas[c]) :
         Chain(metas[c][k].units, metas[c][k].first,
               metas[c][k].first + metas[c][k].rows)
(* ... which a flush moves there column by column ...                      *)
FlushInv ==
  pc \in {"flush", "writePending"} =>
    \A c \in Columns : (c < col \/ (c = col /\ pc = "writePending")) =>
      enc[c].units = << >>
(* ... or in the row groups already cut.                                   *)
GroupsInv ==
  /\ \A g \in 1 .. Len(groups) :
       /\ \A c \in Columns :
            /\ Chain(groups[g].cols[c], groups[g].lo, groups[g].lo + groups[g].rows)
            /\ \A k \in 1 .. Len(groups[g].cols[c]) :
                 LET ch == groups[g].cols[c][k]
                 IN Chain(ch.units, ch.first, ch.first + ch.rows)
       /\ groups[g].lo = (IF g = 1 THEN 0
                          ELSE groups[g - 1].lo + groups[g - 1].rows)
  /\ rows - cur = (IF groups = << >> THEN 0
                   ELSE groups[Len(groups)].lo + groups[Len(groups)].rows)
  /\ pc = "closed" => cur = 0

RowInv ==
  ~failed => /\ HandedInv /\ BufferInv /\ OutInv /\ ListedInv
             /\ FlushInv /\ GroupsInv

(* One more slice of r rows.                                               *)
LEMMA OneSlice ==
  ASSUME NEW a \in Nat, NEW r \in Nat, a > 0
  PROVE  (a - 1) * r = a * r - r
  OBVIOUS

(* A batch is handed over completely by its slices.                        *)
LEMMA SlicesCover ==
  ASSUME NEW c \in Columns, NEW n \in BatchRows
  PROVE  SliceCount(c, n) * SliceRows(c, n) = n
<1>1. n \in Nat /\ EncunitLen[c] \in Nat
  BY SizesAssumption, EncunitAssumption
<1>2. CASE EncunitLen[c] = 0
  BY <1>1, <1>2 DEF SliceCount, SliceRows
<1>3. CASE EncunitLen[c] # 0
  <2>1. n = (n \div EncunitLen[c]) * EncunitLen[c]
    BY <1>1, <1>3, EncunitAssumption
  <2>2. QED
    BY <1>3, <2>1 DEF SliceCount, SliceRows
<1>4. QED
  BY <1>2, <1>3

(* A column with nothing buffered has no rows buffered.                    *)
LEMMA NothingBuffered ==
  ASSUME TInv, BufferInv, NEW c \in Columns, enc[c].units = << >>
  PROVE  enc[c].num_rows = 0
<1>1. next[c] \in Nat /\ enc[c].num_rows \in Nat
  BY DEF TInv, TypeOK, Encoders
<1>2. next[c] - enc[c].num_rows = next[c]
  BY DEF BufferInv, Chain, BufferStart
<1>3. QED
  BY <1>1, <1>2

LEMMA RowInit == Init => RowInv
<1> SUFFICES ASSUME Init PROVE RowInv
  OBVIOUS
<1>1. \A c \in Columns : next[c] = 0 /\ enc[c] = EmptyEncoder /\ metas[c] = << >>
  BY DEF Init
<1>2. HandedInv /\ OutInv /\ FlushInv
  BY <1>1 DEF Init, HandedInv, Handed, OutInv, Writing, FlushInv
<1>3. BufferInv /\ ListedInv
  BY <1>1 DEF Init, BufferInv, ListedInv, BufferStart, ListedEnd, OutRows, Writing,
     EmptyEncoder, Chain
<1>4. GroupsInv
  BY DEF Init, GroupsInv
<1>5. QED
  BY <1>2, <1>3, <1>4 DEF RowInv

LEMMA RowWriteBatch ==
  ASSUME TInv, RowInv, NEW n \in BatchRows, WriteBatch(n), ~failed'
  PROVE  RowInv'
<1>1. /\ pc = "idle" /\ pc' = "encode" /\ col' = 1 /\ batch' = n
      /\ slices' = SliceCount(1, n) /\ ~failed
      /\ UNCHANGED <<enc, out, metas, groups, rows, cur, next>>
  BY DEF WriteBatch, tableVars, rowVars
<1>2. n \in Nat /\ 1 \in Columns /\ \A c \in Columns : c \in Nat /\ (c = 1 \/ c > 1)
  BY SizesAssumption, ColumnsAssumption DEF Columns
<1>3. ASSUME NEW c \in Columns
      PROVE  next'[c] = rows' + Handed(c)'
  <2>1. Handed(c) = 0
    BY <1>1 DEF Handed
  <2>2. Handed(c)' = 0
    <3>1. CASE c = 1
      <4>1. Handed(c)' = n - SliceCount(1, n) * SliceRows(1, n)
        BY <1>1, <3>1 DEF Handed
      <4>2. QED
        BY <1>2, <4>1, SlicesCover
    <3>2. CASE c > 1
      BY <1>1, <3>2 DEF Handed
    <3>3. QED
      BY <1>2, <3>1, <3>2
  <2>3. QED
    BY <1>1, <2>1, <2>2 DEF RowInv, HandedInv
<1>4. BufferInv'
  BY <1>1 DEF RowInv, BufferInv, BufferStart
<1>5. ListedInv'
  BY <1>1 DEF RowInv, ListedInv, ListedEnd, BufferStart, OutRows, Writing
<1>6. OutInv' /\ FlushInv'
  BY <1>1 DEF OutInv, FlushInv, Writing
<1>7. GroupsInv'
  BY <1>1 DEF RowInv, GroupsInv
<1>8. QED
  BY <1>3, <1>4, <1>5, <1>6, <1>7 DEF RowInv, HandedInv

(* Types of what the row invariants talk about.                            *)
LEMMA RowTypes ==
  ASSUME TInv
  PROVE  /\ rows \in Nat /\ cur \in Nat /\ batch \in Nat /\ slices \in Nat
         /\ out.num_rows \in Nat /\ out.units \in Seq(Units)
         /\ \A c \in Columns : /\ c \in Nat /\ next[c] \in Nat
                              /\ enc[c].num_rows \in Nat /\ enc[c].units \in Seq(Units)
                              /\ metas[c] \in Seq(Chunks)
<1>1. rows \in Nat /\ cur \in Nat
  BY U32Assumption DEF TInv, TypeOK
<1>2. batch \in Nat /\ slices \in Nat
  BY DEF TInv, TypeOK
<1>3. out.num_rows \in Nat /\ out.units \in Seq(Units)
  BY DEF TInv, TypeOK, OutChunks
<1>4. ASSUME NEW c \in Columns
      PROVE  /\ c \in Nat /\ next[c] \in Nat
             /\ enc[c].num_rows \in Nat /\ enc[c].units \in Seq(Units)
             /\ metas[c] \in Seq(Chunks)
  <2>1. enc[c] \in Encoders /\ next[c] \in Nat /\ metas[c] \in Seq(Chunks)
    BY DEF TInv, TypeOK
  <2>2. c \in Nat
    BY ColumnsAssumption DEF Columns
  <2>3. QED
    BY <2>1, <2>2 DEF Encoders
<1>5. QED
  BY <1>1, <1>2, <1>3, <1>4

(* Units and chunks are elements a chain can be made of.                   *)
LEMMA ChainElements ==
  /\ \A e \in Units : e.first \in Nat /\ e.rows \in Nat
  /\ \A e \in Chunks : e.first \in Nat /\ e.rows \in Nat
  BY DEF Units, Chunks

LEMMA RowEncode ==
  ASSUME TInv, RowInv, NEW size \in UnitSizes, Encode(size), ~failed'
  PROVE  RowInv'
<1> DEFINE r == SliceRows(col, batch)
           u == NewUnit(col, r, size)
           full == Accumulate(enc[col], u)
<1>1. /\ pc = "encode" /\ col \in Columns /\ slices > 0 /\ slices' = slices - 1
      /\ next' = [next EXCEPT ![col] = next[col] + r] /\ ~failed
      /\ UNCHANGED <<col, batch, metas, groups, rows, cur>>
  BY DEF Encode, tableVars, rowVars
<1>2. batch \in BatchRows /\ r \in Nat
  BY <1>1, SliceType DEF TInv, CallInv
<1>3. u \in Units /\ full \in Encoders
  BY <1>1, <1>2, AccumulateType DEF TInv, TypeOK
<1>4. u.first = next[col] /\ u.rows = r
  BY DEF NewUnit
<1>5. full.units = Append(enc[col].units, u) /\ full.num_rows = enc[col].num_rows + r
  BY <1>4 DEF Accumulate
<1>6. pc' \in {"encode", "write"}
  BY <1>1 DEF Encode
<1>7. next'[col] = next[col] + r /\ \A c \in Columns : c # col => next'[c] = next[c]
  BY <1>1 DEF TInv, TypeOK
<1>8. BufferStart(col) \in Int /\ next[col] \in Int
  BY <1>1, RowTypes DEF BufferStart
<1>9. Chain(full.units, BufferStart(col), next[col] + r)
  <2>1. Chain(enc[col].units, BufferStart(col), next[col])
    BY <1>1 DEF RowInv, BufferInv
  <2> HIDE DEF u, full
  <2>2. QED
    BY <1>1, <1>3, <1>4, <1>5, <1>8, <2>1, RowTypes, ChainElements, ChainAppend
<1>10. \A c \in Columns : OutRows(c) = 0 /\ ListedEnd(c) = BufferStart(c)
  <2>1. \A c \in Columns : OutRows(c) = 0
    BY <1>1 DEF OutRows, Writing
  <2>2. QED
    BY <2>1, RowTypes DEF ListedEnd, BufferStart
<1>11. HandedInv'
  <2> SUFFICES ASSUME NEW c \in Columns PROVE next'[c] = rows + Handed(c)'
    BY <1>1 DEF HandedInv
  <2>1. next[c] = rows + Handed(c)
    BY <1>1 DEF RowInv, HandedInv
  <2>2. CASE c = col
    <3>1. Handed(c) = batch - slices * r
      BY <1>1, <2>2, RowTypes DEF Handed
    <3>2. Handed(c)' = batch - (slices - 1) * r
      BY <1>1, <1>6, <2>2, RowTypes DEF Handed
    <3>3. (slices - 1) * r = slices * r - r
      BY <1>1, <1>2, RowTypes, OneSlice
    <3>4. slices * r \in Nat
      BY <1>2, RowTypes
    <3>5. next[c] \in Nat /\ rows \in Nat /\ batch \in Nat
      BY RowTypes
    <3> DEFINE p == slices * r
    <3>6. Handed(c)' = batch - (p - r) /\ p \in Nat
      BY <3>2, <3>3, <3>4
    <3>7. next'[c] = next[c] + r /\ next[c] = rows + (batch - p)
      BY <1>7, <2>1, <2>2, <3>1
    <3> HIDE DEF r, p
    <3>8. QED
      BY <1>2, <3>5, <3>6, <3>7
  <2>3. CASE c # col
    <3>1. Handed(c)' = Handed(c)
      BY <1>1, <1>6, <2>3, RowTypes DEF Handed
    <3>2. QED
      BY <1>7, <2>1, <2>3, <3>1
  <2>4. QED
    BY <2>2, <2>3
<1> HIDE DEF r, u, full
<1>12. CASE full.accumulated_size > ChunkSize
  <2>1. /\ enc' = [enc EXCEPT ![col] = EmptyEncoder] /\ out' = TakeChunk(full)
        /\ pc' = "write"
    BY <1>12 DEF Encode, full, u, r
  <2>2. /\ enc'[col] = EmptyEncoder
        /\ \A c \in Columns : c # col => enc'[c] = enc[c]
    BY <1>1, <2>1 DEF TInv, TypeOK
  <2>3. out'.units = full.units /\ out'.num_rows = full.num_rows
    BY <2>1 DEF TakeChunk
  <2>4. BufferStart(col)' = next[col] + r
    BY <1>1, <1>2, <1>7, <2>2, RowTypes DEF BufferStart, EmptyEncoder
  <2>5. \A c \in Columns : c # col => BufferStart(c)' = BufferStart(c)
    BY <1>7, <2>2 DEF BufferStart
  <2>6. \A c \in Columns : ListedEnd(c)' = ListedEnd(c)
    <3> SUFFICES ASSUME NEW c \in Columns PROVE ListedEnd(c)' = ListedEnd(c)
      OBVIOUS
    <3>1. CASE c = col
      <4>1. OutRows(c)' = enc[col].num_rows + r
        BY <1>1, <1>5, <2>1, <2>3, <3>1 DEF OutRows, Writing
      <4>2. ListedEnd(c)' = (next[col] + r) - (enc[col].num_rows + r)
        BY <1>1, <2>4, <3>1, <4>1 DEF ListedEnd
      <4>3. ListedEnd(c) = next[col] - enc[col].num_rows
        BY <1>1, <1>10, <3>1 DEF BufferStart
      <4>4. next[col] \in Nat /\ enc[col].num_rows \in Nat
        BY <1>1, RowTypes
      <4>5. QED
        BY <1>2, <4>2, <4>3, <4>4
    <3>2. CASE c # col
      <4>1. OutRows(c)' = 0
        BY <1>1, <3>2 DEF OutRows
      <4>2. QED
        BY <1>10, <2>5, <3>2, <4>1 DEF ListedEnd
    <3>3. QED
      BY <3>1, <3>2
  <2>7. BufferInv'
    <3> SUFFICES ASSUME NEW c \in Columns
                 PROVE  Chain(enc'[c].units, BufferStart(c)', next'[c])
      BY DEF BufferInv
    <3>1. CASE c = col
      BY <1>1, <1>7, <2>2, <2>4, <3>1 DEF EmptyEncoder, Chain
    <3>2. CASE c # col
      BY <1>1, <1>7, <2>2, <2>5, <3>2 DEF RowInv, BufferInv
    <3>3. QED
      BY <3>1, <3>2
  <2>8. OutInv'
    BY <1>1, <1>9, <1>10, <2>3, <2>4, <2>6 DEF OutInv
  <2>9. ListedInv'
    BY <1>1, <2>6 DEF RowInv, ListedInv
  <2>10. FlushInv' /\ GroupsInv'
    BY <1>1, <2>1 DEF RowInv, FlushInv, GroupsInv
  <2>11. QED
    BY <1>11, <2>7, <2>8, <2>9, <2>10 DEF RowInv
<1>13. CASE ~(full.accumulated_size > ChunkSize)
  <2>1. enc' = [enc EXCEPT ![col] = full] /\ pc' = "encode"
    BY <1>1, <1>13 DEF Encode, full, u, r
  <2>2. /\ enc'[col] = full
        /\ \A c \in Columns : c # col => enc'[c] = enc[c]
    BY <1>1, <2>1 DEF TInv, TypeOK
  <2>3. \A c \in Columns : BufferStart(c)' = BufferStart(c)
    <3>1. BufferStart(col)' = (next[col] + r) - (enc[col].num_rows + r)
      BY <1>1, <1>5, <1>7, <2>2 DEF BufferStart
    <3>2a. next[col] \in Nat /\ enc[col].num_rows \in Nat
      BY <1>1, RowTypes
    <3>2. BufferStart(col)' = BufferStart(col)
      BY <1>2, <3>1, <3>2a DEF BufferStart
    <3>3. QED
      BY <1>1, <1>7, <2>2, <3>2 DEF BufferStart
  <2>4. \A c \in Columns : OutRows(c)' = 0
    BY <2>1 DEF OutRows, Writing
  <2>5. \A c \in Columns : ListedEnd(c)' = ListedEnd(c)
    BY <1>10, <2>3, <2>4 DEF ListedEnd
  <2>6. BufferInv'
    <3> SUFFICES ASSUME NEW c \in Columns
                 PROVE  Chain(enc'[c].units, BufferStart(c)', next'[c])
      BY DEF BufferInv
    <3>1. CASE c = col
      BY <1>7, <1>9, <2>2, <2>3, <3>1
    <3>2. CASE c # col
      BY <1>1, <1>7, <2>2, <2>3, <3>2 DEF RowInv, BufferInv
    <3>3. QED
      BY <3>1, <3>2
  <2>7. ListedInv'
    BY <1>1, <2>5 DEF RowInv, ListedInv
  <2>8. OutInv' /\ FlushInv' /\ GroupsInv'
    BY <1>1, <2>1 DEF RowInv, OutInv, Writing, FlushInv, GroupsInv
  <2>9. QED
    BY <1>11, <2>6, <2>7, <2>8 DEF RowInv
<1>14. QED
  BY <1>12, <1>13

(* Steps that leave the encoders, the chunks and the row groups alone.     *)
LEMMA RowKept ==
  ASSUME RowInv, ~failed, ~Writing, ~Writing', HandedInv', FlushInv',
         pc' = "closed" => pc = "closed",
         UNCHANGED <<enc, next, metas, groups, rows, cur>>
  PROVE  RowInv'
<1>1. \A c \in Columns : BufferStart(c)' = BufferStart(c) /\ ListedEnd(c)' = ListedEnd(c)
  BY DEF BufferStart, ListedEnd, OutRows
<1>2. BufferInv' /\ ListedInv'
  BY <1>1 DEF RowInv, BufferInv, ListedInv
<1>3. OutInv' /\ GroupsInv'
  BY DEF RowInv, OutInv, GroupsInv
<1>4. QED
  BY <1>2, <1>3 DEF RowInv

LEMMA RowNextColumn ==
  ASSUME TInv, RowInv, NextColumn, ~failed'
  PROVE  RowInv'
<1>1. /\ pc = "encode" /\ pc' = "encode" /\ col \in Columns /\ col' = col + 1
      /\ slices = 0
      /\ slices' = IF col + 1 \in Columns THEN SliceCount(col + 1, batch) ELSE 0
      /\ ~failed /\ UNCHANGED <<batch, enc, metas, groups, rows, cur, next>>
  BY DEF NextColumn, tableVars, rowVars, histVars
<1>2. batch \in BatchRows /\ batch \in Nat /\ SliceRows(col, batch) \in Nat
  BY <1>1, RowTypes, SliceType DEF TInv, CallInv
<1>3. ASSUME NEW c \in Columns
      PROVE  Handed(c)' = Handed(c)
  <2>1. c \in Nat /\ col \in Nat
    BY <1>1, RowTypes
  <2>2. CASE c < col
    BY <1>1, <2>1, <2>2 DEF Handed
  <2>3. CASE c = col
    <3>1. Handed(c) = batch - 0 * SliceRows(col, batch)
      BY <1>1, <2>1, <2>3 DEF Handed
    <3>2. Handed(c)' = batch
      BY <1>1, <2>1, <2>3 DEF Handed
    <3>3. QED
      BY <1>2, <3>1, <3>2
  <2>4. CASE c = col + 1
    <3>1. Handed(c) = 0
      BY <1>1, <2>1, <2>4 DEF Handed
    <3>2. Handed(c)' = batch - SliceCount(c, batch) * SliceRows(c, batch)
      BY <1>1, <2>1, <2>4 DEF Handed
    <3>3. QED
      BY <1>2, <3>1, <3>2, SlicesCover
  <2>5. CASE c > col + 1
    BY <1>1, <2>1, <2>5 DEF Handed
  <2>6. QED
    BY <2>1, <2>2, <2>3, <2>4, <2>5
<1>4. HandedInv'
  BY <1>1, <1>3 DEF RowInv, HandedInv
<1>5. ~Writing /\ ~Writing' /\ FlushInv'
  BY <1>1 DEF Writing, FlushInv
<1>6. QED
  BY <1>1, <1>4, <1>5, RowKept

LEMMA RowFinish ==
  ASSUME TInv, RowInv, Finish, ~failed'
  PROVE  RowInv'
<1>1. /\ pc = "idle" /\ pc' = "flush" /\ col' = 1 /\ ~failed
      /\ UNCHANGED <<enc, metas, groups, rows, cur, next>>
  BY DEF Finish, tableVars, rowVars, histVars
<1>2. HandedInv'
  BY <1>1 DEF RowInv, HandedInv, Handed
<1>3. FlushInv'
  BY <1>1, ColumnsAssumption DEF FlushInv, Columns
<1>4. ~Writing /\ ~Writing'
  BY <1>1 DEF Writing
<1>5. QED
  BY <1>1, <1>2, <1>3, <1>4, RowKept

LEMMA RowEndBatch ==
  ASSUME TInv, RowInv, EndBatch, ~failed'
  PROVE  RowInv'
<1>1. /\ pc = "encode" /\ col \notin Columns /\ ~failed
      /\ pc' = "idle" \/ (pc' = "flush" /\ col' = 1)
      /\ UNCHANGED <<enc, out, metas, groups, next>>
  BY DEF EndBatch, tableVars, histVars
<1>2. batch \in Nat /\ rows \in Nat /\ cur \in Nat /\ rows + batch <= MaxRows /\ cur <= rows
  BY <1>1, RowTypes, U32Assumption DEF TInv, CallInv, TypeOK
<1>3. rows' = rows + batch /\ cur' = cur + batch
  <2>1. rows + batch \in Nat /\ cur + batch \in Nat
    BY <1>2
  <2>2. rows + batch < U32 /\ cur + batch < U32 /\ U32 \in Nat
    BY <1>2, U32Assumption
  <2>3. QED
    BY <2>1, <2>2, ModSmall DEF EndBatch
<1>4. rows' - cur' = rows - cur
  BY <1>2, <1>3
<1>5. \A c \in Columns : c \in Nat /\ c < col
  BY <1>1, ColumnsAssumption DEF TInv, TypeOK, Columns
<1>6. HandedInv'
  <2> SUFFICES ASSUME NEW c \in Columns PROVE next[c] = rows' + Handed(c)'
    BY <1>1 DEF HandedInv
  <2>1. Handed(c) = batch
    <3>1. c < col /\ ~(c > col)
      BY <1>5, RowTypes DEF TInv, TypeOK
    <3>2. QED
      BY <1>1, <3>1 DEF Handed
  <2>2. Handed(c)' = 0
    BY <1>1 DEF Handed
  <2>3. next[c] = rows + batch
    BY <1>1, <2>1 DEF RowInv, HandedInv
  <2>4. QED
    BY <1>2, <1>3, <2>2, <2>3
<1>7. ~Writing /\ ~Writing'
  BY <1>1 DEF Writing
<1>8. \A c \in Columns : BufferStart(c)' = BufferStart(c) /\ ListedEnd(c)' = ListedEnd(c)
  BY <1>1, <1>7 DEF BufferStart, ListedEnd, OutRows
<1>9. BufferInv' /\ ListedInv'
  BY <1>1, <1>4, <1>8 DEF RowInv, BufferInv, ListedInv
<1>10. FlushInv'
  BY <1>1, ColumnsAssumption DEF FlushInv, Columns
<1>11. OutInv' /\ GroupsInv'
  BY <1>1, <1>4, <1>7 DEF RowInv, OutInv, GroupsInv
<1>12. QED
  BY <1>6, <1>9, <1>10, <1>11 DEF RowInv

LEMMA RowWriteUnit ==
  ASSUME TInv, RowInv, WriteUnit, ~failed'
  PROVE  RowInv'
<1>1. /\ Writing /\ out' = [out EXCEPT !.written = out.written + 1] /\ ~failed
      /\ UNCHANGED <<pc, col, batch, slices, enc, metas, groups, rows, cur, next>>
  BY DEF WriteUnit, Writing, callVars, tableVars, rowVars, histVars
<1>2. out'.units = out.units /\ out'.num_rows = out.num_rows
  BY <1>1, WrittenIs DEF TInv, TypeOK, OutChunks
<1>3. \A c \in Columns : /\ Handed(c)' = Handed(c) /\ BufferStart(c)' = BufferStart(c)
                        /\ ListedEnd(c)' = ListedEnd(c)
  BY <1>1, <1>2 DEF Handed, BufferStart, ListedEnd, OutRows, Writing
<1>4. HandedInv' /\ BufferInv' /\ ListedInv'
  BY <1>1, <1>3 DEF RowInv, HandedInv, BufferInv, ListedInv
<1>5. OutInv'
  <2>1. col \in Columns
    BY <1>1 DEF Writing, TInv, CallInv
  <2>2. QED
    BY <1>1, <1>2, <1>3, <2>1 DEF RowInv, OutInv, Writing
<1>6. FlushInv' /\ GroupsInv'
  BY <1>1 DEF RowInv, FlushInv, GroupsInv
<1>7. QED
  BY <1>4, <1>5, <1>6 DEF RowInv

LEMMA RowEndChunk ==
  ASSUME TInv, PosInv, RowInv, EndChunk, ~failed'
  PROVE  RowInv'
<1> DEFINE new == ChunkMeta(out, pos)
<1>1. /\ pc \in {"write", "writePending"} /\ col \in Columns /\ out.units # << >>
      /\ metas' = [metas EXCEPT ![col] = Append(metas[col], new)]
      /\ \/ pc = "write" /\ pc' = "encode" /\ col' = col
         \/ pc = "writePending" /\ pc' = "flush" /\ col' = col + 1
      /\ ~failed /\ UNCHANGED <<batch, slices, enc, groups, rows, cur, next>>
  BY DEF EndChunk, AddChunk, TInv, CallInv, rowVars, histVars
<1>2. Writing /\ ~Writing'
  BY <1>1 DEF Writing
<1>3. new \in Chunks
  BY <1>1, ChunkMetaType DEF PosInv
<1>4. new.first = out.units[1].first /\ new.rows = out.num_rows /\ new.units = out.units
  BY DEF ChunkMeta
<1> HIDE DEF new
<1>5. BufferStart(col) \in Int /\ ListedEnd(col) \in Int
      /\ BufferStart(col) = ListedEnd(col) + out.num_rows
  <2>1. next[col] \in Nat /\ enc[col].num_rows \in Nat /\ out.num_rows \in Nat
    BY <1>1, RowTypes
  <2>2. OutRows(col) = out.num_rows
    BY <1>2 DEF OutRows
  <2>3. QED
    BY <2>1, <2>2 DEF BufferStart, ListedEnd
<1>6. Chain(out.units, ListedEnd(col), BufferStart(col))
  BY <1>1, <1>2 DEF RowInv, OutInv
<1>7. new.first = ListedEnd(col)
  BY <1>1, <1>4, <1>6 DEF Chain
<1>8. Chain(new.units, new.first, new.first + new.rows)
  BY <1>4, <1>5, <1>6, <1>7
<1>9. ASSUME NEW c \in Columns
      PROVE  /\ BufferStart(c)' = BufferStart(c)
             /\ ListedEnd(c)' = BufferStart(c)
             /\ c # col => ListedEnd(c) = BufferStart(c)
  <2>1. BufferStart(c)' = BufferStart(c)
    BY <1>1 DEF BufferStart
  <2>2. BufferStart(c) \in Int
    BY RowTypes DEF BufferStart
  <2>3. OutRows(c)' = 0 /\ (c # col => OutRows(c) = 0)
    BY <1>2 DEF OutRows
  <2>4. QED
    BY <2>1, <2>2, <2>3 DEF ListedEnd
<1>10. HandedInv'
  <2>1. \A c \in Columns : Handed(c)' = Handed(c)
    BY <1>1 DEF Handed
  <2>2. QED
    BY <1>1, <2>1 DEF RowInv, HandedInv
<1>11. BufferInv'
  BY <1>1, <1>9 DEF RowInv, BufferInv
<1>12. ListedInv'
  <2> SUFFICES ASSUME NEW c \in Columns
               PROVE  /\ Chain(metas'[c], rows - cur, BufferStart(c))
                      /\ \A k \in 1 .. Len(metas'[c]) :
                           Chain(metas'[c][k].units, metas'[c][k].first,
                                 metas'[c][k].first + metas'[c][k].rows)
    BY <1>1, <1>9 DEF ListedInv
  <2>1. /\ Chain(metas[c], rows - cur, ListedEnd(c))
        /\ \A k \in 1 .. Len(metas[c]) :
             Chain(metas[c][k].units, metas[c][k].first,
                   metas[c][k].first + metas[c][k].rows)
    BY <1>1 DEF RowInv, ListedInv
  <2>2. CASE c # col
    <3>1. metas'[c] = metas[c]
      BY <1>1, <2>2 DEF TInv, TypeOK
    <3>2. QED
      BY <1>9, <2>1, <2>2, <3>1
  <2>3. CASE c = col
    <3>1. metas'[c] = Append(metas[c], new) /\ metas[c] \in Seq(Chunks)
      BY <1>1, <2>3 DEF TInv, TypeOK
    <3>2. rows - cur \in Int
      BY RowTypes
    <3>3. Chain(metas'[c], rows - cur, ListedEnd(c) + new.rows)
      BY <1>3, <1>5, <1>7, <2>1, <2>3, <3>1, <3>2, ChainElements, ChainAppend
    <3>4. ListedEnd(c) + new.rows = BufferStart(c)
      BY <1>4, <1>5, <2>3
    <3>5. /\ Len(metas'[c]) = Len(metas[c]) + 1 /\ Len(metas[c]) \in Nat
          /\ metas'[c][Len(metas[c]) + 1] = new
          /\ \A i \in 1 .. Len(metas[c]) : metas'[c][i] = metas[c][i]
      BY <1>3, <3>1, AppendIs
    <3>6. ASSUME NEW k \in 1 .. Len(metas'[c])
          PROVE  Chain(metas'[c][k].units, metas'[c][k].first,
                       metas'[c][k].first + metas'[c][k].rows)
      <4>1. CASE k = Len(metas[c]) + 1
        BY <1>8, <3>5, <4>1
      <4>2. CASE k \in 1 .. Len(metas[c])
        BY <2>1, <3>5, <4>2
      <4>3. QED
        BY <3>5, <4>1, <4>2
    <3>7. QED
      BY <3>3, <3>4, <3>6
  <2>4. QED
    BY <2>2, <2>3
<1>13. FlushInv'
  <2>1. \A c \in Columns : c \in Nat
    BY RowTypes
  <2>2. QED
    BY <1>1, <2>1 DEF RowInv, FlushInv
<1>14. OutInv' /\ GroupsInv'
  BY <1>1, <1>2 DEF RowInv, OutInv, GroupsInv
<1>15. QED
  BY <1>10, <1>11, <1>12, <1>13, <1>14 DEF RowInv

LEMMA RowFinishColumn ==
  ASSUME TInv, RowInv, FinishColumn, ~failed'
  PROVE  RowInv'
<1>1. /\ pc = "flush" /\ col \in Columns /\ ~failed
      /\ UNCHANGED <<metas, groups, rows, cur, next>>
  BY DEF FinishColumn, tableVars, rowVars, histVars
<1>2. CASE enc[col].units = << >>
  <2>1. pc' = "flush" /\ col' = col + 1 /\ enc' = enc
    BY <1>1, <1>2 DEF FinishColumn
  <2>2. HandedInv'
    BY <1>1, <2>1 DEF RowInv, HandedInv, Handed
  <2>3. FlushInv'
    <3>1. \A c \in Columns : c \in Nat
      BY RowTypes
    <3>2. QED
      BY <1>1, <1>2, <2>1, <3>1 DEF RowInv, FlushInv
  <2>4. ~Writing /\ ~Writing'
    BY <1>1, <2>1 DEF Writing
  <2>5. QED
    BY <1>1, <2>1, <2>2, <2>3, <2>4, RowKept
<1>3. CASE enc[col].units # << >>
  <2>1. /\ enc' = [enc EXCEPT ![col] = EmptyEncoder] /\ out' = TakeChunk(enc[col])
        /\ pc' = "writePending" /\ col' = col
    BY <1>3 DEF FinishColumn
  <2>2. /\ enc'[col] = EmptyEncoder
        /\ \A c \in Columns : c # col => enc'[c] = enc[c]
    BY <1>1, <2>1 DEF TInv, TypeOK
  <2>3. out'.units = enc[col].units /\ out'.num_rows = enc[col].num_rows
    BY <2>1 DEF TakeChunk
  <2>4. BufferStart(col)' = next[col]
    BY <1>1, <2>1, <2>2, RowTypes DEF BufferStart, EmptyEncoder
  <2>5. \A c \in Columns : c # col => BufferStart(c)' = BufferStart(c)
    BY <1>1, <2>2 DEF BufferStart
  <2>6. ASSUME NEW c \in Columns
        PROVE  ListedEnd(c)' = ListedEnd(c) /\ ListedEnd(c) = BufferStart(c)
    <3>1. OutRows(c) = 0
      BY <1>1 DEF OutRows, Writing
    <3>2. BufferStart(c) \in Int /\ next[c] \in Int /\ enc[c].num_rows \in Int
      BY RowTypes DEF BufferStart
    <3>3. ListedEnd(c) = BufferStart(c)
      BY <3>1, <3>2 DEF ListedEnd
    <3>4. CASE c = col
      <4>1. OutRows(c)' = enc[col].num_rows
        BY <2>1, <2>3, <3>4 DEF OutRows, Writing
      <4>2. ListedEnd(c)' = next[col] - enc[col].num_rows
        BY <2>1, <2>4, <3>4, <4>1 DEF ListedEnd
      <4>3. QED
        BY <3>3, <3>4, <4>2 DEF BufferStart
    <3>5. CASE c # col
      <4>1. OutRows(c)' = 0
        BY <2>1, <3>5 DEF OutRows
      <4>2. QED
        BY <2>5, <3>2, <3>3, <3>5, <4>1 DEF ListedEnd
    <3>6. QED
      BY <3>3, <3>4, <3>5
  <2>7. HandedInv'
    BY <1>1, <2>1 DEF RowInv, HandedInv, Handed
  <2>8. BufferInv'
    <3> SUFFICES ASSUME NEW c \in Columns
                 PROVE  Chain(enc'[c].units, BufferStart(c)', next[c])
      BY <1>1 DEF BufferInv
    <3>1. CASE c = col
      BY <2>1, <2>2, <2>4, <3>1 DEF EmptyEncoder, Chain
    <3>2. CASE c # col
      BY <1>1, <2>2, <2>5, <3>2 DEF RowInv, BufferInv
    <3>3. QED
      BY <3>1, <3>2
  <2>9. OutInv'
    <3>1. Chain(enc[col].units, BufferStart(col), next[col])
      BY <1>1 DEF RowInv, BufferInv
    <3>2. QED
      BY <1>1, <2>1, <2>3, <2>4, <2>6, <3>1 DEF OutInv
  <2>10. ListedInv'
    BY <1>1, <2>6 DEF RowInv, ListedInv
  <2>11. FlushInv'
    BY <1>1, <2>1, <2>2 DEF RowInv, FlushInv, EmptyEncoder
  <2>12. GroupsInv'
    BY <1>1, <2>1, SMTT(40) DEF RowInv, GroupsInv
  <2>13. QED
    BY <2>7, <2>8, <2>9, <2>10, <2>11, <2>12 DEF RowInv
<1>4. QED
  BY <1>2, <1>3

LEMMA RowFinishRowGroup ==
  ASSUME TInv, PosInv, RowInv, FinishRowGroup, ~failed'
  PROVE  RowInv'
<1> DEFINE new == GroupMeta
<1>1. /\ pc = "flush" /\ pc' \in {"closed", "idle"} /\ col \notin Columns
      /\ groups' = Append(groups, new) /\ metas' = [c \in Columns |-> << >>]
      /\ cur' = 0 /\ ~failed /\ UNCHANGED <<enc, rows, next>>
  BY DEF FinishRowGroup, histVars
<1>2. rows \in Nat /\ cur \in Nat /\ rows - cur \in Int /\ (rows - cur) + cur = rows
  BY RowTypes
<1>3. \A c \in Columns : c < col
  BY <1>1, ColumnsAssumption DEF TInv, TypeOK, Columns
<1>4. ASSUME NEW c \in Columns
      PROVE  /\ BufferStart(c) = rows /\ BufferStart(c)' = rows
             /\ ListedEnd(c) = rows /\ ListedEnd(c)' = rows
  <2>1. enc[c].num_rows = 0
    BY <1>1, <1>3, NothingBuffered DEF RowInv, FlushInv
  <2>2. next[c] = rows
    <3>1. Handed(c) = 0
      BY <1>1 DEF Handed
    <3>2. QED
      BY <1>1, <1>2, <3>1 DEF RowInv, HandedInv
  <2>3. BufferStart(c) = rows /\ BufferStart(c)' = rows
    BY <1>1, <1>2, <2>1, <2>2 DEF BufferStart
  <2>4. OutRows(c) = 0 /\ OutRows(c)' = 0
    BY <1>1 DEF OutRows, Writing
  <2>5. QED
    BY <1>2, <2>3, <2>4 DEF ListedEnd
<1>5. /\ new \in Groups /\ groups \in Seq(Groups)
      /\ new.rows = cur /\ new.lo = rows - cur /\ new.cols = metas
  BY GroupMetaType DEF GroupMeta, TInv, TypeOK
<1>6. ASSUME NEW c \in Columns
      PROVE  /\ Chain(new.cols[c], new.lo, new.lo + new.rows)
             /\ \A k \in 1 .. Len(new.cols[c]) :
                  Chain(new.cols[c][k].units, new.cols[c][k].first,
                        new.cols[c][k].first + new.cols[c][k].rows)
  <2>1. /\ Chain(metas[c], rows - cur, rows)
        /\ \A k \in 1 .. Len(metas[c]) :
             Chain(metas[c][k].units, metas[c][k].first,
                   metas[c][k].first + metas[c][k].rows)
    BY <1>1, <1>4 DEF RowInv, ListedInv
  <2>2. QED
    BY <1>2, <1>5, <2>1
<1> HIDE DEF new
<1>7. /\ Len(groups') = Len(groups) + 1 /\ Len(groups) \in Nat
      /\ groups'[Len(groups) + 1] = new /\ groups' # << >>
      /\ \A i \in 1 .. Len(groups) : groups'[i] = groups[i]
  BY <1>1, <1>5, AppendIs
<1>8. HandedInv'
  BY <1>1 DEF RowInv, HandedInv, Handed
<1>9. BufferInv'
  BY <1>1, <1>4 DEF RowInv, BufferInv
<1>10. ListedInv'
  <2>1. rows' - cur' = rows
    BY <1>1, <1>2
  <2>2. ASSUME NEW c \in Columns
        PROVE  /\ metas'[c] = << >> /\ Chain(metas'[c], rows, rows)
               /\ 1 .. Len(metas'[c]) = {}
    BY <1>1 DEF Chain
  <2>3. QED
    BY <1>4, <2>1, <2>2 DEF ListedInv
<1>11. OutInv' /\ FlushInv'
  BY <1>1 DEF OutInv, FlushInv, Writing
<1>12. ASSUME NEW g \in 1 .. Len(groups')
       PROVE  /\ \A c \in Columns :
                   /\ Chain(groups'[g].cols[c], groups'[g].lo,
                            groups'[g].lo + groups'[g].rows)
                   /\ \A k \in 1 .. Len(groups'[g].cols[c]) :
                        Chain(groups'[g].cols[c][k].units, groups'[g].cols[c][k].first,
                              groups'[g].cols[c][k].first + groups'[g].cols[c][k].rows)
              /\ groups'[g].lo = (IF g = 1 THEN 0
                                  ELSE groups'[g - 1].lo + groups'[g - 1].rows)
  <2>1. CASE g = Len(groups) + 1
    <3>1. groups'[g] = new
      BY <1>7, <2>1
    <3>2. new.lo = (IF groups = << >> THEN 0
                    ELSE groups[Len(groups)].lo + groups[Len(groups)].rows)
      BY <1>1, <1>5 DEF RowInv, GroupsInv
    <3>3. new.lo = (IF g = 1 THEN 0 ELSE groups'[g - 1].lo + groups'[g - 1].rows)
      <4>1. CASE groups = << >>
        BY <1>7, <2>1, <3>2, <4>1
      <4>2. CASE groups # << >>
        <5>1. Len(groups) \in 1 .. Len(groups) /\ g # 1 /\ g - 1 = Len(groups)
          BY <1>5, <2>1, <4>2, SeqEnds
        <5>2. QED
          BY <1>7, <3>2, <4>2, <5>1
      <4>3. QED
        BY <4>1, <4>2
    <3>4. QED
      BY <1>6, <3>1, <3>3
  <2>2. CASE g \in 1 .. Len(groups)
    <3>1. groups'[g] = groups[g]
      BY <1>7, <2>2
    <3>2. g # 1 => groups'[g - 1] = groups[g - 1]
      <4>1. g # 1 => g - 1 \in 1 .. Len(groups)
        BY <1>7, <2>2
      <4>2. QED
        BY <1>7, <4>1
    <3>3. QED
      BY <1>1, <2>2, <3>1, <3>2 DEF RowInv, GroupsInv
  <2>3. QED
    BY <1>7, <2>1, <2>2
<1>13. rows' - cur' = groups'[Len(groups')].lo + groups'[Len(groups')].rows
  BY <1>1, <1>2, <1>5, <1>7
<1>14. GroupsInv'
  BY <1>1, <1>7, <1>12, <1>13 DEF GroupsInv
<1>15. QED
  BY <1>8, <1>9, <1>10, <1>11, <1>14 DEF RowInv

LEMMA RowStep ==
  ASSUME TInv, PosInv, RowInv, [Next]_vars
  PROVE  RowInv'
<1>1. CASE failed'
  BY <1>1 DEF RowInv
<1>2. CASE ~failed'
  <2>1. CASE RejectBatch \/ LoseChunk \/ PanicInWrite \/ FailRowGroup
    BY <1>2, <2>1 DEF RejectBatch, LoseChunk, PanicInWrite, FailRowGroup
  <2>2. CASE Terminated \/ UNCHANGED vars
    <3>1. UNCHANGED <<pc, col, batch, slices, enc, out, metas, groups, rows, cur,
                      next, failed>>
      BY <2>2 DEF Terminated, vars, callVars, tableVars, rowVars, histVars
    <3>2. ~failed
      BY <1>2, <3>1
    <3>3. ASSUME NEW c \in Columns
          PROVE  /\ Handed(c)' = Handed(c) /\ BufferStart(c)' = BufferStart(c)
                 /\ ListedEnd(c)' = ListedEnd(c)
      BY <3>1 DEF Handed, BufferStart, ListedEnd, OutRows, Writing
    <3>4. HandedInv' /\ BufferInv' /\ ListedInv'
      BY <3>1, <3>2, <3>3 DEF RowInv, HandedInv, BufferInv, ListedInv
    <3>5. OutInv'
      <4>1. Writing => col \in Columns
        BY DEF Writing, TInv, CallInv
      <4>2. QED
        BY <3>1, <3>2, <3>3, <4>1 DEF RowInv, OutInv, Writing
    <3>6. FlushInv' /\ GroupsInv'
      BY <3>1, <3>2 DEF RowInv, FlushInv, GroupsInv
    <3>7. QED
      BY <3>4, <3>5, <3>6 DEF RowInv
  <2>3. ASSUME NEW n \in BatchRows, WriteBatch(n) PROVE RowInv'
    BY <1>2, <2>3, RowWriteBatch
  <2>4. ASSUME NEW size \in UnitSizes, Encode(size) PROVE RowInv'
    BY <1>2, <2>4, RowEncode
  <2>5. CASE NextColumn
    BY <1>2, <2>5, RowNextColumn
  <2>6. CASE EndBatch
    BY <1>2, <2>6, RowEndBatch
  <2>7. CASE WriteUnit
    BY <1>2, <2>7, RowWriteUnit
  <2>8. CASE EndChunk
    BY <1>2, <2>8, RowEndChunk
  <2>9. CASE FinishColumn
    BY <1>2, <2>9, RowFinishColumn
  <2>10. CASE FinishRowGroup
    BY <1>2, <2>10, RowFinishRowGroup
  <2>11. CASE Finish
    BY <1>2, <2>11, RowFinish
  <2>12. QED
    BY <2>1, <2>2, <2>3, <2>4, <2>5, <2>6, <2>7, <2>8, <2>9, <2>10, <2>11
    DEF Next, Step
<1>3. QED
  BY <1>1, <1>2

LEMMA RowImplies ==
  ASSUME TInv, PosInv, RowInv
  PROVE  ColumnsComplete
<1> SUFFICES ASSUME ~failed PROVE ColumnsComplete
  BY DEF ColumnsComplete
<1>1. GroupsInv
  BY DEF RowInv
<1>2. pc = "closed" => rows = groups[Len(groups)].lo + groups[Len(groups)].rows
  <2>1. pc = "closed" => groups # << >> /\ rows - cur = rows
    BY <1>1, RowTypes DEF PosInv, GroupsInv
  <2>2. QED
    BY <1>1, <2>1 DEF GroupsInv
<1>3. QED
  BY <1>1, <1>2 DEF GroupsInv, ColumnsComplete

(* In a file written without a failing call, whatever the batch sizes and  *)
(* wherever the encoders cut their chunks, the chunks of every column of a *)
(* row group hold exactly the rows of the group, in order, and the row     *)
(* groups cut the file into consecutive intervals.                         *)
THEOREM RowsCorrect == Spec => []ColumnsComplete
<1>1. Init => TInv /\ PosInv /\ RowInv
  BY TypeInit, RowInit
<1>2. TInv /\ PosInv /\ RowInv /\ [Next]_vars => TInv' /\ PosInv' /\ RowInv'
  BY TypeStep, RowStep
<1>3. TInv /\ PosInv /\ RowInv => ColumnsComplete
  BY RowImplies
<1>4. QED
  BY <1>1, <1>2, <1>3, PTL DEF Spec
=============================================================================

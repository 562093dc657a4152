------------------------------- MODULE Nested -------------------------------
(***************************************************************************)
(* Files with nested columns: which physical columns a logical column is   *)
(* written to (fff-poc/src/encoder/logical.rs), how they are put together  *)
(* again (fff-poc/src/decoder/logical.rs) when a file is read, in whole,   *)
(* under a projection or one row of a list of structs                      *)
(* (fff-poc/src/reader/mod.rs), for every way EncUnit encodes units.       *)
(*                                                                         *)
(* One caller writes batches, finishes the file and reads it.  Places in   *)
(* the file are FileWriter's and FileLayout's matter, dictionaries         *)
(* DictFile's: here a column is its chunks, a chunk its encoding units.    *)
(***************************************************************************)
EXTENDS EncUnit

CONSTANTS
  Confs,        \* schema, context, compression, unit length, version, pushdown
  Shapes,       \* the shapes of batches
  MaxBatches,   \* bound: batches written
  ChunkSize,    \* column_chunk_size
  RowGroupSize  \* row_group_size

VARIABLES
  conf,     \* how the file is written
  acc,      \* per physical column: accumulated_chunk and accumulated_size
  cur,      \* per physical column: chunks of the open row group
  groups,   \* finished row groups
  rows,     \* num_rows_in_cur_row_group
  table,    \* per field: the rows handed to write_batch
  shapes,   \* the batches written
  phase,    \* "open", "closed", "failed"
  got       \* the last read: what was asked, and the outcome

writing == <<acc, cur, groups, rows, table, shapes, phase>>
vars == <<conf, writing, got>>

-----------------------------------------------------------------------------
(* ColumnIndexSequence: the physical columns of a type, as the writer and  *)
(* as read_file count them.                                                *)
RECURSIVE Width(_, _)
Width(t, pushdown) ==
  IF PushedDown(t, pushdown) THEN Len(t.of[1].of)
  ELSE 1 + SumFunction([k \in DOMAIN t.of |-> Width(t.of[k], pushdown)])

Before(ts, k, pushdown) == SumFunction([j \in 1 .. k - 1 |-> Width(ts[j], pushdown)])
Types(schema) == [f \in DOMAIN schema |-> schema[f].type]

(* Array::slice: a struct slices its columns.                              *)
RECURSIVE Slice(_, _, _)
Slice(a, start, n) ==
  IF a.type.id # "Struct" THEN SliceUnit(a, start, n)
  ELSE [a EXCEPT !.valid = SubSeq(@, start + 1, start + n),
                 !.columns = [c \in DOMAIN @ |-> Slice(@[c], start, n)]]

(* extract_items: the items between the first and the last offset.         *)
ExtractItems(a) ==
  Slice(a.values, a.offsets[1], a.offsets[Len(a.offsets)] - a.offsets[1])

(* extract_validity: the validity of a struct, as an array.                *)
ExtractValidity(a) == FlatArray("Boolean", a.valid)

(* LogicalColEncoder::encode: the units of array a of type t and their     *)
(* physical columns, the first of which is i.                              *)
RECURSIVE Parts(_, _, _, _)
FlatPart(cf, a, i) == <<[column |-> i, unit |-> EncodeUnit(cf.ctx, cf.compression, a)]>>

ListParts(cf, t, a, i) ==
  FlatPart(cf, a, i) \o Parts(cf, t.of[1], ExtractItems(a), i + 1)

StructParts(cf, t, a, i) ==
  FlatPart(cf, ExtractValidity(a), i)
  \o FlattenSeq([f \in DOMAIN t.of |->
       Parts(cf, t.of[f], a.columns[f], i + 1 + Before(t.of, f, cf.pushdown))])

(* ListOfStructColEncoder: each field with the list's validity and         *)
(* offsets.                                                                *)
PushedUnit(cf, t, a, f) ==
  NewUnit(cf.ctx, cf.compression, ListStructEncode(a, a.values.columns[f]), ArrayLen(a),
          "vortex", t)
PushedParts(cf, t, a, i) ==
  [f \in DOMAIN t.of[1].of |-> [column |-> i + f - 1, unit |-> Ok(PushedUnit(cf, t, a, f))]]

Parts(cf, t, a, i) ==
  CASE t.id \in NonNest -> FlatPart(cf, a, i)
    [] PushedDown(t, cf.pushdown) -> PushedParts(cf, t, a, i)
    [] t.id \in ListIds /\ ~PushedDown(t, cf.pushdown) -> ListParts(cf, t, a, i)
    [] t.id = "Struct" -> StructParts(cf, t, a, i)

(* The accumulated chunk of a physical encoder.                            *)
NoChunk == [encunits |-> << >>, num_rows |-> 0]
NewEncoder == [chunk |-> NoChunk, size |-> 0]

(* A unit joins the accumulated chunk of its column, which goes out once   *)
(* it is large enough.                                                     *)
AddUnit(w, part) ==
  LET i == part.column
      unit == part.unit.v
      chunk == [encunits |-> Append(w.acc[i].chunk.encunits, unit),
                num_rows |-> w.acc[i].chunk.num_rows + unit.num_rows]
      size == w.acc[i].size + Len(unit.data)
  IN IF size > ChunkSize
     THEN [acc |-> [w.acc EXCEPT ![i] = NewEncoder],
           cur |-> [w.cur EXCEPT ![i] = Append(@, chunk)]]
     ELSE [w EXCEPT !.acc[i] = [chunk |-> chunk, size |-> size]]

(* flush_pending_chunks, finish of every encoder.  A list-of-struct        *)
(* encoder keeps its accumulated_size.                                     *)
PushedColumns(cf) ==
  UNION {LET i == Before(Types(cf.schema), f, cf.pushdown)
         IN i + 1 .. i + Width(cf.schema[f].type, cf.pushdown) :
           f \in {g \in DOMAIN cf.schema : PushedDown(cf.schema[g].type, cf.pushdown)}}
FlushPending(w) ==
  [acc |-> [i \in DOMAIN w.acc |->
              IF i \in PushedColumns(conf) THEN [w.acc[i] EXCEPT !.chunk = NoChunk]
              ELSE NewEncoder],
   cur |-> [i \in DOMAIN w.cur |->
              IF w.acc[i].chunk.encunits = << >> THEN w.cur[i]
              ELSE Append(w.cur[i], w.acc[i].chunk)]]

-----------------------------------------------------------------------------
(* What an array says, whatever its layout.                                *)
RECURSIVE Meaning(_)
Meaning(a) ==
  CASE a.type.id = "Struct" ->
         [k \in DOMAIN a.valid |->
            IF a.valid[k] THEN [c \in DOMAIN a.columns |-> Meaning(a.columns[c])[k]]
            ELSE Null]
    [] a.type.id \in ListIds ->
         LET items == Meaning(a.values)
         IN [k \in DOMAIN a.valid |->
               IF a.valid[k] THEN SubSeq(items, a.offsets[k] + 1, a.offsets[k + 1])
               ELSE Null]
    [] OTHER -> a.rows

(* A batch of n rows: flat values tell batch, field and place, unless they *)
(* repeat; the first row is null if there are nulls; lists start at offset *)
(* first and alternate between two lengths.                                *)
RECURSIVE Make(_, _, _, _)
Make(t, n, sh, tag) ==
  LET valid == [k \in 1 .. n |-> ~(sh.nulls /\ k = 1)]
      End(k) == sh.first + SumFunction([j \in 1 .. k |-> sh.lens[1 + ((j - 1) % 2)]])
  IN CASE t.id = "Struct" ->
            StructArray(t, valid, [f \in DOMAIN t.of |-> Make(t.of[f], n, sh, 10 * tag + f)])
       [] t.id \in ListIds ->
            ListArray(t, valid, [k \in 1 .. n + 1 |-> End(k - 1)],
                      Make(t.of[1], End(n), sh, 10 * tag))
       [] OTHER ->
            FlatArray(t.id, [k \in 1 .. n |->
              IF ~valid[k] THEN Null ELSE IF sh.same THEN tag ELSE 10 * tag + k])

Column(f, sh, b) ==
  Make(conf.schema[f].type, sh.n,
       [sh EXCEPT !.nulls = @ /\ conf.schema[f].nullable], 10 * b + f)

-----------------------------------------------------------------------------
Init ==
  /\ conf \in Confs
  /\ LET columns == 1 .. Before(Types(conf.schema), Len(conf.schema) + 1, conf.pushdown)
     IN acc = [i \in columns |-> NewEncoder] /\ cur = [i \in columns |-> << >>]
  /\ groups = << >> /\ rows = 0 /\ shapes = << >> /\ phase = "open"
  /\ table = [f \in DOMAIN conf.schema |-> << >>]
  /\ got = [ask |-> "none", st |-> "ok"]

(* The arrays a column is encoded in: with a custom unit length, as many   *)
(* slices as fill a unit.                                                  *)
Pieces(a) ==
  IF conf.unitLen = 0 THEN <<a>>
  ELSE [j \in 1 .. ArrayLen(a) \div conf.unitLen |->
          Slice(a, (j - 1) * conf.unitLen, conf.unitLen)]

FirstColumn(f) == Before(Types(conf.schema), f, conf.pushdown) + 1

BatchParts(arrays) ==
  FlattenSeq([f \in DOMAIN arrays |->
    FlattenSeq([p \in DOMAIN Pieces(arrays[f]) |->
      Parts(conf, conf.schema[f].type, Pieces(arrays[f])[p], FirstColumn(f))])])

(* write_batch: encodes every column and closes a full row group.  An      *)
(* encoder that panics takes the writer with it; a batch shorter than a    *)
(* unit is an error.                                                       *)
WriteBatch(sh) ==
  LET arrays == [f \in DOMAIN conf.schema |-> Column(f, sh, Len(shapes) + 1)]
      parts == BatchParts(arrays)
      w == FoldLeft(AddUnit, [acc |-> acc, cur |-> cur], parts)
      full == rows + sh.n >= RowGroupSize
  IN /\ phase = "open" /\ Len(shapes) < MaxBatches
     /\ shapes' = Append(shapes, sh)
     /\ IF sh.n < conf.unitLen \/ \E p \in ToSet(parts) : p.unit.st # "ok"
        THEN phase' = "failed" /\ UNCHANGED <<acc, cur, groups, rows, table>>
        ELSE /\ IF full
                THEN LET fl == FlushPending(w)
                     IN /\ acc' = fl.acc
                        /\ groups' = Append(groups, fl.cur)
                        /\ cur' = [i \in DOMAIN cur |-> << >>]
                ELSE acc' = w.acc /\ cur' = w.cur /\ UNCHANGED groups
             /\ rows' = IF full THEN 0 ELSE rows + sh.n
             /\ table' = [f \in DOMAIN table |-> table[f] \o Meaning(arrays[f])]
             /\ UNCHANGED phase
     /\ UNCHANGED <<conf, got>>

(* finish: flushes what is pending into a last row group.                  *)
Finish ==
  LET fl == FlushPending([acc |-> acc, cur |-> cur])
  IN /\ phase = "open"
     /\ phase' = "closed"
     /\ acc' = fl.acc /\ cur' = [i \in DOMAIN cur |-> << >>]
     /\ groups' = Append(groups, fl.cur)
     /\ rows' = 0
     /\ UNCHANGED <<conf, table, shapes, got>>

-----------------------------------------------------------------------------
(* The file as its decoders see it.                                        *)
File == [version |-> conf.version, wasms |-> conf.ctx.wasms, pushdown |-> conf.pushdown]

UnitsOf(chunks) == FlattenSeq([c \in DOMAIN chunks |-> chunks[c].encunits])

(* PrimitiveColDecoder::decode_batch: one array per unit.                  *)
DecodePrimitive(chunks, t) ==
  LET units == UnitsOf(chunks)
  IN Collect([u \in DOMAIN units |-> DecodeUnit(File, units[u], t)])

(* field_to_view changes the type of the field itself, not of what is      *)
(* nested in it.                                                           *)
FieldToView(t) == IF t.id \in NonNest THEN Flat(ViewId(t.id)) ELSE t

(* zip: as many pairs as the shorter one has.                              *)
Shorter(s, t) == 1 .. (IF Len(s) < Len(t) THEN Len(s) ELSE Len(t))

(* ListColDecoder::decode_batch                                            *)
JoinLists(t, lists, items) ==
  Collect([k \in Shorter(lists, items) |->
    NewListArray(t.id, FieldToView(t.of[1]), lists[k].valid, lists[k].offsets, items[k])])

(* StructArray::new panics on fields of other types or lengths.            *)
NewStructArray(ts, valid, columns) ==
  IF \E f \in DOMAIN ts : columns[f].type # ts[f] \/ ArrayLen(columns[f]) # Len(valid)
  THEN Panic ELSE Ok(StructArray(StructOf(ts), valid, columns))

(* StructColDecoder::decode_batch: transpose goes by the units of the      *)
(* first field.                                                            *)
JoinStructs(t, valids, fields) ==
  IF \E f \in DOMAIN fields : Len(fields[f]) < Len(fields[1]) THEN Panic
  ELSE Collect([k \in Shorter(valids, fields[1]) |->
         NewStructArray([f \in DOMAIN t.of |-> FieldToView(t.of[f])], valids[k].rows,
                        [f \in DOMAIN fields |-> fields[f][k]])])

(* create_logical_decoder, decode_batch: the arrays of the logical column  *)
(* whose first physical column is i.  Offsets pushed down are not known    *)
(* here; columns may run out.                                              *)
RECURSIVE DecodeLogical(_, _, _)
DecodeLogical(columns, t, i) ==
  IF i > Len(columns) THEN Panic
  ELSE CASE t.id \in NonNest -> DecodePrimitive(columns[i], t)
         [] t.id \in ListIds ->
              LET items == DecodeLogical(columns, t.of[1], i + 1)
                  lists == DecodePrimitive(columns[i], t)
              IN IF i + Width(t, FALSE) - 1 > Len(columns) THEN Panic
                 ELSE Then(lists, LAMBDA l : Then(items, LAMBDA v : JoinLists(t, l, v)))
         [] t.id = "Struct" ->
              IF i + Width(t, FALSE) - 1 > Len(columns) THEN Panic
              ELSE Then(DecodePrimitive(columns[i], Flat("Boolean")), LAMBDA v :
                     Then(Collect([f \in DOMAIN t.of |->
                            DecodeLogical(columns, t.of[f], i + 1 + Before(t.of, f, FALSE))]),
                          LAMBDA fs : JoinStructs(t, v, fs)))

(* RecordBatch::try_new: columns of one length, nulls only where allowed.  *)
NewBatch(fields, arrays) ==
  IF \E c \in DOMAIN arrays :
       \/ ArrayLen(arrays[c]) # ArrayLen(arrays[1])
       \/ ~fields[c].nullable /\ Null \in ToSet(Meaning(arrays[c]))
  THEN Error
  ELSE Ok([c \in DOMAIN arrays |-> [name |-> fields[c].name, rows |-> Meaning(arrays[c])]])

(* read_file_based_on_footer, one row group: the fields asked for are      *)
(* decoded from the metadata the builder picked; names and nullability     *)
(* come from the front of the schema.                                      *)
ReadGroup(group, fields, picked) ==
  LET columns == [k \in DOMAIN picked |-> group[picked[k]]]
      ts == Types(fields)
      decoded == Collect([f \in DOMAIN fields |->
                   DecodeLogical(columns, ts[f], 1 + Before(ts, f, FALSE))])
      Batches(cs) == IF \E f \in DOMAIN cs : Len(cs[f]) < Len(cs[1]) THEN Panic
                     ELSE Collect([k \in DOMAIN cs[1] |->
                            NewBatch(conf.schema, [f \in DOMAIN cs |-> cs[f][k]])])
  IN Then(decoded, Batches)

ReadGroups(fields, picked) ==
  Then(Collect([g \in DOMAIN groups |-> ReadGroup(groups[g], fields, picked)]),
       LAMBDA bs : Ok(FlattenSeq(bs)))

(* read_file with Projection::All                                          *)
ReadFile ==
  LET all == [i \in DOMAIN cur |-> i]
      r == ReadGroups(conf.schema, all)
  IN /\ phase = "closed" /\ got.ask = "none"
     /\ got' = [ask |-> "all", st |-> r.st, v |-> r.v]
     /\ UNCHANGED <<conf, writing>>

(* The columns the builder reads metadata of, and a mutant that reads them *)
(* in the order of the file.                                               *)
PickedSorted(leaves) == SortSeq(leaves, <)
Picked(leaves) == leaves

(* read_file with Projection::LeafColumnIndexes: the indices pick physical *)
(* columns in the builder and fields in the reader.                        *)
ReadProjected(leaves) ==
  LET r == ReadGroups([k \in DOMAIN leaves |-> conf.schema[leaves[k]]], Picked(leaves))
  IN /\ phase = "closed" /\ got.ask = "none"
     /\ got' = [ask |-> "projection", leaves |-> leaves, st |-> r.st, v |-> r.v]
     /\ UNCHANGED <<conf, writing>>

-----------------------------------------------------------------------------
(* NoDictColDecoder::decode_row_at: n rows from row of a chunk.  A unit    *)
(* behind the first one decoded makes the index underflow.                 *)
RECURSIVE UnitsAt(_, _, _, _, _, _)
UnitsAt(units, t, before, row, n, byteStart) ==
  IF units = << >> \/ n = 0 THEN Ok(<< >>)
  ELSE LET unit == Head(units)
           after == before + unit.num_rows
           idx == row - before
           k == Min({n, unit.num_rows - idx})
       IN IF after < row THEN UnitsAt(Tail(units), t, after, row, n, byteStart)
          ELSE IF idx < 0 THEN Panic
          ELSE Then(DecodeRows(File, unit, t, idx, k, byteStart), LAMBDA a :
                 Then(UnitsAt(Tail(units), t, after, row, n - k, byteStart), LAMBDA more :
                   Ok(<<a>> \o more)))

(* concat of some arrays; of lists, one at most has a row here.            *)
RECURSIVE Concat(_)
Concat(arrays) ==
  LET first == arrays[1]
      Joined(Part(_)) == FlattenSeq([k \in DOMAIN arrays |-> Part(arrays[k])])
      some == SelectSeq(arrays, LAMBDA a : ArrayLen(a) > 0)
  IN CASE first.type.id = "Struct" ->
            StructArray(first.type, Joined(LAMBDA a : a.valid),
              [c \in DOMAIN first.columns |->
                 Concat([k \in DOMAIN arrays |-> arrays[k].columns[c]])])
       [] first.type.id \in ListIds -> IF some = << >> THEN first ELSE some[1]
       [] OTHER -> [first EXCEPT !.rows = Joined(LAMBDA a : a.rows)]

(* PrimitiveColDecoder::decode_row_at: the arrays of n rows from row, by   *)
(* chunk; before stands still once rows are found.                         *)
RECURSIVE ChunksAt(_, _, _, _, _, _)
ChunksAt(chunks, t, before, row, n, byteStart) ==
  IF chunks = << >> \/ n = 0 THEN Ok(<< >>)
  ELSE LET chunk == Head(chunks)
           k == Min({n, chunk.num_rows - (row - before)})
       IN IF before + chunk.num_rows <= row
          THEN ChunksAt(Tail(chunks), t, before + chunk.num_rows, row, n, byteStart)
          ELSE Then(UnitsAt(chunk.encunits, t, 0, row - before, k, byteStart), LAMBDA us :
                 Then(ChunksAt(Tail(chunks), t, before, row, n - k, byteStart), LAMBDA more :
                   Ok(<<Concat(us)>> \o more)))

RowAt(chunks, t, row, n, byteStart) == ChunksAt(chunks, t, 0, row, n, byteStart)

(* Mutant: the values are taken at the row of the list.                    *)
ItemRowsOfList(list, row) == [first |-> row, n |-> list.offsets[2] - list.offsets[1]]

(* The rows of the items, from the offsets of the row's own unit.          *)
ItemRows(list, row) ==
  [first |-> list.offsets[1], n |-> list.offsets[2] - list.offsets[1]]

(* create_list_struct_decoder: the columns of the offsets, of the validity *)
(* of the items and of a field; with offsets pushed down, of the field.    *)
ListStructColumns(leaf) == [list |-> 1, valid |-> 2, field |-> 2 + leaf]
PushdownColumn(leaf) == leaf

(* StructOfNonNestColDecoder: n items of one field, from row first.        *)
StructItems(columns, fields, leaf, first, n) ==
  LET at == ListStructColumns(leaf)
  IN Then(RowAt(columns[at.valid], Flat("Boolean"), first, n, FALSE), LAMBDA vs :
       Then(RowAt(columns[at.field], fields[leaf], first, n, FALSE), LAMBDA fs :
         Collect([k \in Shorter(vs, fs) |->
           NewStructArray(<<FieldToView(fields[leaf])>>, vs[k].rows, <<fs[k]>>)])))

(* ListStructColDecoder: the list of the row, then its items, at the rows  *)
(* the offsets of the unit say.                                            *)
ListStructRow(columns, t, leaf, row) ==
  LET Items(list) ==
        LET at == ItemRows(list, row)
        IN Then(StructItems(columns, t.of[1].of, leaf, at.first, at.n), LAMBDA ss :
             IF ss = << >> THEN Error
             ELSE NewListArray("List", ss[1].type, list.valid, <<0, at.n>>, Concat(ss)))
  IN Then(RowAt(columns[ListStructColumns(leaf).list], t, row, 1, FALSE), LAMBDA ls :
       IF ls = << >> THEN Error
       ELSE IF t.id = "LargeList" THEN Panic ELSE Items(Concat(ls)))

(* OffsetPushdownListStructColDecoder                                      *)
PushdownRow(columns, t, leaf, row, byteStart) ==
  Then(RowAt(columns[PushdownColumn(leaf)],
             [t EXCEPT !.of = <<StructOf(<<t.of[1].of[leaf]>>)>>], row, 1, byteStart),
       LAMBDA ls : IF ls = << >> THEN Panic ELSE Ok(Concat(ls)))

(* point_access_list_struct: one row of one field, from every row group.   *)
PointAccess(leaf, row, byteStart) ==
  LET t == conf.schema[1].type
      Of(group) == IF PushedDown(t, conf.pushdown)
                   THEN PushdownRow(group, t, leaf, row, byteStart)
                   ELSE ListStructRow(group, t, leaf, row)
      r == Collect([g \in DOMAIN groups |-> Of(groups[g])])
  IN /\ phase = "closed" /\ got.ask = "none"
     /\ PushedDown(t, TRUE) /\ leaf \in DOMAIN t.of[1].of
     /\ byteStart => conf.pushdown
     /\ got' = [ask |-> "point", leaf |-> leaf, row |-> row, byteStart |-> byteStart,
                st |-> r.st, v |-> r.v]
     /\ UNCHANGED <<conf, writing>>

Projections == UNION {[1 .. k -> DOMAIN conf.schema] : k \in 1 .. 2}

Next ==
  \/ \E sh \in Shapes : WriteBatch(sh)
  \/ Finish
  \/ ReadFile
  \/ \E leaves \in Projections : ReadProjected(leaves)
  \/ \E leaf \in 1 .. 2, row \in 0 .. Len(table[1]) - 1, byteStart \in BOOLEAN :
       PointAccess(leaf, row, byteStart)

Spec == Init /\ [][Next]_vars

-----------------------------------------------------------------------------
(* The rows of a field that units hold: with a custom unit length, a batch *)
(* loses what does not fill one.                                           *)
RECURSIVE Kept(_, _)
Kept(column, batches) ==
  IF batches = << >> THEN << >>
  ELSE LET n == Head(batches).n
           kept == IF conf.unitLen = 0 THEN n ELSE n - (n % conf.unitLen)
       IN SubSeq(column, 1, kept) \o Kept(SubSeq(column, n + 1, Len(column)), Tail(batches))
Expected(f) == Kept(table[f], shapes)

(* Column k of what a read returned, all batches together.                 *)
Returned(k) == FlattenSeq([b \in DOMAIN got.v |-> got.v[b][k].rows])

RECURSIVE Uses(_, _)
Uses(t, ids) == t.id \in ids \/ \E u \in ToSet(t.of) : Uses(u, ids)
SchemaUses(ids) == \E f \in DOMAIN conf.schema : Uses(conf.schema[f].type, ids)

(* read_file gives back, under the right names, every row of every column, *)
(* nested ones included, that fills a unit, or it fails: no mix of         *)
(* encodings, row groups, chunks and unit lengths makes it return          *)
(* something else.                                                         *)
ReadRight ==
  got.ask = "all" /\ got.st = "ok" =>
    \A f \in DOMAIN conf.schema :
      /\ got.v # << >> \/ Expected(f) = << >>
      /\ got.v # << >> => Returned(f) = Expected(f)
      /\ \A b \in DOMAIN got.v : got.v[b][f].name = conf.schema[f].name

(* Strings nested in something nested: field_to_view does not reach them.  *)
DeepStrings(t) ==
  \E u \in ToSet(t.of) : \E v \in ToSet(u.of) : Uses(v, {"Utf8", "Binary"})

(* A unit whose list offsets do not start at 0, in a batch that starts so  *)
(* or behind the first unit of a batch.                                    *)
SlicedLists ==
  /\ SchemaUses(ListIds)
  /\ \E k \in DOMAIN shapes :
       \/ shapes[k].first > 0
       \/ conf.unitLen # 0 /\ shapes[k].n > conf.unitLen

(* read_file fails only for what it does not know: strings two levels      *)
(* deep, sliced lists, lists in WASM, offsets pushed down, and units of a  *)
(* newer version that name no WASM binary.                                 *)
FailsOnlyWhere ==
  got.ask = "all" /\ got.st # "ok" =>
    \/ \E f \in DOMAIN conf.schema :
         \/ DeepStrings(conf.schema[f].type)
         \/ PushedDown(conf.schema[f].type, conf.pushdown)
    \/ SlicedLists
    \/ conf.ctx.always /\ SchemaUses(ListIds)
    \/ ~conf.ctx.always /\ Older(ReaderVersion, conf.version)

FlatSchema == \A f \in DOMAIN conf.schema : conf.schema[f].type.id \in NonNest

(* Under a projection of a file without nested columns, column k holds the *)
(* rows of the k-th field asked for; its name is right when the fields     *)
(* asked for are the first ones, in order.                                 *)
ProjectionRight ==
  FlatSchema /\ got.ask = "projection" /\ got.st = "ok" =>
    \A k \in DOMAIN got.leaves :
      /\ got.v # << >> => Returned(k) = Expected(got.leaves[k])
      /\ (\A j \in DOMAIN got.leaves : got.leaves[j] = j) =>
           \A b \in DOMAIN got.v : got.v[b][k].name = conf.schema[got.leaves[k]].name

(* The rows of row group g: their number, the first one, what was written, *)
(* and where the unit of the first column that holds a row starts.         *)
RowsOf(g) == FoldLeft(LAMBDA n, c : n + c.num_rows, 0, groups[g][1])
StartOf(g) == FoldLeft(LAMBDA n, h : n + RowsOf(h), 0, [h \in 1 .. g - 1 |-> h])
GroupRows(g) == SubSeq(Expected(1), StartOf(g) + 1, StartOf(g) + RowsOf(g))
UnitStart(g, row) ==
  LET units == FlattenSeq([c \in DOMAIN groups[g][1] |-> groups[g][1][c].encunits])
      From(k) == FoldLeft(LAMBDA n, u : n + u.num_rows, 0, SubSeq(units, 1, k - 1))
  IN Max({s \in {From(k) : k \in DOMAIN units} : s <= row})

(* The items at the offsets of a row's own unit, from the start of the     *)
(* row group: those of the row itself when its unit is the first.          *)
ItemsAtOffsets(g, row) ==
  LET lists == GroupRows(g)
      before == Len(FlattenSeq(SubSeq(lists, UnitStart(g, row) + 1, row)))
  IN SubSeq(FlattenSeq(lists), before + 1, before + Len(lists[row + 1]))

(* A point access of a list of structs answers, in each row group, with    *)
(* the list of the row asked for: null or not as it was written, unless    *)
(* its validity was read at the start of a byte, and as long, with the     *)
(* field asked for of every item.  With offsets pushed down this holds in  *)
(* every unit.  Otherwise the offsets have to start at 0 in a unit, and    *)
(* the items are the row's own in the first unit of the row group only:    *)
(* behind it they are those of rows that many items from the start of the  *)
(* group (decode_batch_at_with_proj, decoder/logical.rs:270-318).          *)
PointAccessRight ==
  got.ask = "point" /\ got.st = "ok" /\ (conf.pushdown \/ ~SlicedLists) =>
    \A g \in DOMAIN groups : got.row < RowsOf(g) =>
      LET list == GroupRows(g)[got.row + 1]
          own == conf.pushdown \/ UnitStart(g, got.row) = 0
          items == Meaning(got.v[g].values)
          Holds(found) ==
            \A k \in DOMAIN items : found[k] # Null =>
              /\ items[k] # Null
              /\ (IF conf.pushdown THEN items[k] ELSE items[k][1]) = found[k][got.leaf]
      IN /\ got.byteStart \/ (Meaning(got.v[g])[1] = Null <=> list = Null)
         /\ list # Null => Len(items) = Len(list)
         /\ list # Null /\ own => Holds(list)
         /\ ~own /\ Null \notin ToSet(GroupRows(g)) => Holds(ItemsAtOffsets(g, got.row))

(* A file that embeds the decoder of its units can be read.                *)
EmbeddedReads ==
  conf.ctx.always /\ got.ask = "all" => got.st = "ok"
=============================================================================

------------------------------ MODULE DictFile ------------------------------
(***************************************************************************)
(* The columns of a file in each dictionary mode, from write_batch to the  *)
(* rows a reader gets: the physical encoders                               *)
(* (fff-poc/src/encoder/physical.rs), the dictionaries they share and      *)
(* their merge (dict/shared_dictionary_context.rs), the dictionary part    *)
(* finish() writes (writer.rs), the dictionaries a reader loads            *)
(* (dict/shared_dictionary_cache.rs) and the physical decoders             *)
(* (decoder/physical.rs).                                                  *)
(*                                                                         *)
(* Where chunks lie in the file is FileWriter's subject; here a column is  *)
(* the sequence of its chunks.  A chunk is [label, dict, units]: its       *)
(* dictionary encoding and, if shared, the dictionary's id.  A unit is     *)
(* [type, rows, marked, packed]: an encoded array, whether its metadata    *)
(* says it is compressed, and whether it is.  Ids and positions, from 0 in *)
(* the code, count from 1; indices into dictionaries count from 0.         *)
(***************************************************************************)
EXTENDS Dictionary

CONSTANTS
  NumCols,      \* columns of the table
  ColType,      \* their types
  Configs,      \* writer options [mode, scope, cut, tiny, packed, wasm] and
                \* bounds [rows, values] on the table
  MaxBatches,   \* bound: batches written
  HashFns,      \* hash functions rand may give a sketch
  NumHashes,    \* M: hash functions of a sketch, 3 in the code
  Widths,       \* dictionary lengths from which the next index type is used
  MinSimilar,   \* MERGE_THRESHOLD, a fraction
  MinOverlap,   \* OVERLAP_THRESHOLD, a fraction
  MinShared     \* INTERSECTION_LEN_THRESHOLD

Cols == 1 .. NumCols

(* Modes that collect arrays until a scope is complete; the scope of the   *)
(* global ones is u64::MAX, more rows than any table has.                  *)
ScopeModes == {"fixed", "global", "multicol"}

(* The stand-in for an empty dictionary has one row, like a short one.     *)
ASSUME WidthsAssumption ==
  /\ Widths \in Seq(Nat) /\ Len(Widths) = 3
  /\ 1 < Widths[1] /\ Widths[1] < Widths[2] /\ Widths[2] < Widths[3]
ASSUME ColumnsAssumption ==
  NumCols \in Nat \ {0} /\ ColType \in [Cols -> DictTypes]
ASSUME HashesAssumption == NumHashes \in Nat \ {0}
(* Null is no value and no index; no table completes a global scope.       *)
ASSUME ConfigsAssumption ==
  /\ Null \notin Nat
  /\ \A c \in Configs :
       /\ c.mode \in {"encoder", "local", "glbest"} \cup ScopeModes
       /\ c.tiny \in BOOLEAN /\ c.packed \in BOOLEAN /\ c.wasm \in BOOLEAN
       /\ c.scope \in Nat /\ c.cut \in Nat /\ c.rows \in Nat
       /\ c.mode \in {"global", "multicol"} => c.scope > c.rows
       /\ Null \notin c.values

VARIABLES
  cfg,      \* the writer's options
  coeffs,   \* COEFFS: the hash functions of this process
  table,    \* per column, the rows written
  batches,  \* rows of each batch written
  inGroup,  \* num_rows_in_cur_row_group
  enc,      \* per column, the state of its physical encoder
  dicts,    \* SharedDictionaryContext.dictionaries
  merged,   \* merge_result: per dictionary, its peer and common length
  chunks,   \* per column, the chunks written
  tail,     \* the dictionary part of the file
  phase     \* "writing", "finished", or "panicked" in finish()

vars == <<cfg, coeffs, table, batches, inGroup, enc, dicts, merged, chunks, tail, phase>>

None == 0
NoTail == [chunks |-> << >>, positions |-> << >>]

(* A chunk an encoder fills; a taken chunk leaves the default label.       *)
EmptyChunk(label) == [label |-> label, dict |-> None, units |-> << >>]

(* Mutant: chunks of local dictionaries are not labelled.                  *)
NewEncoderUnlabelled ==
  [acc |-> EmptyChunk("none"), buffered |-> << >>, submitted |-> None]

(* create_physical_encoder                                                 *)
NewEncoder ==
  [acc |-> EmptyChunk(IF cfg.mode = "local" THEN "local" ELSE "none"),
   buffered |-> << >>, submitted |-> None]

Unit(type, rows) ==
  [type |-> type, rows |-> rows, marked |-> cfg.packed, packed |-> cfg.packed]
PlainUnit(type, rows) ==
  [type |-> type, rows |-> rows, marked |-> FALSE, packed |-> FALSE]

(* cast_index_dtype, by the length of the dictionary.                      *)
IndexType(n) ==
  IF n < Widths[1] THEN "UInt8" ELSE IF n < Widths[2] THEN "UInt16"
  ELSE IF n < Widths[3] THEN "UInt32" ELSE "UInt64"
Truncated(i, n) ==
  IF i = Null \/ n >= Widths[3] THEN i
  ELSE i % (CHOOSE w \in ToSet(Widths) : n < w /\ \A x \in ToSet(Widths) : n < x => w <= x)
IndexUnit(indices, n) ==
  Unit(IndexType(n), [k \in DOMAIN indices |-> Truncated(indices[k], n)])

(* Units as chunks: one chunk each when every unit is over                 *)
(* column_chunk_size, else all in one.                                     *)
InChunks(label, dict, units) ==
  IF cfg.tiny
  THEN [k \in DOMAIN units |-> [label |-> label, dict |-> dict, units |-> <<units[k]>>]]
  ELSE IF units = << >> THEN << >>
       ELSE << [label |-> label, dict |-> dict, units |-> units] >>

-----------------------------------------------------------------------------
(* The encoders work on w: the encoders of all columns, the shared         *)
(* dictionaries and the chunks written.                                    *)
Writer == [enc |-> enc, dicts |-> dicts, chunks |-> chunks]
Written(w) == enc' = w.enc /\ dicts' = w.dicts /\ chunks' = w.chunks

Emit(w, c, new) == [w EXCEPT !.chunks[c] = @ \o new]

(* encode of EncoderDictColEncoder and DictColEncoder: the units join the  *)
(* accumulated chunk, which is handed out when it is large enough.         *)
Accumulate(w, c, units, relabel) ==
  LET chunk == [w.enc[c].acc EXCEPT !.units = @ \o units]
  IN IF cfg.tiny
     THEN Emit([w EXCEPT !.enc[c].acc = EmptyChunk(relabel)], c, <<chunk>>)
     ELSE [w EXCEPT !.enc[c].acc = chunk]

(* finish of the same encoders: what is left is handed out.                *)
TakeRest(w, c) ==
  IF w.enc[c].acc.units = << >> THEN w
  ELSE Emit([w EXCEPT !.enc[c].acc = EmptyChunk("none")], c, <<w.enc[c].acc>>)

EncodeLocal(w, c, array) ==
  LET d == LocalDict(array)
      values == DictArray([datatype |-> ColType[c], dictionary |-> d.dictionary])
  IN Accumulate(w, c, << Unit(values.type, values.rows),
                         IndexUnit(d.indices, Len(d.dictionary)) >>, "local")

(* SharedDictColEncoder::encode_dict_scope: all buffered arrays against    *)
(* one dictionary, the one submitted before or a new one.                  *)
EncodeScope(w, c) ==
  LET e == w.enc[c]
      old == IF e.submitted = None THEN Append(w.dicts, NewDict(ColType[c])) ELSE w.dicts
      id == IF e.submitted = None THEN Len(old) ELSE e.submitted
      Step(acc, array) ==
        LET x == ExtendAndGetIndex(acc.dict, array)
        IN [dict |-> x.dict, indices |-> Append(acc.indices, x.indices)]
      all == FoldLeft(Step, [dict |-> old[id], indices |-> << >>], e.buffered)
      units == [k \in DOMAIN all.indices |-> IndexUnit(all.indices[k], DictLen(all.dict))]
  IN Emit([w EXCEPT !.enc[c].buffered = << >>, !.dicts = [old EXCEPT ![id] = all.dict]],
          c, InChunks("shared", id, units))

(* Mutant: arrays are joined in the buffer.                                *)
BufferJoined(w, c, array) ==
  [w EXCEPT !.enc[c].buffered = << FlattenSeq(@) \o array >>]

Buffer(w, c, array) == [w EXCEPT !.enc[c].buffered = Append(@, array)]

(* Mutant: the scope is not waited for.                                    *)
EncodeSharedEager(w, c, array) == EncodeScope(Buffer(w, c, array), c)

(* SharedDictColEncoder::encode                                            *)
EncodeShared(w, c, array) ==
  LET b == Buffer(w, c, array)
  IN IF Len(FlattenSeq(b.enc[c].buffered)) >= cfg.scope THEN EncodeScope(b, c) ELSE b

(* encode of the column's encoder                                          *)
Encode(w, c, array) ==
  CASE cfg.mode = "encoder" -> Accumulate(w, c, << Unit(ColType[c], array) >>, "none")
    [] cfg.mode = "local" -> EncodeLocal(w, c, array)
    [] cfg.mode = "glbest" -> Buffer(w, c, array)
    [] cfg.mode \in ScopeModes -> EncodeShared(w, c, array)

(* GLBestEncoder::finish: either the buffered arrays as they are, never    *)
(* compressed, or one dictionary for all of them.  Which is smaller, by    *)
(* counting or by a random sample, is the caller's choice.                 *)
FinishBest(w, c, global) ==
  LET taken == [w EXCEPT !.enc[c].buffered = << >>]
      arrays == w.enc[c].buffered
  IN IF arrays = << >> THEN w
     ELSE IF global THEN EncodeScope(w, c)
     ELSE Emit(taken, c, InChunks("none", None,
                 [k \in DOMAIN arrays |-> PlainUnit(ColType[c], arrays[k])]))

(* finish of the column's encoder                                          *)
FinishCol(w, c, global) ==
  CASE cfg.mode \in {"encoder", "local"} -> TakeRest(w, c)
    [] cfg.mode = "glbest" -> FinishBest(w, c, global[c])
    [] cfg.mode \in ScopeModes -> IF w.enc[c].buffered = << >> THEN w ELSE EncodeScope(w, c)

(* flush_pending_chunks                                                    *)
FlushPending(w, global) ==
  FoldLeft(LAMBDA v, c : FinishCol(v, c, global), w, [c \in Cols |-> c])

(* The choices GLBestEncoder makes, per column.                            *)
SizeChoices ==
  IF cfg.mode = "glbest" THEN [Cols -> BOOLEAN] ELSE {[c \in Cols |-> FALSE]}

Init ==
  /\ cfg \in Configs
  /\ coeffs \in IF cfg.mode = "multicol" THEN [1 .. NumHashes -> HashFns] ELSE {<< >>}
  /\ table = [c \in Cols |-> << >>] /\ batches = << >> /\ inGroup = 0
  /\ enc = [c \in Cols |-> NewEncoder]
  /\ dicts = << >> /\ merged = << >>
  /\ chunks = [c \in Cols |-> << >>]
  /\ tail = NoTail /\ phase = "writing"

(* write_batch: every column encodes its array, and a full row group is    *)
(* flushed.                                                                *)
WriteBatch(n, batch, global) ==
  /\ phase = "writing"
  /\ LET w == FoldLeft(LAMBDA v, c : Encode(v, c, batch[c]), Writer, [c \in Cols |-> c])
         full == inGroup + n >= cfg.cut
     IN /\ Written(IF full THEN FlushPending(w, global) ELSE w)
        /\ inGroup' = IF full THEN 0 ELSE inGroup + n
  /\ table' = [c \in Cols |-> table[c] \o batch[c]]
  /\ batches' = Append(batches, n)
  /\ UNCHANGED <<cfg, coeffs, merged, tail, phase>>

-----------------------------------------------------------------------------
(* submit_dict of every encoder, in finish().  It needs an array: its      *)
(* caller panics on a column with nothing buffered.                        *)
SubmitPanics == \E c \in Cols : enc[c].submitted = None /\ enc[c].buffered = << >>

SubmitDict(w, c) ==
  LET e == w.enc[c]
      old == IF e.submitted = None THEN Append(w.dicts, NewDict(ColType[c])) ELSE w.dicts
      id == IF e.submitted = None THEN Len(old) ELSE e.submitted
  IN [w EXCEPT !.enc[c].submitted = id,
               !.dicts = [old EXCEPT ![id] = FoldLeft(SubmitValues, @, e.buffered)]]

(* merge_dicts.  The pairs of dictionaries of one type, most similar first.*)
Edges(ds) ==
  LET known == {i \in DOMAIN ds : DictLen(ds[i]) > 0}
      pairs == {p \in known \X known :
                  p[1] > p[2] /\ ds[p[1]].datatype = ds[p[2]].datatype}
      Similar(p) == EstimateJaccard(ds[p[1]].dictionary, ds[p[2]].dictionary, coeffs)
      Before(p, q) ==
        \/ Below(Similar(q), Similar(p))
        \/ /\ AtLeast(Similar(p), Similar(q)) /\ AtLeast(Similar(q), Similar(p))
           /\ p[1] < q[1] \/ (p[1] = q[1] /\ p[2] < q[2])
  IN [k \in 1 .. Cardinality(pairs) |->
        LET p == CHOOSE x \in pairs :
                   Cardinality({y \in pairs : Before(y, x)}) = k - 1
        IN [i |-> p[2], j |-> p[1], similar |-> Similar(p)]]

(* Whether the pair of an edge is worth merging.                           *)
WorthMerging(m, edge) ==
  LET q == edge.similar
      shared == <<(DictLen(m.dicts[edge.i]) + DictLen(m.dicts[edge.j])) * q[1], q[1] + q[2]>>
  IN /\ AtLeast(q, MinSimilar)
     /\ m.peers[edge.i].peer = None /\ m.peers[edge.j].peer = None
     /\ AtLeast(shared, <<MinShared, 1>>) \/ AtLeast(q, MinOverlap)

MergeEdge(m, edge) ==
  IF ~ WorthMerging(m, edge) THEN m
  ELSE LET r == MergeDictionaries(m.dicts[edge.i], m.dicts[edge.j])
       IN IF r.len = 0 THEN m
          ELSE [dicts |-> [m.dicts EXCEPT ![edge.i] = r.self, ![edge.j] = r.other],
                peers |-> [m.peers EXCEPT ![edge.i] = [peer |-> edge.j, len |-> r.len],
                                          ![edge.j] = [peer |-> edge.i, len |-> r.len]]]

MergeDicts(ds) ==
  FoldLeft(MergeEdge, [dicts |-> ds, peers |-> [i \in DOMAIN ds |-> [peer |-> None, len |-> 0]]],
           Edges(ds))

(* finish_and_flush: the chunks of dictionary i.  Units are marked as      *)
(* compressed when the file is, but written as they are.                   *)
DictUnit(type, rows) ==
  [type |-> type, rows |-> rows, marked |-> cfg.packed, packed |-> FALSE]

(* Mutant: both dictionaries of a pair write the common values.            *)
DictChunksTwice(ds, peers, i) ==
  LET d == ds[i].dictionary
      m == IF i \in DOMAIN peers THEN peers[i].len ELSE 0
      Chunk(rows) == [label |-> "none", dict |-> None,
                      units |-> << DictUnit(DictArray(ds[i]).type, rows) >>]
  IN (IF m > 0 THEN << Chunk(SubSeq(d, 1, m)) >> ELSE << >>)
     \o (IF m > 0 /\ Len(d) = m THEN << >> ELSE << Chunk(SubSeq(d, m + 1, Len(d))) >>)

DictChunks(ds, peers, i) ==
  LET d == DictArray(ds[i]).rows
      m == IF i \in DOMAIN peers THEN peers[i] ELSE [peer |-> None, len |-> 0]
      Chunk(rows) == [label |-> "none", dict |-> None,
                      units |-> << DictUnit(DictArray(ds[i]).type, rows) >>]
      common == IF m.peer # None /\ i < m.peer
                THEN << Chunk(SubSeq(d, 1, m.len)) >> ELSE << >>
      rest == IF m.peer # None /\ Len(d) = m.len
              THEN << >> ELSE << Chunk(SubSeq(d, m.len + 1, Len(d))) >>
  IN common \o rest

(* The dictionary table: chunks one dictionary after the other, and for    *)
(* each dictionary its chunks, the peer's common one in front if it has    *)
(* none of its own.                                                        *)
DictTable(ds, peers) ==
  LET all == [i \in DOMAIN ds |-> DictChunks(ds, peers, i)]
      Start(i) == FoldLeft(LAMBDA n, cs : n + Len(cs), 1, SubSeq(all, 1, i - 1))
      own(i) == [k \in DOMAIN all[i] |-> Start(i) + k - 1]
      ByPeer(i) == i \in DOMAIN peers /\ peers[i].peer # None /\ peers[i].peer < i
  IN [chunks |-> FlattenSeq(all),
      positions |-> [i \in DOMAIN ds |->
        IF ByPeer(i) THEN <<Start(peers[i].peer)>> \o own(i) ELSE own(i)]]

(* finish                                                                  *)
Finish(global) ==
  /\ phase = "writing" /\ ~ (cfg.mode = "multicol" /\ SubmitPanics)
  /\ LET sharing == cfg.mode = "multicol"
         submitted == FoldLeft(SubmitDict, Writer, [c \in Cols |-> c])
         m == IF sharing THEN MergeDicts(submitted.dicts)
              ELSE [dicts |-> dicts, peers |-> << >>]
         w == FlushPending(IF sharing THEN [submitted EXCEPT !.dicts = m.dicts] ELSE Writer, global)
     IN Written(w) /\ merged' = m.peers /\ tail' = DictTable(w.dicts, m.peers)
  /\ inGroup' = 0 /\ phase' = "finished"
  /\ UNCHANGED <<cfg, coeffs, table, batches>>

FinishPanics ==
  /\ phase = "writing" /\ cfg.mode = "multicol" /\ SubmitPanics
  /\ phase' = "panicked"
  /\ UNCHANGED <<cfg, coeffs, table, batches, inGroup, enc, dicts, merged, chunks, tail>>

Next ==
  \/ \E n \in 0 .. cfg.rows - Len(table[1]) :
       /\ Len(batches) < MaxBatches
       /\ \E batch \in [Cols -> [1 .. n -> cfg.values \cup {Null}]], global \in SizeChoices :
            WriteBatch(n, batch, global)
  \/ \E global \in SizeChoices : Finish(global)
  \/ FinishPanics

Spec == Init /\ [][Next]_vars

-----------------------------------------------------------------------------
(* Reading.  An array read is [ok, type, rows]; ok is FALSE for an error   *)
(* or a panic of the reader.                                               *)
Failed == [ok |-> FALSE, type |-> "none", rows |-> << >>]

(* Vortex gives strings back as views.                                     *)
ViewOf(type) == IF type \in {"Utf8", "LargeUtf8"} THEN "Utf8View" ELSE type

(* create_encunit_decoder and decode: the built-in decoder gives back the  *)
(* type that was encoded, a WASM decoder builds the type asked for.        *)
DecodeUnit(unit, asked) ==
  IF unit.marked # unit.packed THEN Failed
  ELSE [ok |-> TRUE, type |-> IF cfg.wasm THEN asked ELSE ViewOf(unit.type),
        rows |-> unit.rows]

(* The stand-in for a dictionary without rows.                             *)
NullDict == [ok |-> TRUE, type |-> "Int32", rows |-> << Null >>]

(* try_new_read_all: dictionary i, from one chunk or from two.             *)
ReadDict(i) ==
  LET datatype == dicts[i].datatype
      Part(id) == LET u == tail.chunks[id].units[1]
                  IN IF u.rows = << >> THEN NullDict ELSE DecodeUnit(u, datatype)
      parts == [k \in DOMAIN tail.positions[i] |-> Part(tail.positions[i][k])]
  IN IF Len(parts) \notin {1, 2} \/ \E k \in DOMAIN parts : ~ parts[k].ok THEN Failed
     ELSE IF Len(parts) = 1 THEN parts[1]
     ELSE IF parts[1].type # parts[2].type THEN Failed
     ELSE [parts[1] EXCEPT !.rows = @ \o parts[2].rows]

(* The builder loads every dictionary before anything is read.             *)
Opens == \A i \in DOMAIN tail.positions : ReadDict(i).ok

(* dict_index_to_data: the length of the dictionary says which type the    *)
(* indices must have.                                                      *)
Lookup(dict, index) ==
  IF \/ ~ index.ok \/ ~ dict.ok
     \/ index.type # IndexType(Len(dict.rows))
     \/ \E i \in ToSet(index.rows) : i # Null /\ i >= Len(dict.rows)
  THEN Failed
  ELSE [ok |-> TRUE, type |-> dict.type,
        rows |-> [k \in DOMAIN index.rows |->
                    IF index.rows[k] = Null THEN Null ELSE dict.rows[index.rows[k] + 1]]]

(* DictColDecoder::decode_batch: a dictionary and its indices, which have  *)
(* to be UInt64 before their type is looked at.                            *)
ReadLocal(dict, index) ==
  LET d == IF dict.rows = << >> THEN NullDict ELSE DecodeUnit(dict, dict.type)
      i == DecodeUnit(index, "Int64")
  IN IF i.type # "UInt64" THEN Failed ELSE Lookup(d, i)

(* create_physical_decoder, then decode_batch until the chunk is used up.  *)
ReadChunk(chunk, c) ==
  CASE chunk.label = "none" ->
         [k \in DOMAIN chunk.units |-> DecodeUnit(chunk.units[k], ColType[c])]
    [] chunk.label = "local" ->
         [k \in 1 .. Len(chunk.units) \div 2 |->
            ReadLocal(chunk.units[2 * k - 1], chunk.units[2 * k])]
    [] chunk.label = "shared" ->
         LET dict == ReadDict(chunk.dict)
         IN [k \in DOMAIN chunk.units |-> Lookup(dict, DecodeUnit(chunk.units[k], "Int64"))]

(* num_rows of a chunk: the dictionaries of DictColEncoder do not count.   *)
NumRows(chunk) ==
  FoldLeft(LAMBDA n, k : IF cfg.mode = "local" /\ k % 2 = 1 THEN n
                         ELSE n + Len(chunk.units[k].rows),
           0, [k \in DOMAIN chunk.units |-> k])

(* The rows of a chunk by their number, as decode_row_at of                *)
(* NoDictColDecoder finds them in its units.                               *)
Cells(arrays) ==
  FlattenSeq([a \in DOMAIN arrays |->
    [r \in DOMAIN arrays[a].rows |-> [type |-> arrays[a].type, row |-> arrays[a].rows[r]]]])

(* The arrays of a column, in the order of its chunks.                     *)
ReadCol(c) == FlattenSeq([k \in DOMAIN chunks[c] |-> ReadChunk(chunks[c][k], c)])
ReadOk(c) == Opens /\ \A k \in DOMAIN ReadCol(c) : ReadCol(c)[k].ok
RowsRead(c) == FlattenSeq([k \in DOMAIN ReadCol(c) |-> ReadCol(c)[k].rows])

(* get_shared_dict_size_based_on_footer: the columns that use a chunk of   *)
(* another column's dictionaries.                                          *)
DictsOf(c) == {chunks[c][k].dict : k \in DOMAIN chunks[c]} \ {None}
DictChunkIds(c) == UNION {ToSet(tail.positions[i]) : i \in DictsOf(c)}
SharingPeers(c) == {p \in Cols \ {c} : DictChunkIds(p) \cap DictChunkIds(c) # {}}

-----------------------------------------------------------------------------
(* Types, and no dictionary holds a value twice, merged ones included      *)
(* (TypedDict::extend and merge_with, dict.rs:543-605).                    *)
TypeOK ==
  /\ cfg \in Configs
  /\ phase \in {"writing", "finished", "panicked"}
  /\ \A c \in Cols : table[c] \in Seq(cfg.values \cup {Null})
  /\ \A i \in DOMAIN dicts :
       /\ dicts[i].datatype \in DictTypes
       /\ dicts[i].dictionary \in Seq(cfg.values) /\ IsInjective(dicts[i].dictionary)

(* A configuration whose files the decoders can read: local dictionaries   *)
(* have indices of a type their decoder does not take, dictionaries of a   *)
(* compressed file are not compressed, and WASM decoders give indices the  *)
(* wrong type.                                                             *)
Readable ==
  /\ cfg.mode # "local"
  /\ dicts # << >> => ~ cfg.packed /\ ~ cfg.wasm

(* A finished file reads back as the rows that were written, in every      *)
(* dictionary mode the decoders support: for every way rows fall into      *)
(* batches, scopes and row groups, for dictionaries that grow over the     *)
(* limits of the index types, and for dictionaries merged across columns.  *)
ReadsBack ==
  phase = "finished" /\ Readable =>
    \A c \in Cols : ReadOk(c) /\ RowsRead(c) = table[c]

(* Whatever the mode, a whole-file read gives the rows written or fails:   *)
(* of a file with local dictionaries the first chunk fails, by its index   *)
(* type, and of a compressed one with shared dictionaries the builder,     *)
(* before rows that are not the table's are returned.                      *)
RightOrFails ==
  phase = "finished" => \A c \in Cols : ReadOk(c) => RowsRead(c) = table[c]

(* The k-th arrays of all columns have the same rows, which record batches *)
(* are made of; a column has the stand-in's type only where it is null,    *)
(* and loses no more of its type than a time zone.                         *)
BatchesAlign ==
  phase = "finished" /\ Readable =>
    \A c \in Cols :
      /\ [k \in DOMAIN ReadCol(c) |-> Len(ReadCol(c)[k].rows)] = batches
      /\ \A k \in DOMAIN ReadCol(c) :
           \/ ReadCol(c)[k].type \in {ColType[c], ViewOf(ColType[c]),
                                    DictArray(NewDict(ColType[c])).type}
           \/ ReadCol(c)[k].type = "Int32" /\ ToSet(ReadCol(c)[k].rows) \subseteq {Null}

(* What a reader reports as sharing is what was merged, both ways round,   *)
(* and the values two dictionaries share are stored once.                  *)
SharingReported ==
  phase = "finished" /\ cfg.mode = "multicol" =>
    /\ \A c, p \in Cols :
         p \in SharingPeers(c) <=>
           p # c /\ \E i \in DictsOf(c) : i \in DOMAIN merged /\ merged[i].peer \in DictsOf(p)
    /\ \A i \in DOMAIN dicts, j \in DOMAIN dicts :
         i < j /\ merged[i].peer = j =>
           Cardinality({x \in DOMAIN tail.chunks :
             /\ x \in ToSet(tail.positions[i]) \cup ToSet(tail.positions[j])
             /\ ToSet(tail.chunks[x].units[1].rows) \cap ToSet(dicts[i].dictionary)
                   \cap ToSet(dicts[j].dictionary) # {}}) = 1

(* The sketch gives the estimate it is meant to give for every hash        *)
(* function that tells the values apart.                                   *)
SketchRight ==
  cfg.mode = "multicol" =>
    \A i, j \in DOMAIN dicts, h \in DOMAIN coeffs :
      LET w == Walk(BottomK(dicts[i].dictionary, coeffs[h]), BottomK(dicts[j].dictionary, coeffs[h]))
      IN IsInjective(coeffs[h]) =>
           <<w.common, w.collected>> =
             ReferenceJaccard(dicts[i].dictionary, dicts[j].dictionary, coeffs[h])

(* finish() gives a file in every mode that does not merge dictionaries,   *)
(* and in the one that does whenever the current row group has a row: the  *)
(* encoders of all columns then still hold arrays (submit_dict,            *)
(* physical.rs:648-664), whatever row groups were flushed before.          *)
FinishCompletes == phase = "panicked" => cfg.mode = "multicol" /\ inGroup = 0

(* A row that a chunk gives, in the type of its column, is the row written *)
(* there, whichever chunks are read with it: a point read decodes a chunk  *)
(* of one row group alone, and its label says how (File.fbs:164-172).  The *)
(* exception is a chunk with a local dictionary behind a flush, which has  *)
(* lost its label (DictColEncoder::finish, physical.rs:490): the values of *)
(* its dictionary pass for rows, some row's value each, but not that       *)
(* row's.                                                                  *)
ChunksRightOrFail ==
  phase = "finished" /\ Opens =>
    \A c \in Cols : \A k \in DOMAIN chunks[c] :
      LET arrays == ReadChunk(chunks[c][k], c)
          cells == Cells(arrays)
          before == FoldLeft(LAMBDA n, chunk : n + NumRows(chunk), 0, SubSeq(chunks[c], 1, k - 1))
          rows == SubSeq(table[c], before + 1, before + NumRows(chunks[c][k]))
      IN \A r \in DOMAIN cells \cap DOMAIN rows :
           (\A a \in DOMAIN arrays : arrays[a].ok)
           /\ cells[r].type \in {ColType[c], ViewOf(ColType[c])}
           => \/ cells[r].row = rows[r]
              \/ /\ cfg.mode = "local" /\ k > 1 /\ chunks[c][k].label = "none"
                 /\ cells[r].row \in ToSet(rows)
=============================================================================

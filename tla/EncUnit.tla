------------------------------ MODULE EncUnit -------------------------------
(***************************************************************************)
(* Encoding units: how an Arrow array becomes the bytes of a unit and      *)
(* comes back, natively (fff-encoding/src/schemes/vortex.rs), through a    *)
(* decoder in WASM (fff-ude, wasm-libs, fff-core/src/util/                 *)
(* buffer_to_array.rs) or through a library of the user, and which of them *)
(* is chosen (fff-poc/src/encoder/encunit.rs, decoder/encunit.rs).         *)
(* Operators without state.                                                *)
(*                                                                         *)
(* An array is flat, a list or a struct; Utf8 and Binary stand for their   *)
(* large variants too.  Bytes are a sequence of tokens, one per message    *)
(* part: the size of a dtype message, its parts, padding, an array.        *)
(***************************************************************************)
EXTENDS Integers, Sequences, FiniteSets, SequencesExt, FiniteSetsExt

CONSTANTS
  Null,       \* an absent value
  Alignment,  \* VORTEX_ALIGNMENT
  BlockLen,   \* values per block of the custom encoding, 128 in the code
  MaxIdx      \* values of its block index, 256 in the code

ASSUME AlignmentAssumption == Alignment \in Nat \ {0}

-----------------------------------------------------------------------------
(* Types and arrays.                                                       *)
Flat(id) == [id |-> id, of |-> << >>]
ListOf(t) == [id |-> "List", of |-> <<t>>]
LargeListOf(t) == [id |-> "LargeList", of |-> <<t>>]
StructOf(ts) == [id |-> "Struct", of |-> ts]

ListIds == {"List", "LargeList"}

(* non_nest_types!()                                                       *)
NonNest == {"Boolean", "Int32", "Int64", "Utf8", "Binary"}

(* Reading gives strings as views.                                         *)
ViewId(id) ==
  CASE id = "Utf8" -> "Utf8View" [] id = "Binary" -> "BinaryView" [] OTHER -> id

FlatArray(id, rows) == [type |-> Flat(id), rows |-> rows]
ListArray(t, valid, offsets, values) ==
  [type |-> t, valid |-> valid, offsets |-> offsets, values |-> values]
StructArray(t, valid, columns) == [type |-> t, valid |-> valid, columns |-> columns]

ArrayLen(a) == IF a.type.id \in ListIds \cup {"Struct"} THEN Len(a.valid) ELSE Len(a.rows)

(* Array::slice of what a unit holds: a list keeps its items and its       *)
(* offsets into them.                                                      *)
SliceUnit(a, start, n) ==
  LET Cut(s) == SubSeq(s, start + 1, start + n)
  IN IF a.type.id \in ListIds
     THEN [a EXCEPT !.valid = Cut(@), !.offsets = SubSeq(@, start + 1, start + n + 1)]
     ELSE [a EXCEPT !.rows = Cut(@)]

(* What a call gives: a value, an error or a panic.                        *)
Ok(v) == [st |-> "ok", v |-> v]
Error == [st |-> "err", v |-> Null]
Panic == [st |-> "panic", v |-> Null]
Then(r, Op(_)) == IF r.st = "ok" THEN Op(r.v) ELSE r

(* The first failure of a sequence of results, or all their values.        *)
Collect(rs) ==
  LET bad == SelectSeq(rs, LAMBDA r : r.st # "ok")
  IN IF bad = << >> THEN Ok([k \in DOMAIN rs |-> rs[k].v]) ELSE bad[1]

(* ListArray::new: panics when the items are of another type than the      *)
(* field says, or fewer than the offsets need.                             *)
NewListArray(id, item, valid, offsets, values) ==
  IF values.type # item \/ offsets[Len(offsets)] > ArrayLen(values) THEN Panic
  ELSE Ok(ListArray([id |-> id, of |-> <<item>>], valid, offsets, values))

-----------------------------------------------------------------------------
(* Native encoding.                                                        *)

(* padding_size                                                            *)
PaddingSize(size, alignment) == (alignment - (size % alignment)) % alignment

(* Dtype messages of different types have different sizes.                 *)
DtypeSize(id) == IF id = "Boolean" THEN 1 ELSE IF id = "Int32" THEN 2 ELSE 3

Tokens(kind, v, n) == [k \in 1 .. n |-> [kind |-> kind, v |-> v]]

(* encode_arr: dtype size, dtype, padding, array.                          *)
EncodeArr(a) ==
  LET size == DtypeSize(a.type.id)
  IN Tokens("size", size, 1) \o Tokens("dtype", a.type, size)
     \o Tokens("zero", 0, PaddingSize(size + 1, Alignment)) \o Tokens("array", a.rows, 1)

(* Mutant: the reader leaves the size field out of the padding.            *)
VortexDeserPadding(bytes) ==
  IF bytes = << >> THEN Panic
  ELSE IF bytes[1].kind # "size" THEN Error
  ELSE LET size == bytes[1].v
           at == size + 2 + PaddingSize(size, Alignment)
       IN IF at > Len(bytes) THEN Panic
          ELSE IF bytes[at].kind # "array" THEN Error
          ELSE Ok([array |-> [type |-> bytes[2].v, rows |-> bytes[at].v],
                   rest |-> SubSeq(bytes, at + 1, Len(bytes))])

(* vortex_deser: takes one array off the front of the bytes.  split_to     *)
(* panics when bytes are missing; bytes of another encoder fail.           *)
VortexDeser(bytes) ==
  IF bytes = << >> THEN Panic
  ELSE IF bytes[1].kind # "size" THEN Error
  ELSE LET size == bytes[1].v
           at == size + 2 + PaddingSize(size + 1, Alignment)
       IN IF at > Len(bytes) THEN Panic
          ELSE IF bytes[at].kind # "array" THEN Error
          ELSE Ok([array |-> [type |-> bytes[2].v, rows |-> bytes[at].v],
                   rest |-> SubSeq(bytes, at + 1, Len(bytes))])

(* The n arrays in front of the bytes, one after the other.                *)
Messages(bytes, n) ==
  LET Take(r, k) ==
        Then(r, LAMBDA m : Then(VortexDeser(m.rest), LAMBDA d :
          Ok([arrays |-> Append(m.arrays, d.array), rest |-> d.rest])))
  IN Then(FoldLeft(Take, Ok([arrays |-> << >>, rest |-> bytes]), [k \in 1 .. n |-> k]),
          LAMBDA m : Ok(m.arrays))

(* list_encode: validity, then the offsets as the array has them.          *)
OffsetsOf(a) == FlatArray(IF a.type.id = "List" THEN "Int32" ELSE "Int64", a.offsets)
ListEncode(a) == EncodeArr(FlatArray("Boolean", a.valid)) \o EncodeArr(OffsetsOf(a))

(* list_struct_encode: and a field of the items, all of it.                *)
ListStructEncode(a, field) == ListEncode(a) \o EncodeArr(field)

(* VortexEncoder::encode                                                   *)
VortexEncode(a) ==
  CASE a.type.id \in NonNest -> Ok(EncodeArr(a))
    [] a.type.id \in ListIds -> Ok(ListEncode(a))
    [] OTHER -> Panic

(* vortex_array_to_arrow: the canonical array.                             *)
ToArrow(a) == FlatArray(ViewId(a.type.id), a.rows)

(* new_list_offsets_validity_from_buffer_iter: items are nulls, as many as *)
(* the last offset needs, unless there is a child.                         *)
DummyItems(n) == FlatArray("Null", [k \in 1 .. n |-> Null])
ListFromBuffers(id, valid, offsets, n) ==
  IF Len(valid) < n \/ Len(offsets) < n + 1 THEN Panic
  ELSE NewListArray(id, Flat("Null"), SubSeq(valid, 1, n), SubSeq(offsets, 1, n + 1),
                    DummyItems(offsets[n + 1]))

(* VortexDecoder::decode_all_as_array                                      *)
VortexDecoder(bytes) == Then(Messages(bytes, 1), LAMBDA m : Ok(ToArrow(m[1])))

(* VortexListDecoder                                                       *)
VortexListDecoder(bytes, id) ==
  Then(Messages(bytes, 2), LAMBDA m :
    ListFromBuffers(id, m[1].rows, m[2].rows, Len(m[1].rows)))

(* VortexListStructDecoder::decode_all_as_array                            *)
VortexListStructDecoder(bytes, id) ==
  Then(Messages(bytes, 3), LAMBDA m :
    LET field == ToArrow(m[3])
    IN NewListArray(id, field.type, m[1].rows, m[2].rows, field))

(* VortexListStructDecoder::slice of one row.  The validity buffer is      *)
(* taken without its bit offset: when slicing made none anew (byteStart),  *)
(* the bit at the start of the byte is read.                               *)
VortexListStructSlice(bytes, id, start, byteStart) ==
  Then(Messages(bytes, 3), LAMBDA m :
    LET lo == m[2].rows[start + 1]
        hi == m[2].rows[start + 2]
        field == ToArrow(m[3])
        bit == IF byteStart THEN (start \div 8) * 8 ELSE start
    IN IF id = "LargeList" THEN Panic
       ELSE NewListArray(id, field.type, <<m[1].rows[bit + 1]>>, <<0, hi - lo>>,
                         SliceUnit(field, lo, hi - lo)))

(* List(Struct(..)) of flat fields, stored with the offsets pushed down.   *)
PushedDown(t, pushdown) ==
  /\ pushdown /\ t.id \in ListIds
  /\ t.of[1].id = "Struct"
  /\ \A f \in ToSet(t.of[1].of) : f.id \in NonNest

(* VortexEncUnitDecoder: decode and slice of rows start .. start+n-1.      *)
VortexDecode(bytes, t, pushdown) ==
  CASE t.id \in NonNest -> VortexDecoder(bytes)
    [] PushedDown(t, pushdown) -> VortexListStructDecoder(bytes, t.id)
    [] t.id \in ListIds /\ ~PushedDown(t, pushdown) -> VortexListDecoder(bytes, t.id)
    [] OTHER -> Panic

VortexSlice(bytes, t, pushdown, start, n, byteStart) ==
  CASE t.id \in NonNest ->
         Then(VortexDecoder(bytes), LAMBDA a : Ok(SliceUnit(a, start, n)))
    [] PushedDown(t, pushdown) ->
         IF n = 1 THEN VortexListStructSlice(bytes, t.id, start, byteStart) ELSE Panic
    [] OTHER -> Error

-----------------------------------------------------------------------------
(* Decoders in WASM hand out buffers: validity, empty when nothing is      *)
(* null, then the values, then the bytes that views point to.              *)
Raw == 0
ValidityBits(rows) ==
  IF Null \in ToSet(rows) THEN [k \in DOMAIN rows |-> rows[k] # Null] ELSE << >>
Values(rows) == [k \in DOMAIN rows |-> IF rows[k] = Null THEN Raw ELSE rows[k]]

(* arraydata_to_buffers of a flat array.                                   *)
ArrayToBuffers(a) ==
  <<ValidityBits(a.rows), Values(a.rows)>>
  \o (IF a.type.id \in {"Utf8View", "BinaryView"} THEN << << >> >> ELSE << >>)

(* arrow_buffer_to_validity, and a mutant that takes an empty buffer for   *)
(* one without valid rows.                                                 *)
ValidAtEmpty(bits, k) == k <= Len(bits) /\ bits[k]
ValidAt(bits, k) == bits = << >> \/ bits[k]

(* new_primitive_array_from_arrow_buffer_iter, and the one for Boolean.    *)
FlatFromBuffers(id, buffers, n) ==
  IF Len(buffers) < 2 \/ Len(buffers[2]) < n THEN Panic
  ELSE Ok(FlatArray(id,
            [k \in 1 .. n |-> IF ValidAt(buffers[1], k) THEN buffers[2][k] ELSE Null]))

(* new_generic_byte_view_array_from_arrow_buffer_iter: strings come back   *)
(* as views, with any number of buffers behind the views.                  *)
ViewsFromBuffers(id, buffers, n) == FlatFromBuffers(ViewId(id), buffers, n)

(* primitive_array_from_arrow_buffers_iter                                 *)
BuffersToArray(t, buffers, n) ==
  CASE t.id \in NonNest /\ ViewId(t.id) = t.id -> FlatFromBuffers(t.id, buffers, n)
    [] t.id \in NonNest /\ ViewId(t.id) # t.id -> ViewsFromBuffers(t.id, buffers, n)
    [] t.id \in ListIds -> ListFromBuffers(t.id, buffers[1], buffers[2], n)
    [] t.id = "Null" -> Ok(DummyItems(n))
    [] OTHER -> Error

-----------------------------------------------------------------------------
(* Two encodings of a user: pco compresses the values of an array, custom  *)
(* stores blocks of values once and refers to them by a byte.              *)
LibTypes == {"Int32", "Int64"}

(* encode_pco_real_general                                                 *)
PcoEncode(a) ==
  IF a.type.id \notin LibTypes THEN Panic
  ELSE Ok(Tokens("pco", [nulls |-> ValidityBits(a.rows), values |-> Values(a.rows)], 1))

(* The blocks in the order in which they first occur.                      *)
BlocksOf(values) ==
  [b \in 1 .. Len(values) \div BlockLen |->
     SubSeq(values, (b - 1) * BlockLen + 1, b * BlockLen)]
Distinct(blocks) ==
  FoldLeft(LAMBDA d, b : IF b \in ToSet(d) THEN d ELSE Append(d, b), << >>, blocks)

(* encode_custom: a byte per block, then the blocks.  Counting the last    *)
(* index a byte can hold overflows already.                                *)
CustomEncode(a) ==
  LET blocks == BlocksOf(Values(a.rows))
      dict == Distinct(blocks)
      index == [b \in DOMAIN blocks |->
                  (CHOOSE i \in DOMAIN dict : dict[i] = blocks[b]) - 1]
  IN IF a.type.id \notin LibTypes \/ Len(a.rows) % BlockLen # 0 \/ Len(dict) >= MaxIdx
     THEN Panic
     ELSE Ok(Tokens("custom", [nulls |-> ValidityBits(a.rows), len |-> Len(a.rows),
                               body |-> index \o FlattenSeq(dict)], 1))

(* custom_decompress                                                       *)
CustomDecompress(body, len) ==
  LET start == len \div BlockLen
  IN FlattenSeq([b \in 1 .. start |->
       SubSeq(body, start + body[b] * BlockLen + 1, start + (body[b] + 1) * BlockLen)])

(* The decoders.  Bytes another encoder made fail.                         *)
DecodeFffGeneral(bytes) == Then(VortexDecoder(bytes), LAMBDA a : Ok(ArrayToBuffers(a)))

DecodePcoRealGeneral(bytes) ==
  IF bytes[1].kind # "pco" THEN Error ELSE Ok(<<bytes[1].v.nulls, bytes[1].v.values>>)

DecodeCustom(bytes) ==
  IF bytes[1].kind # "custom" THEN Error
  ELSE Ok(<<bytes[1].v.nulls, CustomDecompress(bytes[1].v.body, bytes[1].v.len)>>)

(* The function a WASM binary exports through general_wrapper.             *)
Guest(lib, bytes) ==
  CASE lib = "fff" -> DecodeFffGeneral(bytes)
    [] lib = "pco" -> DecodePcoRealGeneral(bytes)
    [] lib = "custom" -> DecodeCustom(bytes)

(* WASMEncUnitDecoder::decode                                              *)
WasmDecode(lib, bytes, t, n) ==
  IF t.id \notin NonNest THEN Panic
  ELSE Then(Guest(lib, bytes), LAMBDA buffers : BuffersToArray(t, buffers, n))

-----------------------------------------------------------------------------
(* WASMWritingContext: binaries by id, the ids of types, the id of the     *)
(* built-in one and whether every unit goes through it.                    *)
EmptyContext == [wasms |-> << >>, typeId |-> [id \in {} |-> 0], always |-> FALSE, builtin |-> Null]
AlwaysContext == [EmptyContext EXCEPT !.wasms = <<"fff">>, !.always = TRUE, !.builtin = 0]
CustomContext(lib) == [EmptyContext EXCEPT !.wasms = <<lib>>, !.typeId = [id \in {"Int32"} |-> 0]]

(* data_type_to_wasm_id                                                    *)
TypeToWasmId(ctx, t) == IF t.id \in DOMAIN ctx.typeId THEN ctx.typeId[t.id] ELSE Null

(* create_encunit_encoder, and the bytes it makes.                         *)
LibOf(ctx, t) ==
  IF TypeToWasmId(ctx, t) = Null THEN "vortex" ELSE ctx.wasms[TypeToWasmId(ctx, t) + 1]
EncodeToBytes(ctx, a) ==
  CASE LibOf(ctx, a.type) = "vortex" -> VortexEncode(a)
    [] LibOf(ctx, a.type) = "pco" -> PcoEncode(a)
    [] LibOf(ctx, a.type) = "custom" -> CustomEncode(a)

(* The encoding a unit is labelled with.                                   *)
Label(ctx, lib, t) ==
  [type |-> IF ctx.always \/ lib # "vortex" THEN "CUSTOM_WASM" ELSE "CASCADE",
   wasm |-> IF ctx.always THEN ctx.builtin ELSE TypeToWasmId(ctx, t)]

(* compress_data and decompress_data                                       *)
CompressData(bytes, c) == IF c = "Uncompressed" THEN bytes ELSE Tokens(c, bytes, 1)
DecompressData(bytes, c) ==
  IF c = "Uncompressed" THEN Ok(bytes)
  ELSE IF bytes = << >> \/ bytes[1].kind # c THEN Error ELSE Ok(bytes[1].v)

(* SerializedEncUnit                                                       *)
NewUnit(ctx, c, bytes, n, lib, t) ==
  [data |-> CompressData(bytes, c), num_rows |-> n, encoding |-> Label(ctx, lib, t),
   compression |-> c]
EncodeUnit(ctx, c, a) ==
  Then(EncodeToBytes(ctx, a), LAMBDA bytes :
    Ok(NewUnit(ctx, c, bytes, ArrayLen(a), LibOf(ctx, a.type), a.type)))

(* DEFAULT_ENCODING_VERSIONS of this reader, major, minor and patch.       *)
ReaderVersion == <<0, 21, 0>>
Older(v, w) ==
  \E k \in DOMAIN v : v[k] < w[k] /\ \A j \in 1 .. k - 1 : v[j] = w[j]

(* A file of a newer version is incompatible when the major version        *)
(* differs, or is 0.                                                       *)
Incompatible(version) ==
  /\ Older(ReaderVersion, version)
  /\ ReaderVersion[1] # version[1] \/ ReaderVersion[1] = 0

(* create_encunit_decoder: how a unit is decoded.  A file is its versions, *)
(* its WASM binaries and the feature it was built with.                    *)
DecoderOf(file, unit) ==
  IF unit.encoding.type = "CASCADE" /\ ~Incompatible(file.version) THEN Ok("native")
  ELSE IF unit.encoding.wasm = Null THEN Error
       ELSE Ok(file.wasms[unit.encoding.wasm + 1])

DecodeUnit(file, unit, t) ==
  Then(DecompressData(unit.data, unit.compression), LAMBDA bytes :
    Then(DecoderOf(file, unit), LAMBDA lib :
      IF lib = "native" THEN VortexDecode(bytes, t, file.pushdown)
      ELSE WasmDecode(lib, bytes, t, unit.num_rows)))

(* Rows start .. start+n-1 of a unit: sliced by the decoder, or decoded    *)
(* and sliced when it cannot.                                              *)
DecodeRows(file, unit, t, start, n, byteStart) ==
  Then(DecompressData(unit.data, unit.compression), LAMBDA bytes :
    Then(DecoderOf(file, unit), LAMBDA lib :
      LET sliced == IF lib = "native"
                    THEN VortexSlice(bytes, t, file.pushdown, start, n, byteStart)
                    ELSE Error
      IN IF sliced.st # "err" THEN sliced
         ELSE Then(DecodeUnit(file, unit, t), LAMBDA a : Ok(SliceUnit(a, start, n)))))
=============================================================================

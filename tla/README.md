# F3: a TLA+ model of the file format's writer, reader and WASM runtime

F3 (`fff-*` crates) is a columnar file format whose files may carry their own
decoders as WASM binaries. This directory holds TLA+ modules translated from
the Rust source, TLC configurations for small instances, and TLAPS proofs, for
every value of the parameters, of the safety properties of the writer, the
file's tail and its opening, point reads and the WASM pool. Paths below
are relative to the repository's root; `PROJECT.json` maps every definition to
the lines it models.

## 1. The system

| Component | State it keeps | Operations | Where it is hard | What makes it correct |
|---|---|---|---|---|
| File writer, data part (`fff-poc/src/writer.rs`, `encoder/physical.rs`) | per column the accumulated chunk; stream position, file checksum, chunk metadata of the current row group, row-groups table, row counters | `write_batch`, `flush_pending_chunks`, `finish` | columns are cut into chunks at different rows; a call can fail between two columns, two units or two halves of `finish_row_group` | metadata points at the right bytes; each row is in exactly one chunk of its row group; buffers are bounded |
| File tail (`writer.rs` `finish`, `file/footer.rs`) | locations of dictionaries, WASM binaries, column metadata; footer; postscript | the second half of `finish` | a dozen places feed the checksum; a crash anywhere | a reader finds every section; a torn file is not taken for a file |
| Reader: opening (`reader/builder.rs`, `reader/mod.rs`) | read-ahead buffer, footer, column metadata, dictionary cache | `FileReaderV2Builder::build` | four ways to fetch the same bytes, offsets computed from narrow fields, short files | the sections asked for, or an error; no panic |
| Reader: selection and point access (`reader/mod.rs`, `decoder/logical.rs`, `decoder/physical.rs`) | iterators over chunks and units | `process_selection`, `decode_batch`, `decode_row_at` | two different comparisons at chunk and unit ends; units and chunks without rows | exactly the rows asked for |
| WASM runtime pool (`fff-ude-wasm/src/lib.rs`, `wasm_buffer.rs`, `fff-ude/src/ffi.rs`) | pool of instances, mutex per instance, cached input area, live iterators and arrays | `call_multi_buf`, `BufferIter::next`, drops | threads, retries on failure, memory shared with the guest | an instance serves one call at a time; failed instances retire; guest memory is valid and does not leak |
| WASM contexts (`context.rs`) | binaries by id; runtimes by id | `get_sorted_wasms`, `get_runtime` | ids are not stored in the file | an id means the same binary on both sides |
| Shared dictionaries (`dict.rs`, `dict/*.rs`) | dictionaries, their similarity, merged groups, cache | `new_dictionary`, `add_dictionary`, `merge_dicts`, `finish_and_flush`; reading back | dictionaries are merged in `finish`, after row groups have been written | an index keeps meaning its value |
| Dictionary encoders and decoders (`encoder/physical.rs`, `decoder/physical.rs`) | buffers, local or shared dictionary | `encode`, `finish`, `submit_dict` | a choice between three encodings per chunk, labelled in metadata | the decoder chosen by the label fits the bytes |
| Nested columns (`encoder/logical.rs`, `decoder/logical.rs`) | column index counters | encode, decode | writer and reader number physical columns independently | both number them alike |
| Encoding units, versions, compression (`decoder/encunit.rs`, `encoder/encunit.rs`, `compression/`, `fff-encoding/src/schemes/vortex.rs`, `wasm-libs/`) | none | encode, decode, slice | native, built-in WASM or the user's WASM decoder, chosen by label and version; arrays leave the guest as bare buffers | every way back gives the array that went in, or fails |
| WASM init/decode API (`fff-ude-wasm/src/lib.rs`, `fff-ude/src/kwargs.rs`, `wasm-libs/adv-ude-fff`) | decoders and iterators in guest memory, the cached area | `call_init`, `call_decode`, iteration | several clients on one instance, ownership of the decoder passes to and fro, results go through one shared header | each client gets its own buffers; freed memory is not touched |
| Encoding kernels, flatbuffer conversions, benchmarks | none | pure functions | bit-level data | out of scope |

How they interact: a caller hands record batches to the writer, which passes
each column to its encoder; an encoder returns a chunk when it has outgrown
the desired size, and the writer appends it to the file and lists it in the
current row group. `finish` flushes the encoders, appends dictionaries, WASM
binaries, column metadata, footer and postscript. The reader goes through the
same file backwards: postscript, footer, column metadata, chunks. A decoder
that needs a WASM binary asks the reading context for a runtime, which all
threads of a process share, and calls it through the pool. Writer and reader
share nothing but the file; only WASM instances are shared by threads.

## 2. Modules

* **`FileWriter`**: the data part. One action per step at which a call hands
  over: `WriteBatch`, `Encode`, `NextColumn`, `RejectBatch`, `EndBatch`
  (write_batch); `WriteUnit`, `EndChunk`, `LoseChunk`, `PanicInWrite`
  (flush_chunk_and_get_metadata); `FinishColumn` (flush_pending_chunks);
  `FinishRowGroup`, `FailRowGroup` (finish_row_group); `Finish`. The variable
  `pc` keeps the code's order, and each early return leaves the state the code
  leaves. Values are abstracted to row numbers; encoded sizes are a choice;
  `disk` is the set of extents written with the rows they encode. `next`,
  `failed` and `calls` are history variables.
* **`Table`**: the abstract specification: rows are appended, a row group is
  cut as soon as it is full, closing cuts the last one, and a group gives back
  the same interval of rows for every column.
* **`FileTable`**: what `read_file_based_on_footer` gets back of the chunks
  the writer listed, and with it the refinement mapping to `Table`; which
  units of two columns the reader pairs up.
* **`MCFileWriter`**: instances of `FileWriter` and `FileTable`.
* **`FileWriterProofs`, `FileTableProofs`, `FileLayoutProofs`,
  `PointReadProofs`, `WasmPoolProofs`, `UdeProofs`, `DictFileProofs`**: the
  proofs (section 5); **`SequenceLemmas`**: what `FlattenSeq`, slices and
  iteration along a sequence compute, for these proofs.
* **`FileLayout`** (with `MCFileLayout`): the tail of the file, section by
  section, and `build()` on the result. It continues `FileWriter` at
  `pc = "closed"`. A read at an offset yields a section only if the range is
  exactly that of the section, so a wrong offset or size is visible. `Tear`
  stops the writer between or inside sections; `Corrupt` (external) changes a
  section of a finished file. The checksum is the sequence of sections fed to
  it, which leaves out hash collisions.
* **`PointRead`** (with `MCPointRead`): `process_selection` and the two
  nested `decode_row_at` loops of a plainly encoded column. Files are what
  `ColumnsComplete` says the writer produces (`FileOK`): all ways to cut the rows into
  row groups, chunks and units, with units, chunks and a last row group without rows.
  An unsigned subtraction that would be negative is a panic.
* **`WasmPool`**: threads sharing a `Runtime`. The pool's mutex is held for
  one pop or push (one action); an instance's mutex from `LockInstance` to
  `ReturnIter`. Guest memory is the list of input areas an instance has ever
  allocated. `Held` is the reference count of the `Arc`, so `Drop for
  Instance` runs exactly in the step that lets go of the last reference. The
  guest (external) may fail in any call; its `alloc` may trap, which leaves the
  cached pointer as it was, or return null, which is cached before it is
  looked at and freed like an area in the end.

* **`Dictionary`**: typed dictionaries as operators without state: interning
  (`Submit`, `Extend`), `MergeWith`, and the bottom-k sketch (`BottomK`,
  `WalkStep`, `EstimateJaccard`) next to `ReferenceJaccard`, what such a sketch
  is meant to compute. A hash function is any map from values, so collisions
  are included.
* **`DictFile`** (with `MCDictFile`): the columns of a file in each dictionary
  mode, from `write_batch` over the merge and the dictionary part of `finish`
  to the arrays a reader gets. An encoding unit keeps its type, its rows,
  whether it is compressed and whether its metadata says so: that is what the
  decoders tell apart. `WriteBatch`, `SubmitDict`, `Finish` and the panics of
  `finish` are the actions; reading is a function of the file, of which
  `Cells` gives the part a point read of a chunk returns.
* **`EncUnit`**: one encoding unit there and back as operators: native
  (`VortexEncode`, `VortexDecode`), the pco and block codecs of
  `wasm-test-encoders`, the buffers a guest hands out and the array made of
  them (`ArrayToBuffers`, `BuffersToArray`), compression, labels, and the
  choice of a decoder (`DecoderOf`). Bytes are sequences of message parts, so
  a wrong padding or a missing message is visible. A call gives a value, an
  error or a panic.
* **`Nested`** (with `MCNested`): a file of nested columns: how a logical
  column is split over physical ones (`Parts`), chunks and row groups, and
  three ways to read: `ReadFile`, `ReadProjected`, `PointAccess`. It composes
  `EncUnit`'s encodings with the logical encoders and decoders.
* **`Ude`** (with `MCUde`): clients of one `Instance` that open decoders with
  arguments, decode and iterate. Calls hold the instance's mutex and are
  atomic; they interleave freely. Guest memory is numbered as allocated;
  touching what is gone sets `undefined` and ends the behaviour. A unit that
  is cut short makes the guest panic in `split_to`, so `init` writes no result
  and an area it has just grown stays unwritten; an error is written there. Whether a
  `dealloc` passes the right length is `WasmPool`'s subject.

`DictFile`, `Nested` and `FileWriter` all model `write_batch`: `FileWriter`
with every failure and the exact places in the file but without contents, the
other two with the contents but as one step, since only one thread writes.

Operators named as mutants in the comments (`ReplaceChunks`, `NeverGrow`, ...)
are plausible mistakes; each property is shown to fail with one of them.

## 3. Runs

| Run | Configuration | Checks | Result |
|---|---|---|---|
| `writer` | `MCFileWriter.cfg` | `TypeOK`, `UnitsPairUp`, `NoOrphans`, `FileIsTable` | holds |
| `writer_faults` | `MCFileWriterFaults.cfg` | `ChunksPlaced`, `GroupExtents`, `BufferBounded`, `ColumnsComplete` | holds |
| `layout` | `MCFileLayout.cfg` | `OpensRight`, `RefusesTorn`, `CorruptionCaught`, `NoFalseAlarm`, `PanicsOnlyPastWindow`, `WasmIdResolves` | holds |
| `point_read` | `MCPointRead.cfg` | `SelectRight`, `PointRight`, `RangeRight` | holds |
| `pool` | `MCWasmPool.cfg` | `TypeOK`, `PoolOwnership`, `InstancesKept`, `BrokenRetired`, `PoolBounded`, `AreaFits`, `NoAreaLeaks`, `CallReturns` | holds |
| `pool_dealloc` | `MCWasmPoolDealloc.cfg` | `DeallocMatches` | violated |
| `pool_live_iterator` | `MCWasmPoolShared.cfg` | `IterAreaLive` | violated |
| `dict` | `MCDictFile.cfg` | `TypeOK`, `ReadsBack`, `RightOrFails`, `ChunksRightOrFail`, `BatchesAlign`, `SharingReported`, `SketchRight`, `FinishCompletes` | holds |
| `dict_row_groups` | `MCDictFileGroups.cfg` | `ReadsBack` | violated |
| `nested` | `MCNested.cfg` | `ReadRight`, `FailsOnlyWhere`, `ProjectionRight`, `PointAccessRight` | holds |
| `embedded_lists` | `MCNestedEmbedded.cfg` | `EmbeddedReads` | violated |
| `ude` | `MCUde.cfg` | `SafeUnlessMisused`, `ResultRight`, `FailsOnlyAfter` | holds |

### What the violated ones show

* `pool_dealloc`: when the input area grows, `cached_alloc_len` keeps the old
  length, and later `dealloc` calls pass a length the area was not allocated
  with. `AreaFits` shows that the input always fits all the same.
* `pool_live_iterator`: an instance returns to the pool while its iterator is
  alive; a larger call on it frees the area that `next()` writes to.
* `dict_row_groups`: with dictionaries shared by columns, `finish` merges
  similar dictionaries after earlier row groups have written their indices.
  The merge moves common values to the front, so those indices now mean other
  values, and nothing fails. With a single row group (run `dict`) all values
  are submitted before any index is written, and the file reads back.
* `embedded_lists`: with `write_built_in_wasm` every unit says it needs WASM,
  and the reader's WASM decoder is `unimplemented!()` for lists.

### What the passing ones leave open

The properties that hold name the cases in which the code does not do what a
caller would like; each was met while modelling:

* `RangeRight` is about ranges inside one encoding unit. In the next unit the
  index of `decode_row_at` underflows, in the next chunk `cur_row` is stale.
  Single rows, the only thing `with_selection` admits, are right.
* `WasmIdResolves` is checked for ids 0, 1, ...: ids are not stored, `finish`
  sorts binaries by id and `get_runtime` numbers them by position.
* `ReadsBack` excludes local dictionaries (their indices are narrowed on
  writing but read as `UInt64`), compression with shared dictionaries (their
  units are marked compressed but are not) and embedded decoders with shared
  dictionaries (indices decode as `Int64`). `RightOrFails` shows that these
  fail and never return wrong rows from a whole-file read.
* `ChunksRightOrFail` is about chunks read one by one, as a point read does. It
  names one exception: `DictColEncoder::finish`, called when a row group is
  cut, leaves an accumulated chunk that is labelled `NoDictionary`; only
  `encode` puts the right label on the chunk that follows a full one. In the
  next row group the units of a dictionary and its indices then pass for data. A
  whole-file read does not return them only because the first chunk, labelled
  as it should be, fails.
* `FinishCompletes` names the one case in which `finish` panics. Where columns
  share dictionaries, `finish` first submits the values each column has
  buffered, and `submit_dict` unwraps the first of them (`physical.rs:654`).
  After a batch that completed a row group nothing is buffered: the writer
  panics and the file has no footer. A writer that got no batch panics too.
* `FailsOnlyWhere` lists what `read_file` cannot read: strings two levels
  deep, list arrays that are slices (by the caller, or by a custom unit
  length), lists in WASM, pushed-down offsets, and files of a newer version
  without a binary.
* `ReadRight` counts the rows that fill a unit: with a custom unit length the
  rest of a batch is dropped without an error.
* `ProjectionRight` is about schemas without nested columns; leaf indexes
  count physical columns, names are taken from the front of the schema.
* `PointAccessRight` says exactly what a point access finds. Offsets start at 0
  in each unit of a list, but without pushdown they are taken for row numbers
  of the children in the row group: behind the first unit the list has the
  right validity and length, with the items that far from the start of the
  group. A comment
  (`decoder/logical.rs:284`) says a prefix sum is needed; the loop that computed
  it is commented out. In groups with null lists, which may hide items, the
  items found behind the first unit are not compared. With pushdown every unit
  is right, except for the validity when slicing makes no new bitmap
  (`byteStart`): there the code reads the bit at the start of the byte.
* `FailsOnlyAfter` counts an `init` without any argument bytes among those that
  trap: `kwargs_deserialize` expects at least the number of arguments. A test
  that the suite ignores (`fff-ude-wasm/src/lib.rs:1235`) passes none and expects
  a decoder.
* `SafeUnlessMisused` names the misuses: decoding on after the end, an area
  that moves under a live iterator, and going on after the guest had no memory.

### Bounds, and why they are enough

* Writer: 2 columns (the properties relate at most two), row groups of 3 rows
  and batches of 0, 1 or 2 (or 0, 2, 4 with a custom unit length of 2), so that a group is
  filled exactly and overfilled; chunks of 3 bytes and units of 1 or 3, so a
  chunk is cut by one unit, by several, and at a flush. Up to 5 or 6 rows make
  a full group, an overfull one and a last one. `U32 = 7` is the smallest
  modulus the assumptions admit: any sum beyond what they allow would wrap.
  The theorems remove these bounds.
* Layout: 2 row groups of 2 columns, a dictionary, 2 binaries, two sizes for
  every kind of section. `Window = 72` is smaller or larger than the file and
  the metadata depending on the sizes chosen; `FewColumns = 1` lets both ways
  to fetch column metadata happen, the projection deciding.
* Point read: up to 4 rows give every nesting of two cuts on each of three
  levels and ranges that cross one or two of them; one unit without rows at
  any place.
* Pool: 2 threads, 3 calls, up to 2 failures and 4 instances: enough for a
  retry while another thread uses, iterates or waits for an instance.
  Input lengths 1 and 2 (and 3 in `pool_dealloc`) make the area grow once
  (twice). `MaxInstances` is never what stops a call: 3 calls and 2 failures
  cannot need more.
* Dictionaries: 2 columns of up to 3 rows of 2 values and null (3 values where
  columns share dictionaries) in up to 2 batches, row groups of 2
  rows or none, a scope of 2 rows: a scope is filled by one batch, by two, and
  over a row-group cut. `Widths` puts the limits of the index types at 2, 3
  and 4 values (256 and so on in the code): shared dictionaries of 1, 2 and 3
  values lie on three sides of two of them. Sketches
  keep 2 hash values, so that of a dictionary of 3 values is truncated. Row
  groups and shared dictionaries meet with 3 rows in groups of 2: the last batch
  completes a group, or leaves a row behind one that was flushed. In `dict` such
  tables have one value, so that a merge has nothing to move and the file reads
  back; with two values (`dict_row_groups`) it does not. Three hash functions, one
  with a collision; one per sketch, since the code averages independent ones.
  `MinSimilar`, `MinOverlap` and `MinShared` are such that pairs of
  dictionaries are merged for either reason, and not merged.
* Nested: 8 nestings and a flat schema, up to 3 batches of 1 to 6 rows with
  nulls, empty lists and a sliced array; row groups of 4 rows; a chunk size
  that cuts after one unit or several; unit length 2; three versions around
  the reader's. `BlockLen = 2` and `MaxIdx = 3` stand for the 128 values and
  256 indices of the block codec; 6 rows are 3 blocks, so that the counter of
  blocks runs over, which the encoder refuses.
* Ude: 2 calls of init with 4 units (a dictionary, one with a null, one of
  another type, one cut short) and 8 kinds of arguments, none at all among them, 3
  decodes per decoder (some, none, one more), one failed allocation. Each
  property relates at most two clients, and areas grow once.

### Fairness

Only the pool has a liveness property: the loops of writer and reader are
bounded and run on their caller's thread. `WasmPool!FairSpec` has weak
fairness of each thread's `CallStep`. This
includes waiting for an instance's mutex, which is only weakly fair:
no assumption on the order in which waiters get it is needed, because
`PoolOwnership` leaves each instance at most one waiting call.
No fairness is assumed of iterators and drops.

## 4. Findings

The four violated runs (two on the pool, one on dictionaries, one on lists) are
listed with the lines they contradict under
`findings` in `PROJECT.json`.

## 5. What is proved

Each theorem is stated for every value of the constants that satisfies the
assumptions of its module; TLC evaluates these assumptions in the runs. Of the
40 properties that passing runs check, 33 are theorems.

| Module | Theorem | Property | Inductive invariant |
|---|---|---|---|
| `FileWriterProofs` | `TypeCorrect` | `TypeOK` | `TInv`, `PosInv` |
| | `PlacementCorrect` | `ChunksPlaced`, `ChecksumCovers` | `PlaceInv` |
| | `GroupsContained`, `BuffersBounded` | `GroupExtents`, `BufferBounded` | `PlaceInv` |
| | `NothingOrphaned` | `NoOrphans` | `OrphanInv` |
| | `RowsCorrect` | `ColumnsComplete` | `RowInv` |
| `FileTableProofs` | `FileImplementsTable`, `WriterImplementsTable` | `FileIsTable` | `WriterInv` |
| | `BatchesPairUp` | `UnitsPairUp` | `WriterInv`, `PairInv` |
| `FileLayoutProofs` | `OpeningCorrect`, `TornRefused`, `CorruptionNeverOpened`, `RefusesWithReason`, `PanicsWithReason` | `OpensRight`, `RefusesTorn`, `CorruptionCaught`, `NoFalseAlarm`, `PanicsOnlyPastWindow` | `LayoutInv` |
| | `WasmIdsResolve` | `WasmIdResolves` | `LayoutInv`, `WasmInv` |
| `PointReadProofs` | `SelectionCorrect`, `PointReadCorrect`, `RangeReadCorrect` | `SelectRight`, `PointRight`, `RangeRight` | `PointInv` |
| `WasmPoolProofs` | `PoolTypeCorrect` | `TypeOK` | `TInv` |
| | `OwnershipCorrect`, `FailedRetired` | `PoolOwnership`, `BrokenRetired` | `OwnInv` |
| | `NoInstanceLost` | `InstancesKept` | `KeptInv` |
| | `AreasFit`, `AreasFreed` | `AreaFits`, `NoAreaLeaks` | `AreaInv` |
| | `PoolSizeBounded` | `PoolBounded` | `OwnInv`, `PoolBounded` |
| `UdeProofs` | `MemorySafe`, `DecodeFailsOnlyAfter`, `ClientsGetTheirs` | `SafeUnlessMisused`, `FailsOnlyAfter`, `ResultRight` | `Inv` |
| `DictFileProofs` | `DictionariesInjective`, `FileReadsBack`, `FileRightOrFails`, `FileBatchesAlign` | `TypeOK`, `ReadsBack`, `RightOrFails`, `BatchesAlign` | `DInv` |
| | `FileReportsSharing`, `FileFinishes` | `SharingReported`, `FinishCompletes` | `DInv` |

### The writer

* Types. Besides types, `TypeOK` says the `u32` counters do not wrap and the
  current row group has no more rows than the file. `TInv` adds what `col`,
  `batch` and `out` are at each place of a call (`CallInv`), `PosInv` that the
  stream never stands before the start of the chunk being written or of the row
  group.
* Placement, failures included. `ChunksPlaced` alone is not inductive: it says
  nothing of a chunk that is half written. `PlaceInv` adds that buffered units
  are packed (`BuffersPacked`), that the units of the outgoing chunk written so
  far are on disk and the stream stands where the next one goes (`OutPlaced`),
  and that all extents lie below the stream position (`DiskBelow`), which makes
  each new extent disjoint from the old ones.
* `NoOrphans`. While a chunk is written its bytes are in no list. `OrphanInv`
  names the column they belong to, so that `EndChunk` lists them under the
  right one; cutting a row group moves the lists as a whole.
* Rows. `RowInv` follows a row on its way: each column has been handed `rows`
  plus its share of the current batch (`HandedInv`); what it was handed is, in
  order, in the chunks of the current group, the outgoing chunk and the buffer
  (`ListedInv`, `OutInv`, `BufferInv`); a flush has emptied the encoders it has
  passed (`FlushInv`); so the group that is then cut is complete (`GroupsInv`).
* Refinement. `RowInv` says what the chunks of a complete group hold.
  `TableInv` adds that every listed chunk has a unit (`UnitsInv`), so that
  `ReadGroup` finds the first and the last, and how full the current group can
  be in each phase of a call (`CutInv`): a flush that `finish` did not ask for
  is one of a full group, and at any other time the group is not full, so a
  group is cut exactly where `Table` cuts one. Every step of the writer then
  maps to a step of `Table` or leaves its variables alone. The first theorem
  takes a behaviour without a failed call as hypothesis (`[]~failed`); the
  second derives it from `Faults = {}` and batches that reach the encunit
  length, the only other reason to fail.
* `UnitsPairUp`. Listed, outgoing and buffered units of a column, in this
  order, are the units of its current group (`CurUnits`); writing a chunk moves
  units from one to the next and leaves the whole alone. `PairInv`: the units of
  the batches before (`Whole` of them) hold the same rows in every column, and
  the j-th unit of the current batch starts j-1 slices behind the rows counted
  so far. When the batch is counted, all columns have all its slices. That
  flattening one chunk more appends its units (`FlattenAppend`) is proved for
  the definition of `FlattenSeq` itself, whose recursive function is shown to
  exist first.

Assumptions (`FileWriter.tla`): at least one column; units have at least one
byte; fewer than 2^32 rows and fewer than 2^32 bytes in a chunk, since the code
narrows without a check; batches are multiples of a custom encunit length,
which a comment in `write_batch` requires.

### The tail and its reader

`LayoutInv` has a part for the writer and one for the reader. `SectionInv`:
sections lie one behind the other, and the checksum has been fed a prefix of
them, in order. `TablesInv`: each location written down is that of its
section. `PhaseInv`: how far `finish` is, how many bytes the column metadata
has taken (at most as many as a column's size times the columns written, which
is why `metadata_size` does not wrap), and that each field of the postscript
follows the one before. A torn file differs from a whole one in its last
section: that is all `RefusesTorn` needs, once the reader is known to look for
the magic number first. `ReadInv` says what the reader knows after each step
of `build`, with and without read-ahead, and which reason an error or a panic
has. `WasmInv(n)` says that after writing k binaries the locations are those of
the ids 0 to k-1; that the next one written is the smallest left needs the
cardinality of the ids left.

Assumptions (`FileLayout.tla`): sections have at least one byte;
the read-ahead window is larger than the postscript; the metadata of a file
takes fewer than 2^32 bytes (`MetadataAssumption`), since `metadata_size` is
narrowed without a check. `WasmIdsResolve` has the hypothesis that ids are
dense, without which the code does not do it (section 3).

### Point reads

`SelectInv`: after m row groups `process_selection` stands at the first wanted
row that lies behind them, and the groups picked are exactly those with a
wanted row. That a group's rows are a contiguous piece of the sorted selection
is what makes positions enough. `DecodeInv`: the chunk loop stands at the start
of a chunk not behind the row, the unit loop at the start of a unit not behind
it, and nothing has been collected until everything is. The two loops compare
differently (`<=` for chunks, `<` for units), so the unit loop may stop at a
unit that ends right before the row; then it takes zero rows and goes on. The
lemma that pieces which follow each other do not overlap (`PiecesOrdered`) is
proved by a smallest counterexample.

Assumptions (`PointRead.tla`): files are what the writer leaves
(`FilesAssumption`, in the shape `ColumnsComplete` gives them), selections are
sorted (the code sorts first), ranges are not empty.

### The pool

`OwnInv` adds to `PoolOwnership` and `BrokenRetired` that at most one thread
holds the mutex of an instance (`MutexInv`): between pushing an instance back
and returning, a call still holds it, and the next owner waits. `KeptInv` adds
to `InstancesKept` that the instance of a failed call is known to have failed:
giving it up loses nothing, and every other one goes back. `AreaInv`
states what the cached pair (`ptr`, `cached_len`) of each instance can be: no
area, or an allocated one at least as large as recorded; an instance on which
a call failed is exempt. Only the cached area is allocated, and only while
somebody holds the instance: `Drop for Instance` runs in the very step in
which the last of pool, call, iterator and arrays lets go. `PoolBounded`
counts: the thread of a call that takes an instance was not counted before.

Assumption (`WasmPool.tla`): finitely many threads, inputs of at least one
byte. `MaxInstances` and the other bounds are arbitrary in the theorems.

### The WASM init/decode API

The proofs have a part about bytes and one about calls.

* Bytes. `Deserialized`: the guest's map of the arguments has the keys the
  client passed, each with the last word given for it, for every list of
  arguments. The lengths in front say where each key and word starts, and
  flattening puts them there (`FlattenPlace`); both are recursions over the
  list. `UnitBytes`, `TryBuildIs`: where a unit parses, the array is the one
  that was encoded. With them `InitFffIs` and `JobRight` show that the job of a
  decoder that `init` has made gives the buffers its client asked for.
* Calls. `Inv` relates what host and guest keep. `CachedOK`: the cached area is
  allocated, at least as large as recorded and has its header, unless an init
  panicked (no arguments, or a unit cut short). `DecodersOK`: a decoder does its client's job, is gone only after
  an answer that says so, and answers `none` only after `some`
  (`NoneAfterSome`). `FailsOK` gives each `err` its reason. `ItersOK`: an
  iterator belongs to a decoder that is done, no two to the same, and its area
  is live unless it has moved. `GotOK`: what an iterator has returned and what
  it has left is what its client asked for. `SafeUnlessMisused` alone is not
  inductive: whether a call touches live memory depends on these tables.

Assumptions (`Ude.tla`, `EncUnit.tla`): arguments are lists of keys and words
(`ArgumentsAssumption`); the two keys the library knows have words of the
lengths `format/kwargs.md` gives (`WordsAssumption`); a unit is what
`encode_arr` made of a flat array, or a part of it that is cut short
(`UnitsAssumption`); the alignment is positive (`AlignmentAssumption`).

### Dictionaries

`DictionariesInjective` and `FileFinishes` hold in every mode. The others suppose `OneGroup`:
where dictionaries are merged (`multicol`) the file has fewer rows than a row
group, so that all of them are still in the encoders at `finish`.
Without it `ReadsBack` is violated, as the run `dict_row_groups` shows.
`FileFinishes` does without it: whatever row groups were flushed, a row of the
current group is in the encoders of all columns (`GroupBuffered`, carried by
`GroupStep`), and where nothing is merged `finish` does not submit anything.
`FileRightOrFails` supposes for `local` that the file has fewer rows than `Widths[3]` (2^32 in the code): from there on
indices would be `UInt64`, the one type the local decoder takes, and what it
gives back is neither proved nor reached by the runs.

* Dictionaries. Submitting values keeps a dictionary injective and only appends
  (`SubmitIs`); the indices of an array are below the dictionary's length and
  look up to the array (`ExtendAndGetIndexIs`). Arrays of one scope extend the
  dictionary one after the other: earlier indices still hold, and the type of
  all is chosen by the final length, the one the decoder looks at
  (`SharedHolds`). The next scope starts another dictionary, so none grows
  after its units were written (`Begins`).
* Columns. The loops over the columns are folds over the whole writer.
  `ByColumns` and `Apart` reduce a fold to what one column's step does to that
  column: other columns keep their encoder and chunks, and dictionaries they
  use stay as they are.
* Contents. `ColHolds(w, c, all)`: the arrays held in the chunks of `c`,
  followed by those pending in its encoder, are `all`. Encoding appends one
  array to `all` (`EncodeTakes`), finishing moves pending ones to chunks
  (`FinishColKeeps`). For local dictionaries it is enough that the first
  chunk of a column with rows is one the decoder refuses (`LocalHolds`).
* `DInv`: each column holds arrays that flatten to the rows of the table and
  have the lengths of the batches; after `finish` nothing is pending and each
  dictionary is one chunk of the tail, at its position (`Stored`). Where
  dictionaries are merged, nothing has left the encoders before `finish`
  (`Unwritten`), and after it the chunks of column `c` use dictionary `c` and
  hold its arrays (`Columns`, `MergedIn`). None of
  the properties is inductive: they speak of finished files only, whose
  contents are decided by encoder states before.
* Reading. `ReadChunkIs` and `ReadColIs`: chunks that hold arrays read back as
  those arrays when the dictionaries load. An empty dictionary loads as a null
  row, which agrees with its indices, all of them null.
* Merging. `submit_dict` gives every column a dictionary with all its values
  (`SubmittedTo`). The order in which pairs are merged is a ranking by
  estimate, which is well defined because estimates are fractions with positive
  denominators (`EstimateIs`, `FractionsCompare`) and a strict order of a
  finite set has an element of every rank (`RankExists`); nothing else about
  the estimate is needed, so the results hold whatever the sketches say. `merge_with` permutes each of the two
  dictionaries and puts the values they share in front, in one order
  (`MergeWithIs`). `MergeOK` carries this along the merges: every dictionary
  has its values, peers are mutual and agree on what they share (`Peered`).
  Encoding against such a dictionary does not extend it (`ScopeSame`).
* The dictionary table. `Laid` says where the one or two chunks of each
  dictionary are, the first one possibly its peer's, which is written before
  (`TableLaid`); joined, they are the dictionary (`LaidReads`). Chunks of
  different dictionaries do not meet otherwise (`SharedPlace`), and of the
  chunks of two peers only the first has values of both (`SharedOnce`).

Assumptions (`DictFile.tla`, `Dictionary.tla`): the three limits of the index types grow and
exceed 1 (`WidthsAssumption`); there is a column, and columns have dictionary
types (`ColumnsAssumption`); `Null` is no value and no index
and the scope of a dictionary of the whole file is larger than the file
(`u64::MAX` in the code, `ConfigsAssumption`); there is a hash function, and a sketch keeps at least one
hash value (`HashesAssumption`, `SketchAssumption`; `M` and `K` in the code).

### Model-checked only

* Liveness (`CallReturns` of the pool): needs fairness and `ENABLED`.
* `SketchRight`: that the walk over two sketches counts what the reference
  definition counts needs an induction over sorted sequences of which the walk
  has seen a part; no other theorem needs it, since any estimate will do.
* `ChunksRightOrFail`: `DInv` says of a file with local dictionaries only that
  its first chunk is refused, not what the later ones hold.
* `Nested` follows nested types with `RECURSIVE` operators, which TLAPS does not
  take.

## 6. Not modelled

* The codecs inside a message of a unit (vortex, pco, zstd, lz4) and the
  bit-level kernels of `fff-encoding`: third-party, or data rather than control.
* Generated flatbuffer accessors and the `to_fb` conversions, option builders.
* Per-IOUnit checksums, which are written next to the file checksum
  and verified chunk by chunk; statistics and counters.
* The legacy reader (`reader/legacy.rs`), which always panics; `read_batch`
  of the WASM API, `call_single_buf` and `decode_row_at` of dictionary and
  nested decoders, which are `todo!()` or deprecated.
* Messages the guest leaves behind when it fails, and decoders nobody
  finishes: leaks without a consequence a property could state.
* The move of guest memory when it grows (`wasm_buffer.rs:79`): it depends on
  wasmtime's configuration.
* What a caller may do after an `Err`: not stated by the code. The model lets
  it go on calling, and the properties say what survives.
* Benchmarks, examples, scripts.

## 7. Plan

1. That files which satisfy `ColumnsComplete` and `ChunksPlaced` satisfy
   `FileOK` of `PointRead`, which joins the two models.
2. Per-IOUnit checksums in `FileLayout`.

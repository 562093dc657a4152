----------------------------- MODULE FileLayout -----------------------------
(***************************************************************************)
(* The tail of a file and how a reader finds its way back through it: the  *)
(* second half of FileWriter::finish (fff-poc/src/writer.rs), from the     *)
(* shared dictionary chunks to the MAGIC, and FileReaderV2Builder::build   *)
(* (fff-poc/src/reader/builder.rs) with WASMReadingContext::get_runtime.   *)
(*                                                                         *)
(* It takes over where FileWriter reaches pc = "closed": the data part is  *)
(* one section whose bytes have all been fed to the checksum.  A section   *)
(* is a run of bytes written by one write_all; what it says is abstracted  *)
(* to its kind and id, and a reader that asks for a range of bytes gets a  *)
(* section only if the range is exactly that of the section.               *)
(***************************************************************************)
EXTENDS Integers, Sequences, FiniteSets

CONSTANTS
  NumGroups,    \* row groups; finish() always adds one
  NumCols,      \* physical columns
  DataSizes,    \* sizes the data part may have
  NumDicts,     \* chunks of shared dictionaries
  WasmIds,      \* keys of WASMWritingContext.wasms
  Sizes,        \* sizes a WASM binary, a dictionary chunk, ... may have
  FooterSizes,  \* sizes the footer may have
  Window,       \* DEFAULT_IOUNIT_SIZE, what read_ahead fetches
  FewColumns,   \* 100, up to which all metadata is fetched at once
  Projections,  \* column lists a caller asks for; all columns in order is All
  U32           \* 2^32

Columns == 1 .. NumCols

(* The fields of the postscript in the order they are written, with their  *)
(* sizes; POSTSCRIPT_SIZE.                                                 *)
PSFieldsMagicEarly ==
  << <<"metadata_size", 4>>, <<"footer_size", 4>>, <<"compression", 1>>,
     <<"checksum_type", 1>>, <<"data_checksum", 8>>, <<"schema_checksum", 8>>,
     <<"magic", 2>>, <<"major", 2>>, <<"minor", 2>> >>
PSFields ==
  << <<"metadata_size", 4>>, <<"footer_size", 4>>, <<"compression", 1>>,
     <<"checksum_type", 1>>, <<"data_checksum", 8>>, <<"schema_checksum", 8>>,
     <<"major", 2>>, <<"minor", 2>>, <<"magic", 2>> >>
PS == 32

ASSUME LayoutAssumption ==
  /\ NumGroups \in Nat \ {0} /\ NumCols \in Nat \ {0} /\ NumDicts \in Nat
  /\ DataSizes \subseteq Nat
  /\ WasmIds \subseteq Nat /\ IsFiniteSet(WasmIds)
  /\ Sizes \subseteq Nat \ {0} /\ FooterSizes \subseteq Nat \ {0}
  /\ Window \in Nat /\ Window > PS
  /\ FewColumns \in Nat
  /\ Projections \subseteq Seq(Columns)
(* The metadata of a file takes fewer than 2^32 bytes: metadata_size is    *)
(* narrowed with `as u32' and not checked.                                 *)
ASSUME MetadataAssumption ==
  /\ U32 \in Nat \ {0}
  /\ \A s \in Sizes, f \in FooterSizes : NumGroups * NumCols * s + f < U32

VARIABLES
  pc,      \* what finish(), then build(), does next
  file,    \* the sections of the file, in order
  pos,     \* writer.stream_position(), in the end the size of the file
  summed,  \* what data_checksum has been fed
  dicts,   \* locations of the dictionary chunks
  wasms,   \* locations in the WASMBinaries table
  wasmSec, \* location of the WASMBinaries table itself
  metaAt,  \* metadata_start
  cols,    \* indirect_row_group_metadata: locations of the ColumnMetadata
  ps,      \* the postscript: metadata_size, footer_size, data_checksum
  bad,     \* sections whose bytes were changed after finish()
  rd,      \* the reader's options
  got,     \* what the reader has fetched
  rt       \* the WASM binary a decoder was given last

writeVars == <<file, pos, summed, dicts, wasms, wasmSec, metaAt, cols, ps>>
vars == <<pc, writeVars, bad, rd, got, rt>>

Writing == {"dicts", "wasms", "columns", "footer", "postscript"}
NoSection == [kind |-> "none", id |-> << >>, at |-> 0, size |-> 0]
NoReader == [read_ahead |-> FALSE, verify |-> FALSE, proj |-> << >>]
Nothing == [footer |-> NoSection, cols |-> << >>, dicts |-> << >>]
Location(size) == [offset |-> pos, size |-> size]

-----------------------------------------------------------------------------
(* finish() after finish_row_group; d bytes of data have been written.     *)
Init ==
  /\ pc = "dicts"
  /\ \E d \in DataSizes :
       /\ pos = d
       /\ file = IF d = 0 THEN << >>
                 ELSE << [kind |-> "data", id |-> << >>, at |-> 0, size |-> d] >>
       /\ summed = IF d = 0 THEN << >> ELSE << <<"data", << >> >> >>
  /\ dicts = << >> /\ wasms = << >> /\ cols = << << >> >>
  /\ wasmSec = [offset |-> 0, size |-> 0] /\ metaAt = 0
  /\ ps = [metadata_size |-> 0, footer_size |-> 0, data_checksum |-> << >>]
  /\ bad = {} /\ rd = NoReader /\ got = Nothing
  /\ rt = [id |-> 0, binary |-> NoSection]

(* write_all of a section.                                                 *)
Append1(kind, id, size) ==
  /\ file' = Append(file, [kind |-> kind, id |-> id, at |-> pos, size |-> size])
  /\ pos' = pos + size

(* Mutant: the bytes do not reach the checksum.                            *)
PutUnsummed(kind, id, size) == Append1(kind, id, size) /\ UNCHANGED summed

(* write_and_update_file_level_checksum                                    *)
Put(kind, id, size) ==
  /\ Append1(kind, id, size)
  /\ summed' = Append(summed, <<kind, id>>)

(* flush_chunk_and_get_metadata of the next shared dictionary chunk        *)
WriteDictChunk(size) ==
  /\ pc = "dicts" /\ Len(dicts) < NumDicts
  /\ Put("dict", <<Len(dicts) + 1>>, size)
  /\ dicts' = Append(dicts, Location(size))
  /\ UNCHANGED <<pc, wasms, wasmSec, metaAt, cols, ps, bad, rd, got, rt>>

DictsWritten ==
  /\ pc = "dicts" /\ Len(dicts) = NumDicts
  /\ pc' = "wasms"
  /\ UNCHANGED <<writeVars, bad, rd, got, rt>>

(* get_sorted_wasms: the ids still to be written, smallest first; and a    *)
(* mutant that goes the other way round.                                   *)
LeftWasms ==
  {k \in WasmIds : \A i \in DOMAIN file : file[i].kind = "wasm" => file[i].id # <<k>>}
NextWasmLargest == CHOOSE k \in LeftWasms : \A j \in LeftWasms : j <= k
NextWasm == CHOOSE k \in LeftWasms : \A j \in LeftWasms : k <= j

(* The next WASM binary.                                                   *)
WriteWasm(size) ==
  /\ pc = "wasms" /\ LeftWasms # {}
  /\ Put("wasm", <<NextWasm>>, size)
  /\ wasms' = Append(wasms, Location(size))
  /\ UNCHANGED <<pc, dicts, wasmSec, metaAt, cols, ps, bad, rd, got, rt>>

(* The WASMBinaries table; the column metadata starts behind it.           *)
WriteWasmSection(size) ==
  /\ pc = "wasms" /\ LeftWasms = {}
  /\ Put("wasmSection", << >>, size)
  /\ wasmSec' = Location(size)
  /\ metaAt' = pos'
  /\ pc' = "columns"
  /\ UNCHANGED <<dicts, wasms, cols, ps, bad, rd, got, rt>>

(* to_indirect_and_flush: the ColumnMetadata of the next column of the     *)
(* row group, then the next row group.                                     *)
WriteColumnMeta(size) ==
  LET g == Len(cols)
      c == Len(cols[g]) + 1
  IN /\ pc = "columns"
     /\ Put("column", <<g, c>>, size)
     /\ cols' = LET more == [cols EXCEPT ![g] = Append(@, Location(size))]
                IN IF c = NumCols /\ g < NumGroups THEN Append(more, << >>) ELSE more
     /\ pc' = IF c = NumCols /\ g = NumGroups THEN "footer" ELSE pc
     /\ UNCHANGED <<dicts, wasms, wasmSec, metaAt, ps, bad, rd, got, rt>>

(* metadata_size, taken when the footer ends at end, and a mutant that     *)
(* leaves the footer out.                                                  *)
MetadataSizeNoFooter(end, footer) == (end - footer - metaAt) % U32
MetadataSize(end, footer) == (end - metaAt) % U32

(* The footer; then the values of the postscript are known.                *)
WriteFooter(size) ==
  /\ pc = "footer"
  /\ Put("footer", << >>, size)
  /\ ps' = [metadata_size |-> MetadataSize(pos', size), footer_size |-> size % U32,
            data_checksum |-> summed']
  /\ pc' = "postscript"
  /\ UNCHANGED <<dicts, wasms, wasmSec, metaAt, cols, bad, rd, got, rt>>

(* The next field of the postscript, which no checksum covers.             *)
PSKinds == {PSFields[k][1] : k \in 1 .. Len(PSFields)}
FieldsWritten == Cardinality({i \in DOMAIN file : file[i].kind \in PSKinds})
WritePostscriptField ==
  LET k == FieldsWritten + 1
  IN /\ pc = "postscript"
     /\ Append1(PSFields[k][1], << >>, PSFields[k][2])
     /\ pc' = IF k = Len(PSFields) THEN "written" ELSE pc
     /\ UNCHANGED <<summed, dicts, wasms, wasmSec, metaAt, cols, ps, bad, rd,
                    got, rt>>

(* A write fails or the process ends: what is on disk stops between two    *)
(* sections or inside one.                                                 *)
Tear ==
  /\ pc \in Writing
  /\ \/ Append1("torn", << >>, 1)
     \/ UNCHANGED <<file, pos>>
  /\ pc' = "torn"
  /\ UNCHANGED <<summed, dicts, wasms, wasmSec, metaAt, cols, ps, bad, rd, got, rt>>

(* External: bytes in front of the postscript are changed on storage.      *)
Corrupt ==
  /\ pc = "written" /\ bad = {}
  /\ \E i \in DOMAIN file : file[i].kind \notin PSKinds /\ bad' = {i}
  /\ UNCHANGED <<pc, writeVars, rd, got, rt>>

-----------------------------------------------------------------------------
(* The section that fills the size bytes at offset at, if there is one.    *)
ReadAt(at, size) ==
  IF \E i \in DOMAIN file : file[i].at = at /\ file[i].size = size
  THEN file[CHOOSE i \in DOMAIN file : file[i].at = at /\ file[i].size = size]
  ELSE NoSection

Damaged(kinds) == \E i \in bad : file[i].kind \in kinds

(* The length of the buffer that read_ahead fills from the end of the      *)
(* file, and a mutant that forgets that a file may be shorter than it.     *)
ReadAheadAlways == Window
ReadAheadLen == IF Window <= pos THEN Window ELSE pos

(* build() is called; it may be called on what a failed finish() left.     *)
Open(read_ahead, verify, proj) ==
  /\ pc \in {"written", "torn"}
  /\ rd' = [read_ahead |-> read_ahead, verify |-> verify, proj |-> proj]
  /\ pc' = IF read_ahead /\ ReadAheadLen > pos THEN "panicked" ELSE "readPostscript"
  /\ UNCHANGED <<writeVars, bad, got, rt>>

(* read_postscript.  In a file shorter than the postscript the offset      *)
(* underflows: a panic, or without overflow checks a failing read.         *)
ReadPostscript ==
  /\ pc = "readPostscript"
  /\ pc' \in IF pos < PS THEN {"refused", "panicked"}
             ELSE IF file[Len(file)].kind # "magic" THEN {"refused"}
             ELSE IF rd.verify THEN {"verifyChecksum"} ELSE {"readFooter"}
  /\ UNCHANGED <<writeVars, bad, rd, got, rt>>

(* The sections the reader feeds to its checksum.                          *)
Covered(i) == file[i].at < pos - PS

(* verify_file_checksum                                                    *)
Computed ==
  [i \in {j \in DOMAIN file : Covered(j)} |->
     IF i \in bad THEN <<"changed", << >> >> ELSE <<file[i].kind, file[i].id>>]

(* Mutant: the result of the verification is dropped.                      *)
VerifyIgnored ==
  /\ pc = "verifyChecksum"
  /\ pc' = "readFooter"
  /\ UNCHANGED <<writeVars, bad, rd, got, rt>>

VerifyFileChecksum ==
  /\ pc = "verifyChecksum"
  /\ pc' = IF Computed = ps.data_checksum THEN "readFooter" ELSE "refused"
  /\ UNCHANGED <<writeVars, bad, rd, got, rt>>

(* The footer, from the read-ahead buffer or by a read of its own.  A      *)
(* footer whose bytes have changed does not parse, or parses as something  *)
(* else.                                                                   *)
ReadFooter ==
  LET len == ReadAheadLen
      at == IF rd.read_ahead THEN (pos - len) + (len - PS - ps.footer_size)
            ELSE pos - PS - ps.footer_size
  IN /\ pc = "readFooter"
     /\ got' = [got EXCEPT !.footer = ReadAt(at, ps.footer_size)]
     /\ pc' \in IF rd.read_ahead /\ ps.footer_size >= Window - PS THEN {"panicked"}
                ELSE IF Damaged({"footer"}) THEN {"refused", "panicked", "garbled"}
                ELSE {"readMetadata"}
     /\ UNCHANGED <<writeVars, bad, rd, rt>>

(* Whether all column metadata is fetched at once.                         *)
FetchAll == 10 * Len(rd.proj) > 6 * NumCols \/ NumCols <= FewColumns

(* The column metadata at location loc: a slice of the metadata fetched at *)
(* once, which starts at offset base of the file, or a read of its own.    *)
ColumnMeta(loc, base) ==
  LET data_size == pos - PS - ps.metadata_size
      rel == loc.offset - data_size
  IN IF ~FetchAll THEN ReadAt(loc.offset, loc.size)
     ELSE IF rel < 0 \/ rel + loc.size > ps.metadata_size - ps.footer_size
          THEN NoSection
     ELSE ReadAt(base + rel, loc.size)

(* The metadata of the projected columns of every row group, then every    *)
(* shared dictionary chunk.  Metadata larger than the read-ahead buffer    *)
(* makes the offset into the buffer underflow.                             *)
ReadMetadata ==
  LET len == ReadAheadLen
      base == IF rd.read_ahead THEN (pos - len) + (len - PS - ps.metadata_size)
              ELSE pos - PS - ps.metadata_size
  IN /\ pc = "readMetadata"
     /\ IF FetchAll /\ rd.read_ahead /\ len < PS + ps.metadata_size
        THEN pc' = "panicked" /\ UNCHANGED got
        ELSE /\ got' = [got EXCEPT
                  !.cols = [g \in 1 .. Len(cols) |->
                              [i \in 1 .. Len(rd.proj) |->
                                 ColumnMeta(cols[g][rd.proj[i]], base)]],
                  !.dicts = [j \in 1 .. Len(dicts) |->
                               ReadAt(dicts[j].offset, dicts[j].size)]]
             /\ pc' \in IF Damaged({"dict"}) THEN {"ready", "panicked"} ELSE {"ready"}
     /\ UNCHANGED <<writeVars, bad, rd, rt>>

(* get_runtime, called for the wasm_id an encoding unit carries: the table *)
(* is read, its i-th binary becomes the runtime of WASMId(i), and an id    *)
(* that is not among them panics.                                          *)
GetRuntime(id) ==
  /\ pc = "ready" /\ ~Damaged({"wasm", "wasmSection"})
  /\ IF id < Len(wasms)
     THEN /\ rt' = [id |-> id,
                    binary |-> ReadAt(wasms[id + 1].offset, wasms[id + 1].size)]
          /\ pc' = "running"
     ELSE pc' = "noRuntime" /\ UNCHANGED rt
  /\ UNCHANGED <<writeVars, bad, rd, got>>

Terminated ==
  /\ pc \in {"ready", "running", "noRuntime", "refused", "panicked", "garbled"}
  /\ UNCHANGED vars

Next ==
  \/ \E size \in Sizes : \/ WriteDictChunk(size) \/ WriteWasm(size)
                         \/ WriteWasmSection(size) \/ WriteColumnMeta(size)
  \/ \E size \in FooterSizes : WriteFooter(size)
  \/ DictsWritten \/ WritePostscriptField \/ Tear \/ Corrupt
  \/ \E ahead, verify \in BOOLEAN, proj \in Projections : Open(ahead, verify, proj)
  \/ ReadPostscript \/ VerifyFileChecksum \/ ReadFooter \/ ReadMetadata
  \/ \E id \in WasmIds : GetRuntime(id)
  \/ Terminated

Spec == Init /\ [][Next]_vars

-----------------------------------------------------------------------------
Opened == pc \in {"ready", "running", "noRuntime", "garbled"}
Complete == file # << >> /\ FieldsWritten = Len(PSFields)

(* A reader that opens an unchanged file, by whichever of the four ways    *)
(* to fetch it, holds the file's own footer, for every row group the       *)
(* metadata of exactly the columns asked for in the order asked for, and   *)
(* every dictionary chunk.                                                 *)
OpensRight ==
  (Opened /\ (bad = {} \/ rd.verify)) =>
    /\ got.footer.kind = "footer"
    /\ Len(got.cols) = NumGroups
    /\ \A g \in 1 .. NumGroups : \A i \in 1 .. Len(rd.proj) :
         got.cols[g][i].kind = "column" /\ got.cols[g][i].id = <<g, rd.proj[i]>>
    /\ Len(got.dicts) = NumDicts
    /\ \A j \in 1 .. NumDicts : got.dicts[j].kind = "dict" /\ got.dicts[j].id = <<j>>

(* What a finish() that failed or was cut short leaves behind is never     *)
(* opened, wherever it stopped.                                            *)
RefusesTorn == Opened => Complete

(* With verify_file_checksum no change of a byte in front of the           *)
(* postscript goes unnoticed.                                              *)
CorruptionCaught == (rd.verify /\ bad # {}) => ~Opened

(* An unchanged, completely written file is never refused: the checksum    *)
(* the reader computes is the one the writer fed, section by section.      *)
NoFalseAlarm == pc = "refused" => bad # {} \/ ~Complete

(* Opening an unchanged, complete file panics only if read-ahead is on and *)
(* the metadata is larger than what read-ahead fetches.                    *)
PanicsOnlyPastWindow ==
  pc = "panicked" =>
    \/ bad # {} \/ ~Complete
    \/ rd.read_ahead /\ ps.metadata_size + PS > Window

(* File.fbs:122 "unique id for the wasm decoding binary stored in-place in *)
(* the file": the runtime a decoder gets for a wasm_id runs the binary     *)
(* that the writer's context holds under this id.                          *)
WasmIdResolves ==
  /\ pc # "noRuntime"
  /\ pc = "running" => rt.binary.kind = "wasm" /\ rt.binary.id = <<rt.id>>
=============================================================================

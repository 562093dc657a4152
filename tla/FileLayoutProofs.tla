-------------------------- MODULE FileLayoutProofs --------------------------
(***************************************************************************)
(* Proofs about the tail of a file, for every number of row groups,        *)
(* columns, dictionary chunks and WASM binaries and for all their sizes:   *)
(* what finish() writes is what build() finds, and only that.              *)
(***************************************************************************)
EXTENDS FileLayout, FiniteSetTheorems, WellFoundedInduction, TLAPS

(* The kinds of the sections that the checksum covers, and of all.         *)
DataKinds == {"data", "dict", "wasm", "wasmSection", "column", "footer"}
Kinds == DataKinds \union PSKinds \union {"torn"}

(* A section is found where loc says, as the i-th of the file.             *)
Locs == [offset : Nat, size : Nat]
Sections == [kind : Kinds, id : Seq(Nat), at : Nat, size : Nat \ {0}]
IsSection(i, kind, id, loc) ==
  /\ i \in 1 .. Len(summed)
  /\ file[i].kind = kind /\ file[i].id = id
  /\ file[i].at = loc.offset /\ file[i].size = loc.size

(* The sections lie one behind the other, and what the checksum has been   *)
(* fed are the first of them.                                              *)
OrderInv ==
  /\ \A i, j \in 1 .. Len(file) : i < j => file[i].at + file[i].size <= file[j].at
  /\ \A i \in 1 .. Len(file) : file[i].at + file[i].size <= pos
  /\ file = << >> => pos = 0
SummedInv ==
  /\ Len(summed) <= Len(file)
  /\ \A i \in 1 .. Len(summed) : /\ summed[i] = <<file[i].kind, file[i].id>>
                                /\ file[i].kind \in DataKinds
SectionInv ==
  /\ file \in Seq(Sections) /\ pos \in Nat /\ summed \in Seq(Kinds \X Seq(Nat))
  /\ OrderInv /\ SummedInv

(* What the locations that were written down point at.                     *)
TablesInv ==
  /\ dicts \in Seq(Locs) /\ cols \in Seq(Seq(Locs)) /\ metaAt \in Nat
  /\ \A j \in 1 .. Len(dicts) : \E i \in 1 .. Len(summed) : IsSection(i, "dict", <<j>>, dicts[j])
  /\ \A g \in 1 .. Len(cols) : \A c \in 1 .. Len(cols[g]) :
       /\ metaAt <= cols[g][c].offset
       /\ \E i \in 1 .. Len(summed) : IsSection(i, "column", <<g, c>>, cols[g][c])

(* How far the column metadata is, and how many bytes it has taken: with   *)
(* k columns written, k times one of the sizes at most.                    *)
Written == (Len(cols) - 1) * NumCols + Len(cols[Len(cols)])
ColumnsBegun ==
  /\ Len(cols) \in 1 .. NumGroups
  /\ \A g \in 1 .. Len(cols) - 1 : Len(cols[g]) = NumCols
  /\ Len(cols[Len(cols)]) < NumCols
ColumnsEnded ==
  /\ Len(cols) = NumGroups
  /\ \A g \in 1 .. NumGroups : Len(cols[g]) = NumCols
MetaBegun ==
  \/ Written = 0 /\ pos = metaAt
  \/ metaAt < pos /\ \E s \in Sizes : pos - metaAt <= Written * s
MetaEnded == metaAt < pos /\ \E s \in Sizes : pos - metaAt <= NumGroups * NumCols * s

(* The footer is the last section the checksum covers, n fields of the     *)
(* postscript follow, and ps holds what the reader computes with.          *)
PSEnds == <<4, 8, 9, 10, 18, 26, 28, 30, 32>>
PSEnd(n) == IF n = 0 THEN 0 ELSE PSEnds[n]
Footer == file[Len(summed)]
Tailed(n) ==
  /\ Len(file) = Len(summed) + n /\ Len(summed) >= 1
  /\ Footer.kind = "footer"
  /\ \A k \in 1 .. n : file[Len(summed) + k].kind = PSFields[k][1]
  /\ pos = Footer.at + Footer.size + PSEnd(n)
  /\ ps.footer_size = Footer.size /\ ps.data_checksum = summed
  /\ ps.metadata_size = Footer.at + Footer.size - metaAt /\ metaAt < Footer.at
  /\ Len(dicts) = NumDicts /\ ColumnsEnded

(* A file that finish() has written, and one that it has not.              *)
Whole == Tailed(Len(PSFields))
Torn == ~Complete /\ (file # << >> => file[Len(file)].kind # "magic")

PhaseInv ==
  /\ pc \in Writing \ {"postscript"} => Len(file) = Len(summed)
  /\ pc \in {"dicts", "wasms"} => cols = << << >> >>
  /\ pc \in {"wasms", "columns", "footer"} => Len(dicts) = NumDicts
  /\ pc = "columns" => ColumnsBegun /\ MetaBegun
  /\ pc = "footer" => ColumnsEnded /\ MetaEnded
  /\ pc = "postscript" => Tailed(Len(file) - Len(summed)) /\ Len(file) - Len(summed) < Len(PSFields)

WriteInv == SectionInv /\ TablesInv /\ PhaseInv

(* The reader.                                                             *)
FooterRight == got.footer.kind = "footer"
MetadataRight ==
  /\ Len(got.cols) = NumGroups
  /\ \A g \in 1 .. NumGroups : \A i \in 1 .. Len(rd.proj) :
       got.cols[g][i].kind = "column" /\ got.cols[g][i].id = <<g, rd.proj[i]>>
  /\ Len(got.dicts) = NumDicts
  /\ \A j \in 1 .. NumDicts : got.dicts[j].kind = "dict" /\ got.dicts[j].id = <<j>>

Finishing == {"written", "torn"} \union Writing
Reading == {"readFooter", "readMetadata", "ready", "running", "noRuntime", "garbled"}
ReadInv ==
  /\ rd.proj \in Seq(Columns) /\ DOMAIN got = {"footer", "cols", "dicts"}
  /\ bad \subseteq 1 .. Len(summed)
  /\ pc \in Writing => bad = {}
  /\ pc = "torn" => Torn
  /\ pc \in {"written", "verifyChecksum"} \union Reading => Whole
  /\ pc = "readPostscript" => Whole \/ Torn
  /\ pc \in {"refused", "panicked"} => Whole \/ Torn
  /\ pc \in Reading /\ rd.verify => bad = {}
  /\ pc = "garbled" => bad # {}
  /\ pc \in {"readMetadata", "ready", "running", "noRuntime"} => FooterRight
  /\ pc \in {"ready", "running", "noRuntime"} => MetadataRight
  /\ NoFalseAlarm /\ PanicsOnlyPastWindow

LayoutInv == WriteInv /\ ReadInv
-----------------------------------------------------------------------------
(* The postscript: no field has the kind of a section before it, the       *)
(* fields add up to POSTSCRIPT_SIZE and MAGIC is the last.                 *)
LEMMA FieldsAre ==
  /\ Len(PSFields) = 9 /\ PSEnd(0) = 0 /\ PSEnd(9) = PS
  /\ \A k \in 1 .. 9 : /\ PSFields[k][2] \in Nat \ {0}
                      /\ PSEnd(k) = PSEnd(k - 1) + PSFields[k][2]
                      /\ (PSFields[k][1] = "magic" <=> k = 9)
<1>1. Len(PSFields) = 9 /\ PSEnd(0) = 0 /\ PSEnd(9) = PS
  BY DEF PSFields, PSEnd, PSEnds, PS
<1>2. ASSUME NEW k \in 1 .. 9
      PROVE  /\ PSFields[k][2] \in Nat \ {0}
             /\ PSEnd(k) = PSEnd(k - 1) + PSFields[k][2]
             /\ (PSFields[k][1] = "magic" <=> k = 9)
  <2>1. \/ k = 1 \/ k = 2 \/ k = 3 \/ k = 4 \/ k = 5 \/ k = 6 \/ k = 7 \/ k = 8 \/ k = 9
    OBVIOUS
  <2>2. /\ PSFields[1] = <<"metadata_size", 4>> /\ PSFields[2] = <<"footer_size", 4>>
        /\ PSFields[3] = <<"compression", 1>> /\ PSFields[4] = <<"checksum_type", 1>>
        /\ PSFields[5] = <<"data_checksum", 8>> /\ PSFields[6] = <<"schema_checksum", 8>>
        /\ PSFields[7] = <<"major", 2>> /\ PSFields[8] = <<"minor", 2>>
        /\ PSFields[9] = <<"magic", 2>>
    BY DEF PSFields
  <2>3. /\ PSEnd(0) = 0 /\ PSEnd(1) = 4 /\ PSEnd(2) = 8 /\ PSEnd(3) = 9 /\ PSEnd(4) = 10
        /\ PSEnd(5) = 18 /\ PSEnd(6) = 26 /\ PSEnd(7) = 28 /\ PSEnd(8) = 30 /\ PSEnd(9) = 32
    BY DEF PSEnd, PSEnds
  <2>4. PSFields[k][2] \in Nat \ {0}
    BY <2>1, <2>2
  <2>5. PSFields[k][1] = "magic" <=> k = 9
    BY <2>1, <2>2
  <2>6. PSEnd(k) = PSEnd(k - 1) + PSFields[k][2]
    BY <2>1, <2>2, <2>3
  <2>7. QED
    BY <2>4, <2>5, <2>6
<1>3. QED
  BY <1>1, <1>2

LEMMA EndsAre ==
  ASSUME NEW n \in 0 .. 9
  PROVE  PSEnd(n) \in Nat
<1>1. \/ n = 0 \/ n = 1 \/ n = 2 \/ n = 3 \/ n = 4 \/ n = 5 \/ n = 6 \/ n = 7 \/ n = 8
      \/ n = 9
  OBVIOUS
<1>2. QED
  BY <1>1 DEF PSEnd, PSEnds

LEMMA KindsApart ==
  /\ PSKinds = {"metadata_size", "footer_size", "compression", "checksum_type",
                "data_checksum", "schema_checksum", "major", "minor", "magic"}
  /\ \A k \in DataKinds : k \notin PSKinds /\ k # "magic"
  /\ \A k \in 1 .. 9 : PSFields[k][1] \in PSKinds
  /\ "torn" \notin PSKinds
<1> DEFINE K == {"metadata_size", "footer_size", "compression", "checksum_type",
                 "data_checksum", "schema_checksum", "major", "minor", "magic"}
<1>1. ASSUME NEW k \in 1 .. 9
      PROVE  PSFields[k][1] \in K
  <2>1. \/ k = 1 \/ k = 2 \/ k = 3 \/ k = 4 \/ k = 5 \/ k = 6 \/ k = 7 \/ k = 8 \/ k = 9
    OBVIOUS
  <2>2. QED
    BY <2>1 DEF PSFields
<1>2. ASSUME NEW x \in K
      PROVE  \E k \in 1 .. 9 : PSFields[k][1] = x
  <2>1. /\ PSFields[1][1] = "metadata_size" /\ PSFields[2][1] = "footer_size"
        /\ PSFields[3][1] = "compression" /\ PSFields[4][1] = "checksum_type"
        /\ PSFields[5][1] = "data_checksum" /\ PSFields[6][1] = "schema_checksum"
        /\ PSFields[7][1] = "major" /\ PSFields[8][1] = "minor"
        /\ PSFields[9][1] = "magic"
    BY DEF PSFields
  <2>2. {1, 2, 3, 4, 5, 6, 7, 8, 9} \subseteq 1 .. 9
    OBVIOUS
  <2>3. QED
    BY <2>1, <2>2
<1>3. PSKinds = K
  <2>1. PSKinds = {PSFields[k][1] : k \in 1 .. 9}
    BY FieldsAre DEF PSKinds
  <2> HIDE DEF K
  <2>2. QED
    BY <1>1, <1>2, <2>1
<1>4. \A k \in DataKinds : k \notin K /\ k # "magic"
  BY DEF DataKinds
<1>5. "torn" \notin K
  OBVIOUS
<1>6. QED
  BY <1>1, <1>3, <1>4, <1>5

(* Reading the bytes of a section gives that section.                      *)
LEMMA ReadAtIs ==
  ASSUME SectionInv, NEW i \in 1 .. Len(file)
  PROVE  ReadAt(file[i].at, file[i].size) = file[i]
<1> DEFINE P(j) == file[j].at = file[i].at /\ file[j].size = file[i].size
           k == CHOOSE j \in DOMAIN file : P(j)
<1>1. DOMAIN file = 1 .. Len(file) /\ Len(file) \in Nat
  BY DEF SectionInv
<1>2. k \in 1 .. Len(file) /\ P(k)
  BY <1>1
<1>3. file[i] \in Sections /\ file[k] \in Sections
  BY <1>2 DEF SectionInv
<1>4. /\ file[i].at \in Nat /\ file[i].size \in Nat \ {0}
      /\ file[k].at \in Nat /\ file[k].size \in Nat \ {0}
  BY <1>3 DEF Sections
<1>5. i = k
  BY <1>2, <1>4 DEF SectionInv, OrderInv
<1>6. QED
  BY <1>1, <1>5 DEF ReadAt

(* What Append returns.                                                    *)
LEMMA AppendIs ==
  ASSUME NEW S, NEW s \in Seq(S), NEW x \in S
  PROVE  /\ Append(s, x) \in Seq(S) /\ Append(s, x) # << >>
         /\ Len(Append(s, x)) = Len(s) + 1 /\ Len(s) \in Nat
         /\ Append(s, x)[Len(s) + 1] = x
         /\ \A i \in 1 .. Len(s) : Append(s, x)[i] = s[i] /\ s[i] \in S
<1> DEFINE t == Append(s, x)
<1>1. t \in Seq(S) /\ Len(t) = Len(s) + 1 /\ Len(s) \in Nat
  OBVIOUS
<1>2. t[Len(s) + 1] = x /\ \A i \in 1 .. Len(s) : t[i] = s[i] /\ s[i] \in S
  OBVIOUS
<1>3. t # << >>
  BY <1>1
<1>4. QED
  BY <1>1, <1>2, <1>3

(* A section is written behind the others.                                 *)
LEMMA Append1Is ==
  ASSUME SectionInv, NEW kind \in Kinds, NEW id \in Seq(Nat), NEW size \in Nat \ {0},
         Append1(kind, id, size)
  PROVE  /\ file' \in Seq(Sections) /\ pos' \in Nat /\ pos' = pos + size /\ OrderInv'
         /\ Len(file') = Len(file) + 1 /\ Len(file) \in Nat
         /\ \A i \in 1 .. Len(file) : file'[i] = file[i]
         /\ LET s == file'[Len(file) + 1]
            IN s.kind = kind /\ s.id = id /\ s.at = pos /\ s.size = size
<1> DEFINE new == [kind |-> kind, id |-> id, at |-> pos, size |-> size]
           n == Len(file)
<1>1. file \in Seq(Sections) /\ pos \in Nat /\ file' = Append(file, new) /\ pos' = pos + size
  BY DEF SectionInv, Append1
<1>2. /\ new \in Sections /\ new.kind = kind /\ new.id = id /\ new.at = pos
      /\ new.size = size
  BY <1>1 DEF Sections
<1> HIDE DEF new
<1>3. /\ file' \in Seq(Sections) /\ file' # << >> /\ Len(file') = n + 1 /\ n \in Nat
      /\ file'[n + 1] = new /\ \A i \in 1 .. n : file'[i] = file[i]
  BY <1>1, <1>2, AppendIs
<1>4. \A i \in 1 .. n : file[i].at \in Nat /\ file[i].size \in Nat
  <2>1. \A i \in 1 .. n : file[i] \in Sections
    BY <1>1
  <2>2. QED
    BY <2>1 DEF Sections
<1>5. ASSUME NEW i \in 1 .. n + 1
      PROVE  /\ file'[i].at + file'[i].size <= pos'
             /\ \A j \in 1 .. n + 1 : i < j => file'[i].at + file'[i].size <= file'[j].at
  <2>1. i \in 1 .. n \/ i = n + 1
    BY <1>3
  <2>2. CASE i \in 1 .. n
    <3>1. file'[i] = file[i] /\ file[i].at + file[i].size <= pos
      BY <1>3, <2>2 DEF SectionInv, OrderInv
    <3>2. ASSUME NEW j \in 1 .. n + 1, i < j
          PROVE  file'[i].at + file'[i].size <= file'[j].at
      <4>1. j \in 1 .. n \/ j = n + 1
        BY <1>3
      <4>2. QED
        BY <1>2, <1>3, <2>2, <3>1, <3>2, <4>1 DEF SectionInv, OrderInv
    <3>3. QED
      BY <1>1, <1>4, <2>2, <3>1, <3>2
  <2>3. CASE i = n + 1
    BY <1>1, <1>2, <1>3, <2>3
  <2>4. QED
    BY <2>1, <2>2, <2>3
<1>6. OrderInv'
  BY <1>3, <1>5 DEF OrderInv
<1>7. QED
  BY <1>1, <1>2, <1>3, <1>6

(* The same with the checksum, as long as it has seen all sections.        *)
LEMMA PutIs ==
  ASSUME SectionInv, Len(file) = Len(summed), NEW kind \in DataKinds,
         NEW id \in Seq(Nat), NEW size \in Nat \ {0}, Put(kind, id, size)
  PROVE  /\ SectionInv' /\ Len(file') = Len(summed') /\ pos' = pos + size
         /\ Len(summed') = Len(summed) + 1 /\ Len(summed) \in Nat
         /\ \A i \in 1 .. Len(summed) : file'[i] = file[i]
         /\ LET s == file'[Len(summed) + 1]
            IN s.kind = kind /\ s.id = id /\ s.at = pos /\ s.size = size
<1> DEFINE n == Len(file)
           s == file'[n + 1]
<1>1. Append1(kind, id, size) /\ summed' = Append(summed, <<kind, id>>) /\ kind \in Kinds
  BY DEF Put, Kinds
<1>2. /\ file' \in Seq(Sections) /\ pos' \in Nat /\ pos' = pos + size /\ OrderInv'
      /\ Len(file') = n + 1 /\ n \in Nat /\ \A i \in 1 .. n : file'[i] = file[i]
      /\ s.kind = kind /\ s.id = id /\ s.at = pos /\ s.size = size
  BY <1>1, Append1Is
<1>3. /\ summed' \in Seq(Kinds \X Seq(Nat)) /\ Len(summed') = n + 1
      /\ summed'[n + 1] = <<kind, id>> /\ \A i \in 1 .. n : summed'[i] = summed[i]
  <2>1. <<kind, id>> \in Kinds \X Seq(Nat) /\ summed \in Seq(Kinds \X Seq(Nat))
    BY <1>1 DEF SectionInv
  <2>2. QED
    BY <1>1, <2>1, AppendIs
<1> HIDE DEF s
<1>4. ASSUME NEW i \in 1 .. n + 1
      PROVE  summed'[i] = <<file'[i].kind, file'[i].id>> /\ file'[i].kind \in DataKinds
  <2>1. i \in 1 .. n \/ i = n + 1
    BY <1>2
  <2>2. QED
    BY <1>2, <1>3, <2>1 DEF SectionInv, SummedInv, s
<1>5. SectionInv'
  BY <1>2, <1>3, <1>4 DEF SectionInv, SummedInv
<1>6. QED
  BY <1>2, <1>3, <1>5 DEF s
-----------------------------------------------------------------------------
(* Writing.  Sections that are there stay, so what points at them is right *)
(* for good.                                                               *)
Grows ==
  /\ Len(summed) \in Nat /\ Len(summed') \in Nat /\ Len(summed) <= Len(summed')
  /\ \A i \in 1 .. Len(summed) : file'[i] = file[i]

LEMMA DictsKept ==
  ASSUME TablesInv, Grows, NEW j \in 1 .. Len(dicts), dicts'[j] = dicts[j]
  PROVE  \E i \in 1 .. Len(summed') : IsSection(i, "dict", <<j>>, dicts[j])'
<1>1. PICK i \in 1 .. Len(summed) : IsSection(i, "dict", <<j>>, dicts[j])
  BY DEF TablesInv
<1>2. i \in 1 .. Len(summed') /\ file'[i] = file[i]
  BY DEF Grows
<1>3. QED
  BY <1>1, <1>2 DEF IsSection

LEMMA ColsKept ==
  ASSUME TablesInv, Grows, NEW g \in 1 .. Len(cols), NEW c \in 1 .. Len(cols[g]),
         cols'[g][c] = cols[g][c], UNCHANGED metaAt
  PROVE  /\ metaAt' <= cols'[g][c].offset
         /\ \E i \in 1 .. Len(summed') : IsSection(i, "column", <<g, c>>, cols[g][c])'
<1>1. /\ metaAt <= cols[g][c].offset
      /\ \E i \in 1 .. Len(summed) : IsSection(i, "column", <<g, c>>, cols[g][c])
  BY DEF TablesInv
<1>2. PICK i \in 1 .. Len(summed) : IsSection(i, "column", <<g, c>>, cols[g][c])
  BY <1>1
<1>3. i \in 1 .. Len(summed') /\ file'[i] = file[i]
  BY DEF Grows
<1>4. QED
  BY <1>1, <1>2, <1>3 DEF IsSection

LEMMA TablesKept ==
  ASSUME TablesInv, Grows, UNCHANGED <<dicts, cols, metaAt>>
  PROVE  TablesInv'
<1>1. \A j \in 1 .. Len(dicts') :
        \E i \in 1 .. Len(summed') : IsSection(i, "dict", <<j>>, dicts[j])'
  BY DictsKept
<1>2. \A g \in 1 .. Len(cols') : \A c \in 1 .. Len(cols'[g]) :
        /\ metaAt' <= cols'[g][c].offset
        /\ \E i \in 1 .. Len(summed') : IsSection(i, "column", <<g, c>>, cols[g][c])'
  BY ColsKept
<1>3. QED
  BY <1>1, <1>2 DEF TablesInv

(* A section is put into the file and nothing is written down yet.         *)
LEMMA PutGrows ==
  ASSUME SectionInv, Len(file) = Len(summed), NEW kind \in DataKinds,
         NEW id \in Seq(Nat), NEW size \in Nat \ {0}, Put(kind, id, size)
  PROVE  /\ Grows /\ SectionInv' /\ Len(file') = Len(summed') /\ pos' = pos + size
         /\ Len(summed') = Len(summed) + 1 /\ pos \in Nat
         /\ file'[Len(summed')].at = pos /\ file'[Len(summed')].size = size
         /\ file'[Len(summed')].kind = kind /\ file'[Len(summed')].id = id
<1>1. pos \in Nat
  BY DEF SectionInv
<1>2. QED
  BY <1>1, PutIs DEF Grows

LEMMA SizesAre ==
  /\ \A size \in Sizes : size \in Nat \ {0}
  /\ \A size \in FooterSizes : size \in Nat \ {0}
  BY LayoutAssumption

LEMMA LayoutDict ==
  ASSUME WriteInv, NEW size \in Sizes, WriteDictChunk(size)
  PROVE  WriteInv'
<1> DEFINE n == Len(dicts) + 1
           loc == [offset |-> pos, size |-> size]
<1>1. /\ pc = "dicts" /\ pc' = "dicts" /\ Put("dict", <<n>>, size)
      /\ dicts' = Append(dicts, loc) /\ UNCHANGED <<metaAt, cols, ps>>
  BY DEF WriteDictChunk, Location
<1>2. dicts \in Seq(Locs) /\ Len(dicts) \in Nat /\ <<n>> \in Seq(Nat) /\ size \in Nat \ {0}
  BY SizesAre DEF WriteInv, TablesInv
<1>3. SectionInv /\ Len(file) = Len(summed) /\ cols = << << >> >>
  BY <1>1 DEF WriteInv, PhaseInv, Writing
<1>4. /\ Grows /\ SectionInv' /\ Len(file') = Len(summed') /\ pos \in Nat
      /\ Len(summed') = Len(summed) + 1
      /\ file'[Len(summed')].at = pos /\ file'[Len(summed')].size = size
      /\ file'[Len(summed')].kind = "dict" /\ file'[Len(summed')].id = <<n>>
  BY <1>1, <1>2, <1>3, PutGrows DEF DataKinds
<1>5. loc \in Locs /\ loc.offset = pos /\ loc.size = size
  BY <1>2, <1>4 DEF Locs
<1> HIDE DEF loc
<1>6. /\ dicts' \in Seq(Locs) /\ Len(dicts') = n /\ dicts'[n] = loc
      /\ \A j \in 1 .. Len(dicts) : dicts'[j] = dicts[j]
  BY <1>1, <1>2, <1>5, AppendIs
<1>7. ASSUME NEW j \in 1 .. Len(dicts')
      PROVE  \E i \in 1 .. Len(summed') : IsSection(i, "dict", <<j>>, dicts[j])'
  <2>1. CASE j = n
    <3>1. Len(summed') \in 1 .. Len(summed')
      BY <1>4 DEF Grows
    <3>2. QED
      BY <1>4, <1>5, <1>6, <2>1, <3>1 DEF IsSection
  <2>2. CASE j \in 1 .. Len(dicts)
    BY <1>4, <1>6, <2>2, DictsKept DEF WriteInv
  <2>3. QED
    BY <1>2, <1>6, <2>1, <2>2
<1>8. \A g \in 1 .. Len(cols') : \A c \in 1 .. Len(cols'[g]) :
        /\ metaAt' <= cols'[g][c].offset
        /\ \E i \in 1 .. Len(summed') : IsSection(i, "column", <<g, c>>, cols[g][c])'
  BY <1>1, <1>4, ColsKept DEF WriteInv
<1>9. TablesInv'
  BY <1>1, <1>6, <1>7, <1>8 DEF WriteInv, TablesInv
<1>10. PhaseInv'
  BY <1>1, <1>3, <1>4 DEF PhaseInv
<1>11. QED
  BY <1>4, <1>9, <1>10 DEF WriteInv

LEMMA LayoutDictsWritten ==
  ASSUME WriteInv, DictsWritten
  PROVE  WriteInv'
<1>1. /\ pc = "dicts" /\ pc' = "wasms" /\ Len(dicts) = NumDicts
      /\ UNCHANGED <<file, pos, summed, dicts, metaAt, cols>>
  BY DEF DictsWritten, writeVars
<1>2. SectionInv'
  BY <1>1 DEF WriteInv, SectionInv, OrderInv, SummedInv
<1>3. Grows
  BY <1>1 DEF WriteInv, SectionInv, Grows
<1>4. TablesInv'
  BY <1>1, <1>3, TablesKept DEF WriteInv
<1>5. PhaseInv'
  BY <1>1 DEF WriteInv, PhaseInv, Writing
<1>6. QED
  BY <1>2, <1>4, <1>5 DEF WriteInv

(* Among the ids still to be written there is a smallest one.              *)
LEMMA SmallestLeft ==
  ASSUME LeftWasms # {}
  PROVE  \E k \in LeftWasms : \A j \in LeftWasms : k <= j
<1>1. LeftWasms \subseteq Nat
  BY LayoutAssumption DEF LeftWasms
<1>2. \E k \in LeftWasms : \A j \in LeftWasms : ~(<<j, k>> \in OpToRel(<, Nat))
  BY <1>1, NatLessThanWellFounded, WFMin
<1>3. PICK k \in LeftWasms : \A j \in LeftWasms : ~(<<j, k>> \in OpToRel(<, Nat))
  BY <1>2
<1>4. \A j \in LeftWasms : ~(j < k)
  BY <1>1, <1>3 DEF OpToRel
<1>5. QED
  BY <1>1, <1>4

LEMMA LayoutWasm ==
  ASSUME WriteInv, NEW size \in Sizes, WriteWasm(size)
  PROVE  WriteInv'
<1>1. /\ pc = "wasms" /\ pc' = "wasms" /\ Put("wasm", <<NextWasm>>, size)
      /\ LeftWasms # {} /\ UNCHANGED <<dicts, metaAt, cols>>
  BY DEF WriteWasm
<1>2. NextWasm \in Nat
  <2>1. \E k \in LeftWasms : \A j \in LeftWasms : k <= j
    BY <1>1, SmallestLeft
  <2>2. QED
    BY <2>1, LayoutAssumption DEF NextWasm, LeftWasms
<1>3. SectionInv /\ Len(file) = Len(summed) /\ <<NextWasm>> \in Seq(Nat)
      /\ size \in Nat \ {0}
  BY <1>1, <1>2, SizesAre DEF WriteInv, PhaseInv, Writing
<1>4. Grows /\ SectionInv' /\ Len(file') = Len(summed')
  BY <1>1, <1>3, PutGrows DEF DataKinds
<1>5. TablesInv'
  BY <1>1, <1>4, TablesKept DEF WriteInv
<1>6. PhaseInv'
  BY <1>1, <1>4 DEF WriteInv, PhaseInv
<1>7. QED
  BY <1>4, <1>5, <1>6 DEF WriteInv

LEMMA LayoutWasmSection ==
  ASSUME WriteInv, NEW size \in Sizes, WriteWasmSection(size)
  PROVE  WriteInv'
<1>1. /\ pc = "wasms" /\ pc' = "columns" /\ Put("wasmSection", << >>, size)
      /\ metaAt' = pos' /\ UNCHANGED <<dicts, cols>>
  BY DEF WriteWasmSection
<1>2. SectionInv /\ Len(file) = Len(summed) /\ << >> \in Seq(Nat) /\ size \in Nat \ {0}
      /\ cols = << << >> >> /\ Len(dicts) = NumDicts
  BY <1>1, SizesAre DEF WriteInv, PhaseInv, Writing
<1>3. Grows /\ SectionInv' /\ Len(file') = Len(summed')
  BY <1>1, <1>2, PutGrows DEF DataKinds
<1>4. Len(cols) = 1 /\ cols[1] = << >> /\ Len(cols[1]) = 0
  BY <1>2
<1>5. TablesInv'
  <2>1. \A j \in 1 .. Len(dicts') :
          \E i \in 1 .. Len(summed') : IsSection(i, "dict", <<j>>, dicts[j])'
    BY <1>1, <1>3, DictsKept DEF WriteInv
  <2>2. \A g \in 1 .. Len(cols') : 1 .. Len(cols'[g]) = {}
    BY <1>1, <1>4
  <2>3. metaAt' \in Nat
    BY <1>1, <1>3 DEF SectionInv
  <2>4. QED
    BY <1>1, <2>1, <2>2, <2>3 DEF WriteInv, TablesInv
<1>6. ColumnsBegun' /\ MetaBegun'
  <2>1. ColumnsBegun'
    BY <1>1, <1>4, LayoutAssumption DEF ColumnsBegun
  <2>2. Written' = 0
    BY <1>1, <1>4, LayoutAssumption DEF Written
  <2>3. QED
    BY <1>1, <2>1, <2>2 DEF MetaBegun
<1>7. PhaseInv'
  BY <1>1, <1>2, <1>3, <1>6 DEF PhaseInv
<1>8. QED
  BY <1>3, <1>5, <1>7 DEF WriteInv
(* k+1 columns take at most k+1 times the larger of two sizes.             *)
LEMMA OneMore ==
  ASSUME NEW k \in Nat, NEW d \in Nat, NEW s \in Nat, NEW t \in Nat, d <= k * s
  PROVE  d + t <= (k + 1) * s \/ d + t <= (k + 1) * t
<1>1. CASE t <= s
  <2>1. (k + 1) * s = k * s + s /\ k * s \in Nat
    OBVIOUS
  <2>2. QED
    BY <1>1, <2>1
<1>2. CASE s < t
  <2>1. (k + 1) * t = k * t + t /\ k * t = k * s + k * (t - s)
    OBVIOUS
  <2>2. k * s \in Nat /\ k * t \in Nat /\ k * (t - s) \in Nat
    BY <1>2
  <2>3. QED
    BY <2>1, <2>2
<1>3. QED
  BY <1>1, <1>2

(* The bytes of the column metadata after one more column.                 *)
LEMMA MetaMore ==
  ASSUME NEW k \in Nat, NEW size \in Sizes, pos \in Nat, metaAt \in Nat,
         \/ k = 0 /\ pos = metaAt
         \/ metaAt < pos /\ \E s \in Sizes : pos - metaAt <= k * s
  PROVE  metaAt < pos + size /\ \E s \in Sizes : (pos + size) - metaAt <= (k + 1) * s
<1>1. size \in Nat \ {0}
  BY SizesAre
<1>2. CASE k = 0 /\ pos = metaAt
  <2>1. (pos + size) - metaAt <= (k + 1) * size
    BY <1>1, <1>2
  <2>2. QED
    BY <1>1, <1>2, <2>1
<1>3. CASE metaAt < pos /\ \E s \in Sizes : pos - metaAt <= k * s
  <2>1. PICK s \in Sizes : pos - metaAt <= k * s
    BY <1>3
  <2>2. s \in Nat /\ pos - metaAt \in Nat
    BY <1>3, SizesAre
  <2>3. (pos - metaAt) + size <= (k + 1) * s \/ (pos - metaAt) + size <= (k + 1) * size
    BY <1>1, <2>1, <2>2, OneMore
  <2>4. (pos - metaAt) + size = (pos + size) - metaAt /\ metaAt < pos + size
    BY <1>1, <1>3
  <2>5. QED
    BY <2>3, <2>4
<1>4. QED
  BY <1>2, <1>3

(* What to_indirect_and_flush does to the table of locations.              *)
LEMMA ColsGrow ==
  ASSUME WriteInv, NEW size \in Sizes, WriteColumnMeta(size)
  PROVE  LET g == Len(cols)
             c == Len(cols[g]) + 1
             loc == [offset |-> pos, size |-> size]
             more == [cols EXCEPT ![g] = Append(cols[g], loc)]
         IN /\ g \in 1 .. NumGroups /\ c \in 1 .. NumCols /\ loc \in Locs
            /\ more \in Seq(Seq(Locs)) /\ Len(more) = g /\ Len(more[g]) = c
            /\ more[g][c] = loc
            /\ \A k \in 1 .. c - 1 : more[g][k] = cols[g][k]
            /\ \A h \in 1 .. g - 1 : more[h] = cols[h]
            /\ cols' = IF c = NumCols /\ g < NumGroups THEN Append(more, << >>) ELSE more
<1> DEFINE g == Len(cols)
           c == Len(cols[g]) + 1
           loc == [offset |-> pos, size |-> size]
           row == Append(cols[g], loc)
           more == [cols EXCEPT ![g] = row]
<1>1. ColumnsBegun /\ cols \in Seq(Seq(Locs)) /\ pos \in Nat /\ size \in Nat
  BY SizesAre DEF WriteColumnMeta, WriteInv, PhaseInv, TablesInv, SectionInv
<1>2. g \in 1 .. NumGroups /\ g \in 1 .. g /\ cols[g] \in Seq(Locs) /\ Len(cols[g]) < NumCols
  BY <1>1, LayoutAssumption DEF ColumnsBegun
<1>3. c \in 1 .. NumCols
  BY <1>2, LayoutAssumption
<1>4. loc \in Locs
  BY <1>1 DEF Locs
<1>5. /\ row \in Seq(Locs) /\ Len(row) = c /\ row[c] = loc
      /\ \A k \in 1 .. c - 1 : row[k] = cols[g][k]
  BY <1>2, <1>4, AppendIs
<1> HIDE DEF row
<1>6. /\ more \in Seq(Seq(Locs)) /\ Len(more) = g /\ more[g] = row
      /\ \A h \in 1 .. g - 1 : more[h] = cols[h]
  BY <1>1, <1>2, <1>5
<1>7. cols' = IF c = NumCols /\ g < NumGroups THEN Append(more, << >>) ELSE more
  BY DEF WriteColumnMeta, Location, row
<1>8. QED
  BY <1>2, <1>3, <1>4, <1>5, <1>6, <1>7 DEF row

(* Counting the columns row group by row group.                            *)
LEMMA OneMoreColumn ==
  ASSUME NEW g \in Nat \ {0}, NEW n \in Nat, NEW c \in Nat \ {0}, NEW w,
         w = (g - 1) * n + (c - 1)
  PROVE  w \in Nat /\ w + 1 = (g - 1) * n + c /\ (c = n => w + 1 = g * n)
<1>1. (g - 1) * n \in Nat /\ g * n = (g - 1) * n + n
  OBVIOUS
<1>2. PICK p \in Nat : p = (g - 1) * n
  BY <1>1
<1>3. w = p + (c - 1) /\ g * n = p + n
  BY <1>1, <1>2
<1>4. w \in Nat /\ w + 1 = p + c
  BY <1>3
<1>5. QED
  BY <1>2, <1>3, <1>4

LEMMA LayoutColumn ==
  ASSUME WriteInv, NEW size \in Sizes, WriteColumnMeta(size)
  PROVE  WriteInv'
<1> DEFINE g == Len(cols)
           c == Len(cols[g]) + 1
           loc == [offset |-> pos, size |-> size]
           more == [cols EXCEPT ![g] = Append(cols[g], loc)]
           last == c = NumCols /\ g = NumGroups
<1>1. /\ pc = "columns" /\ Put("column", <<g, c>>, size)
      /\ pc' = (IF last THEN "footer" ELSE "columns")
      /\ UNCHANGED <<dicts, metaAt>>
  BY DEF WriteColumnMeta
<1>2. /\ g \in 1 .. NumGroups /\ c \in 1 .. NumCols /\ loc \in Locs
      /\ more \in Seq(Seq(Locs)) /\ Len(more) = g /\ Len(more[g]) = c
      /\ more[g][c] = loc
      /\ \A k \in 1 .. c - 1 : more[g][k] = cols[g][k]
      /\ \A h \in 1 .. g - 1 : more[h] = cols[h]
      /\ cols' = IF c = NumCols /\ g < NumGroups THEN Append(more, << >>) ELSE more
  BY ColsGrow
<1> HIDE DEF more
<1>3. /\ SectionInv /\ Len(file) = Len(summed) /\ size \in Nat \ {0} /\ Len(dicts) = NumDicts
      /\ ColumnsBegun /\ MetaBegun /\ metaAt \in Nat
  BY <1>1, SizesAre DEF WriteInv, PhaseInv, Writing, TablesInv
<1>4. g \in Nat /\ c \in Nat /\ NumCols \in Nat /\ NumGroups \in Nat
      /\ c - 1 = Len(cols[g]) /\ c - 1 \in Nat /\ <<g, c>> \in Seq(Nat)
  <2>1. NumCols \in Nat /\ NumGroups \in Nat
    BY LayoutAssumption
  <2>2. cols \in Seq(Seq(Locs)) /\ g \in Nat /\ g \in 1 .. g
    BY <1>2, <2>1 DEF WriteInv, TablesInv
  <2>3. cols[g] \in Seq(Locs)
    BY <2>2
  <2>4. Len(cols[g]) \in Nat
    BY <2>3
  <2>5. QED
    BY <2>1, <2>2, <2>4
<1>5. /\ Grows /\ SectionInv' /\ Len(file') = Len(summed') /\ pos \in Nat /\ pos' = pos + size
      /\ Len(summed') = Len(summed) + 1
      /\ file'[Len(summed')].at = pos /\ file'[Len(summed')].size = size
      /\ file'[Len(summed')].kind = "column" /\ file'[Len(summed')].id = <<g, c>>
  BY <1>1, <1>3, <1>4, PutGrows DEF DataKinds
<1>6. loc.offset = pos /\ loc.size = size
  OBVIOUS
<1> HIDE DEF loc
<1>7. /\ cols' \in Seq(Seq(Locs)) /\ \A h \in 1 .. g : cols'[h] = more[h]
      /\ \/ Len(cols') = g /\ ~(c = NumCols /\ g < NumGroups)
         \/ Len(cols') = g + 1 /\ c = NumCols /\ g < NumGroups /\ cols'[g + 1] = << >>
  <2>1. CASE c = NumCols /\ g < NumGroups
    <3>1. cols' = Append(more, << >>) /\ << >> \in Seq(Locs)
      BY <1>2, <2>1
    <3>2. QED
      BY <1>2, <2>1, <3>1, AppendIs
  <2>2. CASE ~(c = NumCols /\ g < NumGroups)
    BY <1>2, <2>2
  <2>3. QED
    BY <2>1, <2>2
<1>8. ASSUME NEW h \in 1 .. Len(cols'), NEW k \in 1 .. Len(cols'[h])
      PROVE  /\ metaAt' <= cols'[h][k].offset
             /\ \E i \in 1 .. Len(summed') : IsSection(i, "column", <<h, k>>, cols[h][k])'
  <2>1. h \in 1 .. g
    <3>1. h = g + 1 => Len(cols'[h]) = 0
      BY <1>4, <1>7
    <3>2. h # g + 1
      BY <3>1
    <3>3. QED
      BY <1>4, <1>7, <3>2
  <2>2. CASE h = g /\ k = c
    <3>1. Len(summed') \in 1 .. Len(summed') /\ cols'[h][k] = loc
      BY <1>2, <1>5, <1>7, <2>1, <2>2 DEF Grows
    <3>2. metaAt' <= pos
      BY <1>1, <1>3, <1>5 DEF MetaBegun
    <3>3. QED
      BY <1>5, <1>6, <2>2, <3>1, <3>2 DEF IsSection
  <2>3. CASE ~(h = g /\ k = c)
    <3>1. k \in 1 .. Len(cols[h]) /\ cols'[h][k] = cols[h][k] /\ h \in 1 .. Len(cols)
      <4>1. CASE h = g
        <5>1. Len(cols'[h]) = c /\ k \in 1 .. c - 1
          BY <1>2, <1>4, <1>7, <2>1, <2>3, <4>1
        <5>2. QED
          BY <1>2, <1>4, <1>7, <2>1, <4>1, <5>1
      <4>2. CASE h # g
        <5>1. h \in 1 .. g - 1
          BY <1>4, <2>1, <4>2
        <5>2. QED
          BY <1>2, <1>7, <2>1, <5>1
      <4>3. QED
        BY <4>1, <4>2
    <3>2. QED
      BY <1>1, <1>5, <3>1, ColsKept DEF WriteInv
  <2>4. QED
    BY <2>2, <2>3
<1>9. TablesInv'
  <2>1. \A j \in 1 .. Len(dicts') :
          \E i \in 1 .. Len(summed') : IsSection(i, "dict", <<j>>, dicts[j])'
    BY <1>1, <1>5, DictsKept DEF WriteInv
  <2>2. QED
    BY <1>1, <1>3, <1>7, <1>8, <2>1 DEF WriteInv, TablesInv
<1>10. \A h \in 1 .. g - 1 : Len(cols'[h]) = NumCols
  BY <1>2, <1>3, <1>4, <1>7, SMTT(30) DEF ColumnsBegun
<1>11. Len(cols'[g]) = c
  BY <1>2, <1>4, <1>7
<1>12. /\ Written \in Nat /\ Written + 1 = (g - 1) * NumCols + c
       /\ c = NumCols => Written + 1 = g * NumCols
  <2>1. Written = (g - 1) * NumCols + (c - 1)
    BY <1>4 DEF Written
  <2>2. g \in Nat \ {0} /\ c \in Nat \ {0}
    BY <1>2, <1>4
  <2> HIDE DEF g, c
  <2>3. QED
    BY <1>4, <2>1, <2>2, OneMoreColumn
<1>13. metaAt < pos' /\ \E s \in Sizes : pos' - metaAt <= (Written + 1) * s
  BY <1>3, <1>5, <1>12, MetaMore DEF MetaBegun
<1>14. ~last => ColumnsBegun' /\ MetaBegun'
  <2> SUFFICES ASSUME ~last PROVE ColumnsBegun' /\ MetaBegun'
    OBVIOUS
  <2>1. CASE Len(cols') = g /\ ~(c = NumCols /\ g < NumGroups)
    <3>1. c < NumCols
      BY <1>2, <1>4, <2>1
    <3>2. ColumnsBegun'
      BY <1>2, <1>10, <1>11, <2>1, <3>1 DEF ColumnsBegun
    <3>3. Written' = Written + 1
      BY <1>4, <1>11, <1>12, <2>1 DEF Written
    <3>4. QED
      BY <1>1, <1>13, <3>2, <3>3 DEF MetaBegun
  <2>2. CASE Len(cols') = g + 1 /\ c = NumCols /\ g < NumGroups /\ cols'[g + 1] = << >>
    <3>1. g + 1 \in 1 .. NumGroups /\ Len(cols'[g + 1]) = 0
      BY <1>4, <2>2
    <3>2. \A h \in 1 .. Len(cols') - 1 : Len(cols'[h]) = NumCols
      BY <1>4, <1>10, <1>11, <2>2
    <3>3. ColumnsBegun'
      BY <2>2, <3>1, <3>2, LayoutAssumption DEF ColumnsBegun
    <3>4. Written' = Written + 1
      <4>1. Written' = ((g + 1) - 1) * NumCols + 0
        BY <2>2, <3>1 DEF Written
      <4>2. (g + 1) - 1 = g
        BY <1>4
      <4>3. g * NumCols + 0 = g * NumCols
        BY <1>4
      <4>4. QED
        BY <1>12, <2>2, <4>1, <4>2, <4>3
    <3>5. QED
      BY <1>1, <1>13, <3>3, <3>4 DEF MetaBegun
  <2>3. QED
    BY <1>7, <2>1, <2>2
<1>15. last => ColumnsEnded' /\ MetaEnded'
  <2> SUFFICES ASSUME last PROVE ColumnsEnded' /\ MetaEnded'
    OBVIOUS
  <2>1. Len(cols') = g
    BY <1>4, <1>7
  <2>2. ColumnsEnded'
    BY <1>4, <1>10, <1>11, <2>1 DEF ColumnsEnded
  <2>3. Written + 1 = NumGroups * NumCols
    BY <1>4, <1>12
  <2>4. QED
    BY <1>1, <1>13, <2>2, <2>3 DEF MetaEnded
<1>16. PhaseInv'
  BY <1>1, <1>3, <1>5, <1>14, <1>15 DEF PhaseInv
<1>17. QED
  BY <1>5, <1>9, <1>16 DEF WriteInv
LEMMA LayoutFooter ==
  ASSUME WriteInv, NEW size \in FooterSizes, WriteFooter(size)
  PROVE  WriteInv'
<1>1. /\ pc = "footer" /\ pc' = "postscript" /\ Put("footer", << >>, size)
      /\ ps' = [metadata_size |-> (pos' - metaAt) % U32, footer_size |-> size % U32,
                data_checksum |-> summed']
      /\ UNCHANGED <<dicts, metaAt, cols>>
  BY DEF WriteFooter, MetadataSize
<1>2. /\ SectionInv /\ Len(file) = Len(summed) /\ << >> \in Seq(Nat) /\ size \in Nat \ {0}
      /\ metaAt \in Nat /\ Len(dicts) = NumDicts /\ ColumnsEnded /\ MetaEnded
  BY <1>1, SizesAre DEF WriteInv, PhaseInv, Writing, TablesInv
<1>3. /\ Grows /\ SectionInv' /\ Len(file') = Len(summed') /\ pos \in Nat /\ pos' = pos + size
      /\ Len(summed') = Len(summed) + 1
      /\ file'[Len(summed')].at = pos /\ file'[Len(summed')].size = size
      /\ file'[Len(summed')].kind = "footer"
  BY <1>1, <1>2, PutGrows DEF DataKinds
<1>4. TablesInv'
  BY <1>1, <1>3, TablesKept DEF WriteInv
<1>5. (pos' - metaAt) % U32 = pos' - metaAt /\ size % U32 = size
  <2>1. PICK s \in Sizes : pos - metaAt <= NumGroups * NumCols * s
    BY <1>2 DEF MetaEnded
  <2>2. NumGroups * NumCols * s + size < U32 /\ U32 \in Nat
    BY MetadataAssumption
  <2>3. NumGroups * NumCols * s \in Nat
    <3>1. NumGroups \in Nat /\ NumCols \in Nat /\ s \in Nat
      BY LayoutAssumption, SizesAre
    <3>2. NumGroups * NumCols \in Nat
      BY <3>1
    <3>3. QED
      BY <3>1, <3>2
  <2>4. PICK d \in Nat : d = NumGroups * NumCols * s
    BY <2>3
  <2>5. pos' - metaAt \in Nat /\ pos' - metaAt < U32 /\ size < U32
    BY <1>2, <1>3, <2>1, <2>2, <2>4 DEF MetaEnded
  <2>6. QED
    BY <1>2, <2>2, <2>5
<1>6. /\ ps'.metadata_size = pos' - metaAt /\ ps'.footer_size = size
      /\ ps'.data_checksum = summed'
  BY <1>1, <1>5
<1>7. Len(file') - Len(summed') = 0 /\ Len(summed') >= 1 /\ Len(file') = Len(summed') + 0
  BY <1>3 DEF Grows
<1>8. pos + size + 0 = pos + size /\ metaAt < pos
  BY <1>2, <1>3 DEF MetaEnded
<1>9. ColumnsEnded'
  BY <1>1, <1>2 DEF ColumnsEnded
<1>10. Tailed(0)'
  BY <1>1, <1>2, <1>3, <1>6, <1>7, <1>8, <1>9, FieldsAre DEF Tailed, Footer
<1>11. PhaseInv'
  BY <1>1, <1>7, <1>10, FieldsAre DEF PhaseInv
<1>12. QED
  BY <1>3, <1>4, <1>11 DEF WriteInv

(* How many sections of f are fields of the postscript when the first m    *)
(* are covered by the checksum, n fields follow and then a torn section.   *)
LEMMA CountFields ==
  ASSUME NEW f \in Seq(Sections), NEW m \in Nat, NEW n \in 0 .. 9, m + n <= Len(f),
         \A i \in 1 .. m : f[i].kind \in DataKinds,
         \A k \in 1 .. n : f[m + k].kind = PSFields[k][1],
         \A i \in m + n + 1 .. Len(f) : f[i].kind = "torn"
  PROVE  Cardinality({i \in DOMAIN f : f[i].kind \in PSKinds}) = n
<1>1. DOMAIN f = 1 .. Len(f) /\ Len(f) \in Nat
  OBVIOUS
<1>2. ASSUME NEW i \in 1 .. Len(f)
      PROVE  f[i].kind \in PSKinds <=> i \in m + 1 .. m + n
  <2>1. CASE i \in 1 .. m
    BY <2>1, KindsApart
  <2>2. CASE i \in m + 1 .. m + n
    <3>1. i - m \in 1 .. n /\ m + (i - m) = i /\ i - m \in 1 .. 9
      BY <2>2
    <3>2. f[i].kind = PSFields[i - m][1]
      BY <3>1
    <3>3. QED
      BY <2>2, <3>1, <3>2, KindsApart
  <2>3. CASE i \in m + n + 1 .. Len(f)
    BY <2>3, KindsApart
  <2>4. QED
    BY <1>1, <2>1, <2>2, <2>3
<1>3. {i \in DOMAIN f : f[i].kind \in PSKinds} = m + 1 .. m + n
  BY <1>1, <1>2
<1>4. Cardinality(m + 1 .. m + n) = n
  <2>1. m + 1 \in Int /\ m + n \in Int
    OBVIOUS
  <2>2. Cardinality(m + 1 .. m + n) =
          IF m + 1 > m + n THEN 0 ELSE (m + n) - (m + 1) + 1
    BY <2>1, FS_Interval
  <2>3. QED
    BY <2>2
<1>5. QED
  BY <1>3, <1>4

(* A file with n fields of the postscript.                                 *)
LEMMA TailIs ==
  ASSUME SectionInv, NEW n \in 0 .. 9, Tailed(n)
  PROVE  /\ Len(file) = Len(summed) + n /\ Len(summed) \in Nat /\ Len(summed) >= 1
         /\ Len(summed) \in 1 .. Len(file)
         /\ Footer \in Sections /\ Footer.at \in Nat /\ Footer.size \in Nat \ {0}
         /\ pos = Footer.at + Footer.size + PSEnd(n)
<1>1. Len(file) = Len(summed) + n /\ Len(summed) >= 1 /\ pos = Footer.at + Footer.size + PSEnd(n)
  BY DEF Tailed
<1>2. Len(summed) \in Nat /\ file \in Seq(Sections)
  BY DEF SectionInv
<1>3. Len(summed) \in 1 .. Len(file)
  BY <1>1, <1>2
<1>4. Footer \in Sections
  BY <1>2, <1>3 DEF Footer
<1>5. Footer.at \in Nat /\ Footer.size \in Nat \ {0}
  BY <1>4 DEF Sections
<1>6. QED
  BY <1>1, <1>2, <1>3, <1>4, <1>5

LEMMA TailedFields ==
  ASSUME SectionInv, NEW n \in 0 .. 9, Tailed(n)
  PROVE  FieldsWritten = n /\ (Complete <=> n = 9)
<1>1. /\ file \in Seq(Sections) /\ Len(file) = Len(summed) + n
      /\ Len(summed) \in Nat /\ Len(summed) >= 1
  BY TailIs DEF SectionInv
<1>2. \A i \in 1 .. Len(summed) : file[i].kind \in DataKinds
  BY DEF SectionInv, SummedInv
<1>3. \A k \in 1 .. n : file[Len(summed) + k].kind = PSFields[k][1]
  BY DEF Tailed
<1>4. Len(summed) + n <= Len(file) /\ Len(summed) + n + 1 .. Len(file) = {}
  BY <1>1
<1>5. FieldsWritten = n
  BY <1>1, <1>2, <1>3, <1>4, CountFields DEF FieldsWritten
<1>6. file # << >>
  BY <1>1
<1>7. QED
  BY <1>5, <1>6, FieldsAre DEF Complete

(* One more field is written; m stands for Len(summed).                    *)
LEMMA FieldAppended ==
  ASSUME SectionInv, TablesInv, NEW n \in 0 .. 8, NEW k \in 1 .. 9, k = n + 1,
         NEW m \in Nat, m = Len(summed), Tailed(n),
         Append1(PSFields[k][1], << >>, PSFields[k][2]),
         UNCHANGED <<summed, dicts, metaAt, cols, ps>>
  PROVE  SectionInv' /\ TablesInv' /\ Tailed(k)' /\ Len(file') - Len(summed') = k
<1>1. /\ Len(file) = m + n /\ m >= 1 /\ Footer.at \in Nat /\ Footer.size \in Nat
      /\ pos = Footer.at + Footer.size + PSEnd(n) /\ n \in 0 .. 9
  BY TailIs
<1>2. /\ PSFields[k][2] \in Nat \ {0} /\ PSEnd(k) = PSEnd(k - 1) + PSFields[k][2]
  BY FieldsAre
<1>3. PSFields[k][1] \in PSKinds
  BY KindsApart
<1>4. PSFields[k][1] \in Kinds /\ << >> \in Seq(Nat) /\ k - 1 = n
  BY <1>3 DEF Kinds
<1>5. /\ file' \in Seq(Sections) /\ pos' \in Nat /\ pos' = pos + PSFields[k][2] /\ OrderInv'
      /\ Len(file') = Len(file) + 1 /\ \A i \in 1 .. Len(file) : file'[i] = file[i]
      /\ file'[Len(file) + 1].kind = PSFields[k][1]
  BY <1>2, <1>4, Append1Is
<1>6. /\ Len(file') = m + k /\ Len(file) + 1 = m + k /\ m <= Len(file)
      /\ m \in 1 .. m /\ Len(file') - m = k
      /\ \A i \in 1 .. m : file'[i] = file[i]
  <2>1. PICK l \in Nat : l = Len(file) /\ l = m + n
    BY <1>1
  <2>2. l + 1 = m + k /\ m <= l /\ m \in 1 .. m /\ (l + 1) - m = k /\ 1 .. m \subseteq 1 .. l
    BY <1>1, <2>1
  <2>3. Len(file') = l + 1 /\ \A i \in 1 .. l : file'[i] = file[i]
    BY <1>5, <2>1
  <2>4. QED
    BY <2>1, <2>2, <2>3
<1>7. SectionInv'
  <2>1. summed \in Seq(Kinds \X Seq(Nat)) /\ SummedInv
    BY DEF SectionInv
  <2>2. SummedInv'
    <3>1. Len(summed') <= Len(file')
      BY <1>1, <1>6
    <3>2. \A i \in 1 .. m : /\ summed[i] = <<file[i].kind, file[i].id>>
                           /\ file[i].kind \in DataKinds
      BY <2>1 DEF SummedInv
    <3>3. QED
      BY <1>6, <3>1, <3>2 DEF SummedInv
  <2>3. QED
    BY <1>5, <2>1, <2>2 DEF SectionInv
<1>8. Grows
  BY <1>6 DEF Grows
<1>9. TablesInv'
  BY <1>8, TablesKept
<1>10. Footer' = Footer
  BY <1>6 DEF Footer
<1>11. ASSUME NEW j \in 1 .. k
       PROVE  file'[m + j].kind = PSFields[j][1]
  <2>1. CASE j = k
    BY <1>5, <1>6, <2>1
  <2>2. CASE j # k
    <3>1. j \in 1 .. n /\ m + j \in 1 .. Len(file)
      BY <1>1, <2>2
    <3>2. file[m + j].kind = PSFields[j][1]
      BY <3>1 DEF Tailed
    <3>3. QED
      BY <1>5, <3>1, <3>2
  <2>3. QED
    BY <2>1, <2>2
<1>12. pos' = Footer.at + Footer.size + PSEnd(k)
  <2>1. PSEnd(n) \in Nat
    BY <1>1, EndsAre
  <2>2. PSEnd(k) = PSEnd(n) + PSFields[k][2]
    BY <1>2, <1>4
  <2>3. PICK a \in Nat, b \in Nat : a = PSEnd(n) /\ b = PSFields[k][2]
    BY <1>2, <2>1
  <2>4. pos' = Footer.at + Footer.size + a + b
    BY <1>1, <1>5, <2>3
  <2>5. PICK x \in Nat : x = Footer.at + Footer.size
    BY <1>1
  <2>6. pos' = x + (a + b)
    BY <2>4, <2>5
  <2>7. PSEnd(k) = a + b
    BY <2>2, <2>3
  <2>8. QED
    BY <2>5, <2>6, <2>7
<1>13. ColumnsEnded'
  BY DEF Tailed, ColumnsEnded
<1>14. /\ Footer.kind = "footer" /\ ps.footer_size = Footer.size /\ ps.data_checksum = summed
       /\ ps.metadata_size = Footer.at + Footer.size - metaAt /\ metaAt < Footer.at
       /\ Len(dicts) = NumDicts
  BY DEF Tailed
<1>15. /\ Footer'.kind = "footer" /\ ps'.footer_size = Footer'.size
       /\ ps'.data_checksum = summed' /\ Len(dicts') = NumDicts
       /\ ps'.metadata_size = Footer'.at + Footer'.size - metaAt' /\ metaAt' < Footer'.at
       /\ pos' = Footer'.at + Footer'.size + PSEnd(k)
  BY <1>10, <1>12, <1>14
<1>16. Tailed(k)'
  <2>1. /\ Len(file') = Len(summed') + k /\ Len(summed') >= 1
        /\ \A j \in 1 .. k : file'[Len(summed') + j].kind = PSFields[j][1]
    BY <1>1, <1>6, <1>11
  <2>2. QED
    BY <1>13, <1>15, <2>1 DEF Tailed
<1>17. QED
  BY <1>6, <1>7, <1>9, <1>16

LEMMA LayoutPostscript ==
  ASSUME WriteInv, WritePostscriptField
  PROVE  WriteInv' /\ (pc' = "written" => Whole') /\ pc' \in {"postscript", "written"}
<1>1. /\ pc = "postscript" /\ SectionInv /\ TablesInv
      /\ Tailed(Len(file) - Len(summed)) /\ Len(file) - Len(summed) < 9
  BY FieldsAre DEF WritePostscriptField, WriteInv, PhaseInv
<1>2. PICK m \in Nat : m = Len(summed)
  BY <1>1 DEF SectionInv
<1>3. PICK n \in 0 .. 8 : n = Len(file) - Len(summed)
  <2>1. Len(file) \in Nat /\ Len(summed) \in Nat /\ Len(summed) <= Len(file)
    BY <1>1 DEF SectionInv, SummedInv
  <2>2. QED
    BY <1>1, <2>1
<1>4. PICK k \in 1 .. 9 : k = n + 1
  OBVIOUS
<1>5. Tailed(n) /\ n \in 0 .. 9
  BY <1>1, <1>3
<1>6. FieldsWritten = n
  BY <1>1, <1>5, TailedFields
<1>7. /\ Append1(PSFields[k][1], << >>, PSFields[k][2])
      /\ pc' = (IF k = 9 THEN "written" ELSE "postscript")
      /\ UNCHANGED <<summed, dicts, metaAt, cols, ps>>
  BY <1>1, <1>4, <1>6, FieldsAre DEF WritePostscriptField
<1>8. SectionInv' /\ TablesInv' /\ Tailed(k)' /\ Len(file') - Len(summed') = k
  BY <1>1, <1>2, <1>4, <1>5, <1>7, FieldAppended
<1>9. pc' = "written" => Whole'
  BY <1>7, <1>8, FieldsAre DEF Whole
<1>10. pc' = "postscript" => Tailed(Len(file) - Len(summed))' /\ k < 9
  BY <1>7, <1>8
<1>11. PhaseInv'
  BY <1>7, <1>8, <1>10, FieldsAre DEF PhaseInv, Writing
<1>12. QED
  BY <1>7, <1>8, <1>9, <1>11 DEF WriteInv

(* With fewer than all fields, MAGIC is not the last section.              *)
LEMMA NoMagic ==
  ASSUME NEW f \in Seq(Sections), NEW m \in Nat, NEW n \in 0 .. 8, m + n <= Len(f),
         \A i \in 1 .. m : f[i].kind \in DataKinds,
         \A k \in 1 .. n : f[m + k].kind = PSFields[k][1],
         \A i \in m + n + 1 .. Len(f) : f[i].kind = "torn"
  PROVE  f # << >> => f[Len(f)].kind # "magic"
<1> SUFFICES ASSUME f # << >>
             PROVE  f[Len(f)].kind # "magic"
  OBVIOUS
<1>1. PICK l \in Nat : l = Len(f) /\ l >= 1
  OBVIOUS
<1>2. CASE l \in 1 .. m
  BY <1>1, <1>2, KindsApart
<1>3. CASE l = m + n /\ n >= 1
  <2>1. n \in 1 .. n /\ n \in 1 .. 9 /\ n # 9
    BY <1>3
  <2>2. PSFields[n][1] # "magic"
    BY <2>1, FieldsAre
  <2>3. f[m + n].kind = PSFields[n][1]
    BY <2>1
  <2>4. QED
    BY <1>1, <1>3, <2>2, <2>3
<1>4. CASE l \in m + n + 1 .. Len(f)
  BY <1>1, <1>4
<1>5. QED
  BY <1>1, <1>2, <1>3, <1>4

(* What has been written of the file before the last field of the          *)
(* postscript is there.                                                    *)
LEMMA Unfinished ==
  ASSUME WriteInv, pc \in Writing
  PROVE  \E n \in 0 .. 8 : /\ Len(file) = Len(summed) + n
                           /\ \A k \in 1 .. n : file[Len(summed) + k].kind = PSFields[k][1]
<1>1. Len(file) \in Nat /\ Len(summed) \in Nat /\ Len(summed) <= Len(file)
  BY DEF WriteInv, SectionInv, SummedInv
<1>2. CASE pc # "postscript"
  <2>1. Len(file) = Len(summed)
    BY <1>2 DEF WriteInv, PhaseInv, Writing
  <2>2. Len(file) = Len(summed) + 0 /\ 0 \in 0 .. 8 /\ 1 .. 0 = {}
    BY <1>1, <2>1
  <2>3. QED
    BY <2>2
<1>3. CASE pc = "postscript"
  <2>1. Tailed(Len(file) - Len(summed)) /\ Len(file) - Len(summed) < 9
    BY <1>3, FieldsAre DEF WriteInv, PhaseInv
  <2>2. PICK n \in 0 .. 8 : n = Len(file) - Len(summed)
    BY <1>1, <2>1
  <2>3. Tailed(n)
    BY <2>1, <2>2
  <2>4. /\ Len(file) = Len(summed) + n
        /\ \A k \in 1 .. n : file[Len(summed) + k].kind = PSFields[k][1]
    BY <2>3 DEF Tailed
  <2>5. QED
    BY <2>4
<1>4. QED
  BY <1>2, <1>3

LEMMA LayoutTear ==
  ASSUME WriteInv, Tear
  PROVE  WriteInv' /\ Torn' /\ pc' = "torn"
<1>1. /\ SectionInv /\ TablesInv /\ pc \in Writing /\ pc' = "torn"
      /\ UNCHANGED <<summed, dicts, metaAt, cols>>
  BY DEF WriteInv, Tear
<1>2. PICK n \in 0 .. 8 : /\ Len(file) = Len(summed) + n
                          /\ \A k \in 1 .. n : file[Len(summed) + k].kind = PSFields[k][1]
  BY <1>1, Unfinished
<1>3. PICK m \in Nat : m = Len(summed)
  BY <1>1 DEF SectionInv
<1>4. /\ file' \in Seq(Sections) /\ pos' \in Nat /\ OrderInv' /\ m + n <= Len(file')
      /\ \A i \in 1 .. m + n : file'[i] = file[i]
      /\ \A i \in m + n + 1 .. Len(file') : file'[i].kind = "torn"
  <2>1. CASE UNCHANGED <<file, pos>>
    <3>1. /\ file \in Seq(Sections) /\ pos \in Nat /\ OrderInv
      BY <1>1 DEF SectionInv
    <3>2. OrderInv'
      BY <2>1, <3>1 DEF OrderInv
    <3>3. m + n + 1 .. Len(file') = {} /\ m + n <= Len(file')
      BY <1>2, <1>3, <2>1
    <3>4. QED
      BY <2>1, <3>1, <3>2, <3>3
  <2>2. CASE Append1("torn", << >>, 1)
    <3>1. "torn" \in Kinds /\ << >> \in Seq(Nat) /\ 1 \in Nat \ {0}
      BY DEF Kinds
    <3>2. /\ file' \in Seq(Sections) /\ pos' \in Nat /\ OrderInv'
          /\ Len(file') = Len(file) + 1 /\ \A i \in 1 .. Len(file) : file'[i] = file[i]
          /\ file'[Len(file) + 1].kind = "torn"
      BY <1>1, <2>2, <3>1, Append1Is
    <3>3. m + n + 1 .. Len(file') = {m + n + 1} /\ m + n <= Len(file')
      BY <1>2, <1>3, <3>2
    <3>4. QED
      BY <1>2, <1>3, <3>2, <3>3
  <2>3. QED
    BY <2>1, <2>2 DEF Tear
<1>5. \A i \in 1 .. m : file'[i] = file[i]
  BY <1>4
<1>6. SectionInv'
  <2>1. summed \in Seq(Kinds \X Seq(Nat)) /\ SummedInv
    BY <1>1 DEF SectionInv
  <2>2. SummedInv'
    <3>1. Len(summed') <= Len(file')
      BY <1>1, <1>3, <1>4
    <3>2. \A i \in 1 .. m : /\ summed[i] = <<file[i].kind, file[i].id>>
                           /\ file[i].kind \in DataKinds
      BY <1>3, <2>1 DEF SummedInv
    <3>3. QED
      BY <1>1, <1>3, <1>5, <3>1, <3>2 DEF SummedInv
  <2>3. QED
    BY <1>1, <1>4, <2>1, <2>2 DEF SectionInv
<1>7. TablesInv'
  <2>1. Grows
    BY <1>1, <1>3, <1>5 DEF Grows
  <2>2. QED
    BY <1>1, <2>1, TablesKept
<1>8. PhaseInv'
  BY <1>1 DEF PhaseInv, Writing
<1>9. /\ \A i \in 1 .. m : file'[i].kind \in DataKinds
      /\ \A k \in 1 .. n : file'[m + k].kind = PSFields[k][1]
  <2>1. \A i \in 1 .. m : file[i].kind \in DataKinds
    BY <1>1, <1>3 DEF SectionInv, SummedInv
  <2>2. ASSUME NEW k \in 1 .. n
        PROVE  file'[m + k].kind = PSFields[k][1]
    <3>1. m + k \in 1 .. m + n
      OBVIOUS
    <3>2. file[m + k].kind = PSFields[k][1]
      BY <1>2, <1>3
    <3>3. QED
      BY <1>4, <3>1, <3>2
  <2>3. QED
    BY <1>5, <2>1, <2>2
<1>10. Torn'
  <2>1. n \in 0 .. 9 /\ n # 9
    OBVIOUS
  <2>2. FieldsWritten' = n
    BY <1>4, <1>9, <2>1, CountFields DEF FieldsWritten
  <2>3. file' # << >> => file'[Len(file')].kind # "magic"
    BY <1>4, <1>9, NoMagic
  <2>4. QED
    BY <2>1, <2>2, <2>3, FieldsAre DEF Torn, Complete
<1>11. QED
  BY <1>1, <1>6, <1>7, <1>8, <1>10 DEF WriteInv
-----------------------------------------------------------------------------
(* The first state, and what the writer's steps mean for the reader.       *)
LEMMA LayoutInit == Init => LayoutInv
<1> SUFFICES ASSUME Init
             PROVE  LayoutInv
  OBVIOUS
<1>1. PICK d \in DataSizes :
        /\ pos = d
        /\ file = IF d = 0 THEN << >>
                  ELSE << [kind |-> "data", id |-> << >>, at |-> 0, size |-> d] >>
        /\ summed = IF d = 0 THEN << >> ELSE << <<"data", << >> >> >>
  BY DEF Init
<1>2. d \in Nat
  BY LayoutAssumption
<1>3. /\ pc = "dicts" /\ dicts = << >> /\ cols = << << >> >> /\ metaAt = 0 /\ bad = {}
      /\ rd = NoReader /\ got = Nothing
  BY DEF Init
<1>4. SectionInv /\ Len(file) = Len(summed)
  <2>1. CASE d = 0
    BY <1>1, <2>1 DEF SectionInv, OrderInv, SummedInv
  <2>2. CASE d # 0
    <3> DEFINE sec == [kind |-> "data", id |-> << >>, at |-> 0, size |-> d]
    <3>0. "data" \in Kinds /\ "data" \in DataKinds /\ << >> \in Seq(Nat) /\ 0 \in Nat
      BY DEF Kinds, DataKinds
    <3>1. /\ sec \in Sections /\ sec.at = 0 /\ sec.size = d /\ sec.kind = "data"
          /\ sec.id = << >> /\ sec.kind \in DataKinds
      BY <1>2, <2>2, <3>0 DEF Sections
    <3>2. file = <<sec>> /\ summed = << <<"data", << >> >> >> /\ pos = d
      BY <1>1, <2>2
    <3> HIDE DEF sec
    <3>3. file \in Seq(Sections) /\ Len(file) = 1 /\ file[1] = sec /\ file # << >>
      BY <3>1, <3>2
    <3>4. <<"data", << >> >> \in Kinds \X Seq(Nat)
      BY <3>0
    <3>5. /\ summed \in Seq(Kinds \X Seq(Nat)) /\ Len(summed) = 1
          /\ summed[1] = <<"data", << >> >>
      BY <3>2, <3>4
    <3>6. OrderInv
      BY <1>2, <3>1, <3>2, <3>3 DEF OrderInv
    <3>7. SummedInv
      BY <3>1, <3>3, <3>5 DEF SummedInv
    <3>8. QED
      BY <1>2, <3>2, <3>3, <3>5, <3>6, <3>7 DEF SectionInv
  <2>3. QED
    BY <2>1, <2>2
<1>5. TablesInv
  <2>1. << >> \in Seq(Locs) /\ Len(cols) = 1 /\ cols[1] = << >> /\ cols \in Seq(Seq(Locs))
    BY <1>3
  <2>2. 1 .. Len(dicts) = {} /\ \A g \in 1 .. Len(cols) : 1 .. Len(cols[g]) = {}
    BY <1>3, <2>1
  <2>3. QED
    BY <1>3, <2>1, <2>2 DEF TablesInv
<1>6. PhaseInv
  BY <1>3, <1>4 DEF PhaseInv
<1>7. ReadInv
  BY <1>3 DEF ReadInv, NoReader, Nothing, Writing, Reading, NoFalseAlarm, PanicsOnlyPastWindow
<1>8. QED
  BY <1>4, <1>5, <1>6, <1>7 DEF LayoutInv, WriteInv

LEMMA ReaderWaits ==
  ASSUME ReadInv, pc \in Writing, UNCHANGED <<bad, rd, got>>,
         \/ pc' \in Writing
         \/ pc' = "written" /\ Whole'
         \/ pc' = "torn" /\ Torn'
  PROVE  ReadInv'
<1>1. bad' = {} /\ rd'.proj \in Seq(Columns) /\ DOMAIN got' = {"footer", "cols", "dicts"}
  BY DEF ReadInv
<1>2. pc' \in Writing \/ pc' = "written" \/ pc' = "torn"
  OBVIOUS
<1>3. /\ pc' \notin {"refused", "panicked", "verifyChecksum", "readPostscript"} \union Reading
      /\ (pc' = "torn" => Torn') /\ (pc' = "written" => Whole')
  BY <1>2 DEF Writing, Reading
<1>4. QED
  BY <1>1, <1>2, <1>3 DEF ReadInv, Reading, NoFalseAlarm, PanicsOnlyPastWindow

(* Every step that writes.                                                 *)
LEMMA LayoutWrites ==
  ASSUME LayoutInv,
         \/ \E size \in Sizes : \/ WriteDictChunk(size) \/ WriteWasm(size)
                                \/ WriteWasmSection(size) \/ WriteColumnMeta(size)
         \/ \E size \in FooterSizes : WriteFooter(size)
         \/ DictsWritten \/ WritePostscriptField \/ Tear
  PROVE  LayoutInv'
<1>1. WriteInv /\ ReadInv
  BY DEF LayoutInv
<1>2. CASE \E size \in Sizes : WriteDictChunk(size)
  <2>1. WriteInv' /\ pc' = "dicts" /\ pc = "dicts" /\ UNCHANGED <<bad, rd, got>>
    BY <1>1, <1>2, LayoutDict DEF WriteDictChunk
  <2>2. QED
    BY <1>1, <2>1, ReaderWaits DEF LayoutInv, Writing
<1>3. CASE \E size \in Sizes : WriteWasm(size)
  <2>1. WriteInv' /\ pc' = "wasms" /\ pc = "wasms" /\ UNCHANGED <<bad, rd, got>>
    BY <1>1, <1>3, LayoutWasm DEF WriteWasm
  <2>2. QED
    BY <1>1, <2>1, ReaderWaits DEF LayoutInv, Writing
<1>4. CASE \E size \in Sizes : WriteWasmSection(size)
  <2>1. WriteInv' /\ pc' = "columns" /\ pc = "wasms" /\ UNCHANGED <<bad, rd, got>>
    BY <1>1, <1>4, LayoutWasmSection DEF WriteWasmSection
  <2>2. QED
    BY <1>1, <2>1, ReaderWaits DEF LayoutInv, Writing
<1>5. CASE \E size \in Sizes : WriteColumnMeta(size)
  <2>1. pc' \in {"columns", "footer"} /\ pc = "columns" /\ UNCHANGED <<bad, rd, got>>
    BY <1>5 DEF WriteColumnMeta
  <2>2. WriteInv'
    BY <1>1, <1>5, LayoutColumn
  <2>3. QED
    BY <1>1, <2>1, <2>2, ReaderWaits DEF LayoutInv, Writing
<1>6. CASE \E size \in FooterSizes : WriteFooter(size)
  <2>1. pc' = "postscript" /\ pc = "footer" /\ UNCHANGED <<bad, rd, got>>
    BY <1>6 DEF WriteFooter
  <2>2. WriteInv'
    BY <1>1, <1>6, LayoutFooter
  <2>3. QED
    BY <1>1, <2>1, <2>2, ReaderWaits DEF LayoutInv, Writing
<1>7. CASE DictsWritten
  <2>1. WriteInv' /\ pc' = "wasms" /\ pc = "dicts" /\ UNCHANGED <<bad, rd, got>>
    BY <1>1, <1>7, LayoutDictsWritten DEF DictsWritten
  <2>2. QED
    BY <1>1, <2>1, ReaderWaits DEF LayoutInv, Writing
<1>8. CASE WritePostscriptField
  <2>1. pc = "postscript" /\ UNCHANGED <<bad, rd, got>>
    BY <1>8 DEF WritePostscriptField
  <2>2. WriteInv' /\ (pc' = "written" => Whole') /\ pc' \in {"postscript", "written"}
    BY <1>1, <1>8, LayoutPostscript
  <2>3. QED
    BY <1>1, <2>1, <2>2, ReaderWaits DEF LayoutInv, Writing
<1>9. CASE Tear
  <2>1. pc \in Writing /\ UNCHANGED <<bad, rd, got>>
    BY <1>9 DEF Tear
  <2>2. WriteInv' /\ Torn' /\ pc' = "torn"
    BY <1>1, <1>9, LayoutTear
  <2>3. QED
    BY <1>1, <2>1, <2>2, ReaderWaits DEF LayoutInv
<1>10. QED
  BY <1>2, <1>3, <1>4, <1>5, <1>6, <1>7, <1>8, <1>9
-----------------------------------------------------------------------------
(* Reading.  The file stays as it is.                                      *)
LEMMA FileStays ==
  ASSUME UNCHANGED writeVars
  PROVE  /\ Whole' = Whole /\ Torn' = Torn /\ Complete' = Complete
         /\ WriteInv /\ pc' \notin Writing => WriteInv'
<1>1. UNCHANGED <<file, pos, summed, dicts, metaAt, cols, ps>>
  BY DEF writeVars
<1>2. Footer' = Footer /\ ColumnsEnded' = ColumnsEnded
  BY <1>1 DEF Footer, ColumnsEnded
<1>3. Whole' = Whole
  BY <1>1, <1>2 DEF Whole, Tailed
<1>4. Complete' = Complete
  BY <1>1 DEF Complete, FieldsWritten
<1>5. Torn' = Torn
  BY <1>1, <1>4 DEF Torn
<1>6. SectionInv' = SectionInv
  BY <1>1 DEF SectionInv, OrderInv, SummedInv
<1>7. TablesInv' = TablesInv
  BY <1>1 DEF TablesInv, IsSection
<1>8. pc' \notin Writing => PhaseInv'
  BY DEF PhaseInv, Writing
<1>9. QED
  BY <1>3, <1>4, <1>5, <1>6, <1>7, <1>8 DEF WriteInv

(* A file that finish() has written.                                       *)
LEMMA WholeIs ==
  ASSUME SectionInv, Whole
  PROVE  /\ Len(file) = Len(summed) + 9 /\ Len(summed) \in 1 .. Len(file)
         /\ Len(summed) \in Nat /\ PS \in Nat
         /\ Footer.at \in Nat /\ Footer.size \in Nat \ {0} /\ Footer.kind = "footer"
         /\ pos = Footer.at + Footer.size + PS /\ pos \in Nat /\ PS <= pos
         /\ Complete /\ file[Len(file)].kind = "magic"
         /\ ps.footer_size = Footer.size /\ ps.data_checksum = summed
         /\ ps.metadata_size = Footer.at + Footer.size - metaAt /\ metaAt < Footer.at
<1>1. Tailed(9) /\ 9 \in 0 .. 9
  BY FieldsAre DEF Whole
<1>2. /\ Len(file) = Len(summed) + 9 /\ Len(summed) \in 1 .. Len(file) /\ Len(summed) \in Nat
      /\ Footer.at \in Nat /\ Footer.size \in Nat \ {0}
      /\ pos = Footer.at + Footer.size + PSEnd(9)
  BY <1>1, TailIs
<1>3. pos = Footer.at + Footer.size + PS /\ PS \in Nat
  BY <1>2, FieldsAre DEF PS
<1>4. pos \in Nat /\ PS <= pos
  BY <1>2, <1>3
<1>5. Complete
  BY <1>1, TailedFields
<1>6. file[Len(file)].kind = "magic"
  <2>1. 9 \in 1 .. 9
    OBVIOUS
  <2>2. PSFields[9][1] = "magic"
    BY <2>1, FieldsAre
  <2>3. file[Len(summed) + 9].kind = PSFields[9][1]
    BY <1>1, <2>1 DEF Tailed
  <2>4. QED
    BY <1>2, <2>2, <2>3
<1>7. /\ ps.footer_size = Footer.size /\ ps.data_checksum = summed /\ Footer.kind = "footer"
      /\ ps.metadata_size = Footer.at + Footer.size - metaAt /\ metaAt < Footer.at
  BY <1>1 DEF Tailed
<1>8. QED
  BY <1>2, <1>3, <1>4, <1>5, <1>6, <1>7

(* A section in front of the postscript ends where the footer ends or      *)
(* before it begins, a field of the postscript begins behind it.           *)
LEMMA SectionEnds ==
  ASSUME SectionInv, Whole, NEW i \in 1 .. Len(file)
  PROVE  /\ file[i].at \in Nat /\ file[i].size \in Nat \ {0}
         /\ i <= Len(summed) /\ file[i].kind # "footer" => file[i].at + file[i].size <= Footer.at
         /\ i <= Len(summed) => file[i].at < Footer.at + Footer.size
         /\ i > Len(summed) => /\ file[i].at >= Footer.at + Footer.size
                               /\ file[i].kind \in PSKinds
<1>1. /\ Len(file) = Len(summed) + 9 /\ Len(summed) \in 1 .. Len(file) /\ Len(summed) \in Nat
      /\ Footer.at \in Nat /\ Footer.size \in Nat \ {0} /\ Footer.kind = "footer"
  BY WholeIs
<1>2. file[i].at \in Nat /\ file[i].size \in Nat \ {0}
  <2>1. file[i] \in Sections
    BY DEF SectionInv
  <2>2. QED
    BY <2>1 DEF Sections
<1>3. /\ i < Len(summed) => file[i].at + file[i].size <= Footer.at
      /\ Len(summed) < i => Footer.at + Footer.size <= file[i].at
  BY <1>1 DEF SectionInv, OrderInv, Footer
<1>4. i = Len(summed) => file[i].kind = "footer" /\ file[i].at = Footer.at
  BY <1>1 DEF Footer
<1>5. ASSUME i > Len(summed)
      PROVE  file[i].kind \in PSKinds
  <2>1. PICK k \in 1 .. 9 : i = Len(summed) + k
    <3>1. i - Len(summed) \in 1 .. 9 /\ i = Len(summed) + (i - Len(summed))
      BY <1>1, <1>5
    <3>2. QED
      BY <3>1
  <2>2. file[i].kind = PSFields[k][1]
    BY <2>1, FieldsAre DEF Whole, Tailed
  <2>3. QED
    BY <2>2, KindsApart
<1>6. QED
  BY <1>1, <1>2, <1>3, <1>4, <1>5

(* A change on storage, and the call of build().                           *)
LEMMA ReadsCorrupt ==
  ASSUME LayoutInv, Corrupt
  PROVE  LayoutInv'
<1>1. /\ WriteInv /\ ReadInv /\ SectionInv /\ Whole /\ pc = "written" /\ pc' = "written"
      /\ UNCHANGED writeVars /\ UNCHANGED <<rd, got>>
  BY DEF LayoutInv, WriteInv, ReadInv, Corrupt
<1>2. PICK i \in DOMAIN file : file[i].kind \notin PSKinds /\ bad' = {i}
  BY DEF Corrupt
<1>3. i \in 1 .. Len(file) /\ Len(file) \in Nat /\ Len(summed) \in Nat
  BY <1>1 DEF SectionInv
<1>4. i \in 1 .. Len(summed)
  BY <1>1, <1>2, <1>3, SectionEnds
<1>5. Whole' /\ WriteInv'
  BY <1>1, FileStays DEF Writing
<1>6. bad' \subseteq 1 .. Len(summed')
  BY <1>1, <1>2, <1>4 DEF writeVars
<1>7. ReadInv'
  BY <1>1, <1>5, <1>6 DEF ReadInv, Writing, Reading, NoFalseAlarm, PanicsOnlyPastWindow
<1>8. QED
  BY <1>5, <1>7 DEF LayoutInv

LEMMA ReadsOpen ==
  ASSUME LayoutInv, NEW ahead \in BOOLEAN, NEW verify \in BOOLEAN, NEW proj \in Projections,
         Open(ahead, verify, proj)
  PROVE  LayoutInv'
<1>1. /\ WriteInv /\ ReadInv /\ pos \in Nat /\ pc \in {"written", "torn"}
      /\ UNCHANGED writeVars /\ UNCHANGED <<bad, got>> /\ rd'.proj = proj
  BY DEF LayoutInv, WriteInv, SectionInv, Open
<1>2. ReadAheadLen <= pos
  BY <1>1, LayoutAssumption DEF ReadAheadLen
<1>3. ~(ReadAheadLen > pos)
  BY <1>1, <1>2, LayoutAssumption DEF ReadAheadLen
<1>4. pc' = "readPostscript"
  BY <1>3 DEF Open
<1>5. WriteInv' /\ (Whole' \/ Torn')
  BY <1>1, <1>4, FileStays DEF Writing, ReadInv
<1>6. proj \in Seq(Columns) /\ summed' = summed
  BY <1>1, LayoutAssumption DEF writeVars
<1>7. ReadInv'
  BY <1>1, <1>4, <1>5, <1>6 DEF ReadInv, Writing, Reading, NoFalseAlarm, PanicsOnlyPastWindow
<1>8. QED
  BY <1>5, <1>7 DEF LayoutInv

(* read_postscript: a torn file does not end in MAGIC.                     *)
LEMMA ReadsPostscript ==
  ASSUME LayoutInv, ReadPostscript
  PROVE  LayoutInv'
<1>1. /\ WriteInv /\ ReadInv /\ SectionInv /\ pc = "readPostscript" /\ (Whole \/ Torn)
      /\ UNCHANGED writeVars /\ UNCHANGED <<bad, rd, got>>
  BY DEF LayoutInv, WriteInv, ReadInv, ReadPostscript
<1>2. bad' \subseteq 1 .. Len(summed') /\ rd'.proj \in Seq(Columns)
      /\ DOMAIN got' = {"footer", "cols", "dicts"}
  BY <1>1 DEF ReadInv, writeVars
<1>3. ASSUME Torn
      PROVE  pc' \in {"refused", "panicked"} /\ ~Complete' /\ Torn'
  <2>1. ~Complete' /\ Torn'
    BY <1>1, <1>3, FileStays DEF Torn
  <2>2. CASE pos < PS
    BY <2>1, <2>2 DEF ReadPostscript
  <2>3. CASE ~(pos < PS)
    <3>1. file # << >>
      BY <1>1, <2>3 DEF SectionInv, OrderInv, PS
    <3>2. file[Len(file)].kind # "magic"
      BY <1>3, <3>1 DEF Torn
    <3>3. QED
      BY <2>1, <2>3, <3>2 DEF ReadPostscript
  <2>4. QED
    BY <2>2, <2>3
<1>4. ASSUME Whole
      PROVE  Whole' /\ pc' = (IF rd.verify THEN "verifyChecksum" ELSE "readFooter")
  <2>1. ~(pos < PS) /\ file[Len(file)].kind = "magic"
    <3>1. PS <= pos /\ pos \in Nat /\ PS \in Nat /\ file[Len(file)].kind = "magic"
      BY <1>1, <1>4, WholeIs
    <3>2. QED
      BY <3>1
  <2>2. QED
    BY <1>1, <1>4, <2>1, FileStays DEF ReadPostscript
<1>5. WriteInv'
  BY <1>1, <1>3, <1>4, FileStays DEF Writing
<1>6. ReadInv'
  <2>1. CASE Torn
    BY <1>2, <1>3, <2>1 DEF ReadInv, Writing, Reading, NoFalseAlarm, PanicsOnlyPastWindow
  <2>2. CASE Whole
    BY <1>1, <1>2, <1>4, <2>2 DEF ReadInv, Writing, Reading, NoFalseAlarm, PanicsOnlyPastWindow
  <2>3. QED
    BY <1>1, <2>1, <2>2
<1>7. QED
  BY <1>5, <1>6 DEF LayoutInv

(* What the reader sums up is what the writer summed up, unless a section  *)
(* has changed.                                                            *)
LEMMA ComputedIs ==
  ASSUME SectionInv, Whole, bad \subseteq 1 .. Len(summed)
  PROVE  Computed = ps.data_checksum <=> bad = {}
<1>1. /\ Len(file) = Len(summed) + 9 /\ Len(summed) \in Nat
      /\ Footer.at \in Nat /\ Footer.size \in Nat \ {0} /\ PS \in Nat
      /\ pos = Footer.at + Footer.size + PS /\ ps.data_checksum = summed
  BY WholeIs
<1>2. DOMAIN file = 1 .. Len(file)
  BY DEF SectionInv
<1>3. pos - PS = Footer.at + Footer.size
  BY <1>1
<1>4. ASSUME NEW j \in 1 .. Len(file)
      PROVE  Covered(j) <=> j \in 1 .. Len(summed)
  <2>1. /\ file[j].at \in Nat
        /\ j <= Len(summed) => file[j].at < Footer.at + Footer.size
        /\ j > Len(summed) => file[j].at >= Footer.at + Footer.size
    BY SectionEnds
  <2>2. QED
    BY <1>1, <1>3, <2>1 DEF Covered
<1>5. {j \in DOMAIN file : Covered(j)} = 1 .. Len(summed)
  <2>1. 1 .. Len(summed) \subseteq 1 .. Len(file)
    BY <1>1
  <2>2. QED
    BY <1>2, <1>4, <2>1
<1>6. Computed = [i \in 1 .. Len(summed) |->
                    IF i \in bad THEN <<"changed", << >> >> ELSE <<file[i].kind, file[i].id>>]
  BY <1>5 DEF Computed
<1>7. \A i \in 1 .. Len(summed) : /\ summed[i] = <<file[i].kind, file[i].id>>
                                 /\ file[i].kind \in DataKinds
  BY DEF SectionInv, SummedInv
<1>8. summed = [i \in 1 .. Len(summed) |-> summed[i]]
  BY DEF SectionInv
<1>9. bad = {} => Computed = summed
  BY <1>6, <1>7, <1>8
<1>10. ASSUME NEW i \in bad
       PROVE  Computed # summed
  <2>1. i \in 1 .. Len(summed) /\ Computed[i] = <<"changed", << >> >>
    BY <1>6
  <2>2. Computed[i][1] = "changed" /\ summed[i][1] \in DataKinds
    BY <1>7, <2>1
  <2>3. "changed" \notin DataKinds
    BY DEF DataKinds
  <2>4. QED
    BY <2>2, <2>3
<1>11. QED
  BY <1>1, <1>9, <1>10

LEMMA ReadsChecksum ==
  ASSUME LayoutInv, VerifyFileChecksum
  PROVE  LayoutInv'
<1>1. /\ WriteInv /\ ReadInv /\ SectionInv /\ Whole /\ pc = "verifyChecksum"
      /\ UNCHANGED writeVars /\ UNCHANGED <<bad, rd, got>>
  BY DEF LayoutInv, WriteInv, ReadInv, VerifyFileChecksum
<1>2. pc' = (IF bad = {} THEN "readFooter" ELSE "refused")
  <2>1. bad \subseteq 1 .. Len(summed)
    BY <1>1 DEF ReadInv
  <2>2. QED
    BY <1>1, <2>1, ComputedIs DEF VerifyFileChecksum
<1>3. Whole' /\ WriteInv'
  BY <1>1, <1>2, FileStays DEF Writing
<1>4. bad' \subseteq 1 .. Len(summed') /\ rd'.proj \in Seq(Columns)
      /\ DOMAIN got' = {"footer", "cols", "dicts"}
  BY <1>1 DEF ReadInv, writeVars
<1>5. ReadInv'
  BY <1>1, <1>2, <1>3, <1>4 DEF ReadInv, Writing, Reading, NoFalseAlarm, PanicsOnlyPastWindow
<1>6. QED
  BY <1>3, <1>5 DEF LayoutInv

(* Where the reader looks for the footer and for the metadata, with and    *)
(* without read-ahead, and when it panics instead.                         *)
LEMMA Offsets ==
  ASSUME SectionInv, TablesInv, Whole
  PROVE  /\ (pos - ReadAheadLen) + (ReadAheadLen - PS - ps.footer_size) = Footer.at
         /\ pos - PS - ps.footer_size = Footer.at
         /\ (pos - ReadAheadLen) + (ReadAheadLen - PS - ps.metadata_size) = metaAt
         /\ pos - PS - ps.metadata_size = metaAt
         /\ ps.footer_size >= Window - PS => ps.metadata_size + PS > Window
         /\ ReadAheadLen < PS + ps.metadata_size => ps.metadata_size + PS > Window
<1>1. /\ Footer.at \in Nat /\ Footer.size \in Nat \ {0} /\ PS \in Nat
      /\ pos = Footer.at + Footer.size + PS
      /\ ps.footer_size = Footer.size
      /\ ps.metadata_size = Footer.at + Footer.size - metaAt /\ metaAt < Footer.at
  BY WholeIs
<1>2. metaAt \in Nat /\ Window \in Nat
  BY LayoutAssumption DEF TablesInv
<1>3. PICK at \in Nat, size \in Nat : at = Footer.at /\ size = Footer.size
  BY <1>1
<1>4. PICK p \in Nat : p = PS
  BY <1>1
<1>5. /\ pos = at + size + p /\ ps.footer_size = size /\ ps.metadata_size = at + size - metaAt
      /\ metaAt < at /\ pos \in Nat
  BY <1>1, <1>3, <1>4
<1>6. PICK len \in Nat : len = ReadAheadLen /\ (len = Window \/ len = pos)
  BY <1>2, <1>5 DEF ReadAheadLen
<1>7. /\ (pos - len) + (len - p - ps.footer_size) = at
      /\ pos - p - ps.footer_size = at
      /\ (pos - len) + (len - p - ps.metadata_size) = metaAt
      /\ pos - p - ps.metadata_size = metaAt
  BY <1>2, <1>5
<1>8. /\ ps.footer_size >= Window - p => ps.metadata_size + p > Window
      /\ len < p + ps.metadata_size => ps.metadata_size + p > Window
  BY <1>2, <1>5, <1>6
<1>9. QED
  BY <1>3, <1>4, <1>6, <1>7, <1>8

LEMMA ReadsFooter ==
  ASSUME LayoutInv, ReadFooter
  PROVE  LayoutInv'
<1>1. /\ WriteInv /\ ReadInv /\ SectionInv /\ TablesInv /\ Whole /\ pc = "readFooter"
      /\ UNCHANGED writeVars /\ UNCHANGED <<bad, rd>>
  BY DEF LayoutInv, WriteInv, ReadInv, ReadFooter, Reading
<1>2. ReadAt(Footer.at, ps.footer_size).kind = "footer"
  <2>1. /\ Len(summed) \in 1 .. Len(file) /\ ps.footer_size = Footer.size
        /\ Footer.kind = "footer"
    BY <1>1, WholeIs
  <2>2. ReadAt(Footer.at, Footer.size) = Footer
    BY <1>1, <2>1, ReadAtIs DEF Footer
  <2>3. QED
    BY <2>1, <2>2
<1>3. got' = [got EXCEPT !.footer = ReadAt(Footer.at, ps.footer_size)]
  BY <1>1, Offsets DEF ReadFooter
<1>4. DOMAIN got = {"footer", "cols", "dicts"}
  BY <1>1 DEF ReadInv
<1>5. FooterRight' /\ DOMAIN got' = {"footer", "cols", "dicts"}
  BY <1>2, <1>3, <1>4 DEF FooterRight
<1>6. /\ pc' = "panicked" => bad # {} \/ (rd.read_ahead /\ ps.metadata_size + PS > Window)
      /\ pc' \in {"refused", "garbled"} => bad # {}
      /\ pc' \in {"refused", "panicked", "garbled", "readMetadata"}
  <2>1. /\ ps.footer_size >= Window - PS => ps.metadata_size + PS > Window
        /\ Damaged({"footer"}) => bad # {}
    BY <1>1, Offsets DEF Damaged
  <2>2. pc' \in IF rd.read_ahead /\ ps.footer_size >= Window - PS THEN {"panicked"}
                ELSE IF Damaged({"footer"}) THEN {"refused", "panicked", "garbled"}
                ELSE {"readMetadata"}
    BY DEF ReadFooter
  <2>3. CASE rd.read_ahead /\ ps.footer_size >= Window - PS
    BY <2>1, <2>2, <2>3
  <2>4. CASE ~(rd.read_ahead /\ ps.footer_size >= Window - PS)
    BY <2>1, <2>2, <2>4
  <2>5. QED
    BY <2>3, <2>4
<1>7. Whole' /\ WriteInv'
  BY <1>1, <1>6, FileStays DEF Writing
<1>8. /\ bad' \subseteq 1 .. Len(summed') /\ rd'.proj \in Seq(Columns) /\ ps' = ps
      /\ rd.verify => bad = {}
  BY <1>1 DEF ReadInv, writeVars, Reading
<1>9. NoFalseAlarm' /\ PanicsOnlyPastWindow'
  BY <1>1, <1>6, <1>8 DEF NoFalseAlarm, PanicsOnlyPastWindow
<1>10. ReadInv'
  BY <1>1, <1>5, <1>6, <1>7, <1>8, <1>9 DEF ReadInv, Writing, Reading
<1>11. QED
  BY <1>7, <1>10 DEF LayoutInv

(* The metadata of a column, by either of the two ways to fetch it.        *)
LEMMA ColumnFound ==
  ASSUME SectionInv, TablesInv, Whole, NEW g \in 1 .. NumGroups, NEW c \in Columns
  PROVE  LET s == ColumnMeta(cols[g][c], metaAt) IN s.kind = "column" /\ s.id = <<g, c>>
<1> DEFINE loc == cols[g][c]
<1>1. g \in 1 .. Len(cols) /\ c \in 1 .. Len(cols[g])
  BY DEF Whole, Tailed, ColumnsEnded, Columns
<1>2. metaAt <= loc.offset /\ metaAt \in Nat
  BY <1>1 DEF TablesInv
<1>3. PICK i \in 1 .. Len(summed) : IsSection(i, "column", <<g, c>>, loc)
  BY <1>1 DEF TablesInv
<1> HIDE DEF loc
<1>4. /\ file[i].kind = "column" /\ file[i].id = <<g, c>>
      /\ file[i].at = loc.offset /\ file[i].size = loc.size
  BY <1>3 DEF IsSection
<1>5. /\ Len(file) = Len(summed) + 9 /\ Len(summed) \in Nat
      /\ Footer.at \in Nat /\ Footer.size \in Nat \ {0} /\ ps.footer_size = Footer.size
      /\ ps.metadata_size = Footer.at + Footer.size - metaAt
  BY WholeIs
<1>6. i \in 1 .. Len(file) /\ i <= Len(summed)
  BY <1>5
<1>7. /\ loc.offset \in Nat /\ loc.size \in Nat /\ loc.offset + loc.size <= Footer.at
  BY <1>4, <1>6, SectionEnds
<1>8. ReadAt(loc.offset, loc.size) = file[i]
  BY <1>4, <1>6, ReadAtIs
<1>9. pos - PS - ps.metadata_size = metaAt
  BY Offsets
<1>10. PICK rel \in Nat : rel = loc.offset - metaAt /\ metaAt + rel = loc.offset
  BY <1>2, <1>7
<1>11. ~(rel < 0 \/ rel + loc.size > ps.metadata_size - ps.footer_size)
  <2>1. ps.metadata_size - ps.footer_size = Footer.at - metaAt
    BY <1>2, <1>5
  <2>2. PICK off \in Nat, size \in Nat, at \in Nat :
          off = loc.offset /\ size = loc.size /\ at = Footer.at
    BY <1>5, <1>7
  <2>3. rel = off - metaAt /\ off + size <= at
    BY <1>7, <1>10, <2>2
  <2>4. ~(rel < 0 \/ rel + size > at - metaAt)
    BY <1>2, <2>3
  <2>5. QED
    BY <2>1, <2>2, <2>4
<1>12. ColumnMeta(loc, metaAt) = file[i]
  BY <1>8, <1>9, <1>10, <1>11 DEF ColumnMeta
<1>13. QED
  BY <1>4, <1>12 DEF loc

LEMMA ReadsMetadata ==
  ASSUME LayoutInv, ReadMetadata
  PROVE  LayoutInv'
<1>1. /\ WriteInv /\ ReadInv /\ SectionInv /\ TablesInv /\ Whole /\ pc = "readMetadata"
      /\ UNCHANGED writeVars /\ UNCHANGED <<bad, rd>>
  BY DEF LayoutInv, WriteInv, ReadInv, ReadMetadata, Reading
<1>2. /\ bad' \subseteq 1 .. Len(summed') /\ rd'.proj \in Seq(Columns) /\ ps' = ps
      /\ (rd.verify => bad = {}) /\ FooterRight /\ rd.proj \in Seq(Columns)
      /\ DOMAIN got = {"footer", "cols", "dicts"}
  BY <1>1 DEF ReadInv, writeVars, Reading
<1>3. /\ pc' = "panicked" => bad # {} \/ (rd.read_ahead /\ ps.metadata_size + PS > Window)
      /\ pc' \in {"panicked", "ready"}
  <2>1. /\ ReadAheadLen < PS + ps.metadata_size => ps.metadata_size + PS > Window
        /\ Damaged({"dict"}) => bad # {}
    BY <1>1, Offsets DEF Damaged
  <2>2. CASE FetchAll /\ rd.read_ahead /\ ReadAheadLen < PS + ps.metadata_size
    <3>1. pc' = "panicked"
      BY <2>2 DEF ReadMetadata
    <3>2. QED
      BY <2>1, <2>2, <3>1
  <2>3. CASE ~(FetchAll /\ rd.read_ahead /\ ReadAheadLen < PS + ps.metadata_size)
    <3>1. pc' \in IF Damaged({"dict"}) THEN {"ready", "panicked"} ELSE {"ready"}
      BY <2>3 DEF ReadMetadata
    <3>2. QED
      BY <2>1, <3>1
  <2>4. QED
    BY <2>2, <2>3
<1>4. Whole' /\ WriteInv'
  BY <1>1, <1>3, FileStays DEF Writing
<1>5. NoFalseAlarm' /\ PanicsOnlyPastWindow'
  BY <1>1, <1>2, <1>3 DEF NoFalseAlarm, PanicsOnlyPastWindow
<1> DEFINE cs == [g \in 1 .. Len(cols) |->
                   [i \in 1 .. Len(rd.proj) |-> ColumnMeta(cols[g][rd.proj[i]], metaAt)]]
           ds == [j \in 1 .. Len(dicts) |-> ReadAt(dicts[j].offset, dicts[j].size)]
<1>6. \/ pc' = "panicked" /\ UNCHANGED got
      \/ got' = [got EXCEPT !.cols = cs, !.dicts = ds]
  BY <1>1, Offsets DEF ReadMetadata
<1>7. DOMAIN got' = {"footer", "cols", "dicts"}
  BY <1>2, <1>6
<1>8. Len(cols) = NumGroups /\ NumGroups \in Nat /\ Len(dicts) = NumDicts /\ NumDicts \in Nat
  BY <1>1, LayoutAssumption DEF Whole, Tailed, ColumnsEnded
<1>9. /\ Len(cs) = NumGroups
      /\ \A g \in 1 .. NumGroups : \A i \in 1 .. Len(rd.proj) :
           cs[g][i].kind = "column" /\ cs[g][i].id = <<g, rd.proj[i]>>
  <2>1. ASSUME NEW g \in 1 .. NumGroups, NEW i \in 1 .. Len(rd.proj)
        PROVE  cs[g][i].kind = "column" /\ cs[g][i].id = <<g, rd.proj[i]>>
    <3>1. rd.proj[i] \in Columns
      BY <1>2
    <3>2. cs[g][i] = ColumnMeta(cols[g][rd.proj[i]], metaAt)
      BY <1>8
    <3>3. QED
      BY <1>1, <3>1, <3>2, ColumnFound
  <2>2. Len(cs) = NumGroups
    BY <1>8
  <2>3. QED
    BY <2>1, <2>2
<1>10. /\ Len(ds) = NumDicts
       /\ \A j \in 1 .. NumDicts : ds[j].kind = "dict" /\ ds[j].id = <<j>>
  <2>1. ASSUME NEW j \in 1 .. NumDicts
        PROVE  ds[j].kind = "dict" /\ ds[j].id = <<j>>
    <3>1. PICK i \in 1 .. Len(summed) : IsSection(i, "dict", <<j>>, dicts[j])
      BY <1>1, <1>8 DEF TablesInv
    <3>2. /\ file[i].kind = "dict" /\ file[i].id = <<j>>
          /\ file[i].at = dicts[j].offset /\ file[i].size = dicts[j].size
      BY <3>1 DEF IsSection
    <3>3. i \in 1 .. Len(file)
      <4>1. Len(file) = Len(summed) + 9 /\ Len(summed) \in Nat
        BY <1>1, WholeIs
      <4>2. QED
        BY <4>1
    <3>4. ReadAt(dicts[j].offset, dicts[j].size) = file[i]
      BY <1>1, <3>2, <3>3, ReadAtIs
    <3>5. ds[j] = ReadAt(dicts[j].offset, dicts[j].size)
      BY <1>8
    <3>6. QED
      BY <3>2, <3>4, <3>5
  <2>2. Len(ds) = NumDicts
    BY <1>8
  <2>3. QED
    BY <2>1, <2>2
<1> HIDE DEF cs, ds
<1>11. pc' = "ready" => got'.cols = cs /\ got'.dicts = ds /\ got'.footer = got.footer
  BY <1>2, <1>6
<1>12. pc' = "ready" => FooterRight' /\ MetadataRight'
  BY <1>1, <1>2, <1>9, <1>10, <1>11 DEF FooterRight, MetadataRight
<1>13. ReadInv'
  BY <1>1, <1>2, <1>3, <1>4, <1>5, <1>7, <1>12 DEF ReadInv, Writing, Reading
<1>14. QED
  BY <1>4, <1>13 DEF LayoutInv

LEMMA ReadsRuntime ==
  ASSUME LayoutInv, NEW id \in WasmIds, GetRuntime(id)
  PROVE  LayoutInv'
<1>1. /\ WriteInv /\ ReadInv /\ Whole /\ pc = "ready" /\ pc' \in {"running", "noRuntime"}
      /\ UNCHANGED writeVars /\ UNCHANGED <<bad, rd, got>>
  BY DEF LayoutInv, ReadInv, GetRuntime, Reading
<1>2. Whole' /\ WriteInv'
  BY <1>1, FileStays DEF Writing
<1>3. summed' = summed /\ ps' = ps
  BY <1>1 DEF writeVars
<1>4. ReadInv'
  BY <1>1, <1>2, <1>3 DEF ReadInv, Writing, Reading, FooterRight, MetadataRight,
                          NoFalseAlarm, PanicsOnlyPastWindow
<1>5. QED
  BY <1>2, <1>4 DEF LayoutInv

LEMMA LayoutStutters ==
  ASSUME LayoutInv, UNCHANGED vars
  PROVE  LayoutInv'
<1>1. WriteInv /\ ReadInv /\ UNCHANGED writeVars /\ UNCHANGED <<pc, bad, rd, got>>
  BY DEF LayoutInv, vars
<1>2. UNCHANGED <<file, pos, summed, dicts, metaAt, cols, ps>>
  BY <1>1 DEF writeVars
<1>3. WriteInv'
  <2>1. SectionInv' = SectionInv /\ TablesInv' = TablesInv
    BY <1>2 DEF SectionInv, OrderInv, SummedInv, TablesInv, IsSection
  <2>2. /\ ColumnsBegun' = ColumnsBegun /\ ColumnsEnded' = ColumnsEnded
        /\ MetaBegun' = MetaBegun /\ MetaEnded' = MetaEnded
    BY <1>2 DEF ColumnsBegun, ColumnsEnded, MetaBegun, MetaEnded, Written
  <2>3. Tailed(Len(file) - Len(summed))' = Tailed(Len(file) - Len(summed))
    BY <1>2, <2>2 DEF Tailed, Footer
  <2>4. PhaseInv' = PhaseInv
    BY <1>1, <1>2, <2>2, <2>3 DEF PhaseInv
  <2>5. QED
    BY <1>1, <2>1, <2>4 DEF WriteInv
<1>4. /\ Whole' = Whole /\ Torn' = Torn /\ Complete' = Complete
  BY <1>1, FileStays
<1>5. ReadInv'
  BY <1>1, <1>2, <1>4 DEF ReadInv, FooterRight, MetadataRight, NoFalseAlarm,
                          PanicsOnlyPastWindow
<1>6. QED
  BY <1>3, <1>5 DEF LayoutInv
-----------------------------------------------------------------------------
LEMMA LayoutNext == LayoutInv /\ [Next]_vars => LayoutInv'
<1> SUFFICES ASSUME LayoutInv, [Next]_vars
             PROVE  LayoutInv'
  OBVIOUS
<1>1. CASE \/ \E size \in Sizes : \/ WriteDictChunk(size) \/ WriteWasm(size)
                                  \/ WriteWasmSection(size) \/ WriteColumnMeta(size)
           \/ \E size \in FooterSizes : WriteFooter(size)
           \/ DictsWritten \/ WritePostscriptField \/ Tear
  BY <1>1, LayoutWrites
<1>2. CASE Corrupt
  BY <1>2, ReadsCorrupt
<1>3. CASE \E ahead, verify \in BOOLEAN, proj \in Projections : Open(ahead, verify, proj)
  BY <1>3, ReadsOpen
<1>4. CASE ReadPostscript
  BY <1>4, ReadsPostscript
<1>5. CASE VerifyFileChecksum
  BY <1>5, ReadsChecksum
<1>6. CASE ReadFooter
  BY <1>6, ReadsFooter
<1>7. CASE ReadMetadata
  BY <1>7, ReadsMetadata
<1>8. CASE \E id \in WasmIds : GetRuntime(id)
  BY <1>8, ReadsRuntime
<1>9. CASE Terminated \/ UNCHANGED vars
  BY <1>9, LayoutStutters DEF Terminated
<1>10. QED
  BY <1>1, <1>2, <1>3, <1>4, <1>5, <1>6, <1>7, <1>8, <1>9 DEF Next

LEMMA LayoutInvariant == Spec => []LayoutInv
<1>1. QED
  BY LayoutInit, LayoutNext, PTL DEF Spec

(* Whatever the sizes of its parts, and with or without read-ahead,        *)
(* verification and a projection: a reader that opens a file as finish()   *)
(* wrote it, or one it has verified, holds the file's own footer, the      *)
(* metadata of the columns asked for and every dictionary chunk.           *)
THEOREM OpeningCorrect == Spec => []OpensRight
<1>1. LayoutInv => OpensRight
  BY DEF LayoutInv, ReadInv, OpensRight, Opened, Reading, FooterRight, MetadataRight
<1>2. QED
  BY <1>1, LayoutInvariant, PTL

(* What a finish() that was cut short leaves behind is never opened.       *)
THEOREM TornRefused == Spec => []RefusesTorn
<1>1. LayoutInv => RefusesTorn
  <2> SUFFICES ASSUME LayoutInv, Opened
               PROVE  Complete
    BY DEF RefusesTorn
  <2>1. SectionInv /\ Whole
    BY DEF LayoutInv, WriteInv, ReadInv, Opened, Reading
  <2>2. QED
    BY <2>1, WholeIs
<1>2. QED
  BY <1>1, LayoutInvariant, PTL

(* A reader that verifies the checksum opens no file in which a section    *)
(* in front of the postscript was changed.                                 *)
THEOREM CorruptionNeverOpened == Spec => []CorruptionCaught
<1>1. LayoutInv => CorruptionCaught
  BY DEF LayoutInv, ReadInv, CorruptionCaught, Opened, Reading
<1>2. QED
  BY <1>1, LayoutInvariant, PTL

(* The reader refuses a file only if it was changed or not written to the  *)
(* end.                                                                    *)
THEOREM RefusesWithReason == Spec => []NoFalseAlarm
<1>1. LayoutInv => NoFalseAlarm
  BY DEF LayoutInv, ReadInv
<1>2. QED
  BY <1>1, LayoutInvariant, PTL

(* On an unchanged, complete file the reader panics only when read-ahead   *)
(* is on and the metadata does not fit the read-ahead buffer.              *)
THEOREM PanicsWithReason == Spec => []PanicsOnlyPastWindow
<1>1. LayoutInv => PanicsOnlyPastWindow
  BY DEF LayoutInv, ReadInv
<1>2. QED
  BY <1>1, LayoutInvariant, PTL
-----------------------------------------------------------------------------
(* The WASM binaries, of n ids from 0 on: the k-th location is that of the *)
(* binary with id k - 1, since they are written by ascending id.           *)
Binaries ==
  /\ wasms \in Seq(Locs)
  /\ \A k \in 1 .. Len(wasms) : \E i \in 1 .. Len(summed) : IsSection(i, "wasm", <<k - 1>>, wasms[k])
WasmInv(n) ==
  /\ Binaries
  /\ pc \in {"dicts", "wasms"} => Len(wasms) <= n /\ LeftWasms = Len(wasms) .. n - 1
  /\ pc \in {"columns", "footer", "postscript"} \/ Whole => Len(wasms) = n
  /\ WasmIdResolves

LEMMA AppendGrows ==
  ASSUME SectionInv, file' = file \/ \E x : file' = Append(file, x),
         summed' = summed \/ \E y : summed' = Append(summed, y)
  PROVE  Grows
<1>1. /\ file \in Seq(Sections) /\ summed \in Seq(Kinds \X Seq(Nat))
      /\ Len(summed) <= Len(file) /\ Len(summed) \in Nat /\ Len(file) \in Nat
  BY DEF SectionInv, SummedInv
<1>2. \A i \in 1 .. Len(file) : file'[i] = file[i]
  <2>1. CASE file' = file
    BY <2>1
  <2>2. ASSUME NEW x, file' = Append(file, x)
        PROVE  \A i \in 1 .. Len(file) : file'[i] = file[i]
    <3>1. file \in Seq(Sections \union {x}) /\ x \in Sections \union {x}
      BY <1>1
    <3>2. QED
      BY <2>2, <3>1, AppendIs
  <2>3. QED
    BY <2>1, <2>2
<1>3. Len(summed') \in Nat /\ Len(summed) <= Len(summed')
  <2>1. CASE summed' = summed
    BY <1>1, <2>1
  <2>2. ASSUME NEW y, summed' = Append(summed, y)
        PROVE  Len(summed') \in Nat /\ Len(summed) <= Len(summed')
    BY <1>1, <2>2
  <2>3. QED
    BY <2>1, <2>2
<1>4. QED
  BY <1>1, <1>2, <1>3 DEF Grows

LEMMA BinariesKept ==
  ASSUME Binaries, Grows, UNCHANGED wasms
  PROVE  Binaries'
<1>1. ASSUME NEW k \in 1 .. Len(wasms)
      PROVE  \E i \in 1 .. Len(summed') : IsSection(i, "wasm", <<k - 1>>, wasms[k])'
  <2>1. PICK i \in 1 .. Len(summed) : IsSection(i, "wasm", <<k - 1>>, wasms[k])
    BY DEF Binaries
  <2>2. i \in 1 .. Len(summed') /\ file'[i] = file[i]
    BY DEF Grows
  <2>3. QED
    BY <2>1, <2>2 DEF IsSection
<1>2. QED
  BY <1>1 DEF Binaries

(* No binary is written when another section is.                           *)
LEMMA LeftStays ==
  ASSUME SectionInv, NEW kind \in DataKinds \ {"wasm"}, NEW id \in Seq(Nat),
         NEW size \in Nat \ {0}, Append1(kind, id, size)
  PROVE  LeftWasms' = LeftWasms
<1>1. /\ Len(file') = Len(file) + 1 /\ Len(file) \in Nat /\ file' \in Seq(Sections)
      /\ \A i \in 1 .. Len(file) : file'[i] = file[i]
      /\ file'[Len(file) + 1].kind = kind
  BY Append1Is DEF Kinds
<1>2. DOMAIN file = 1 .. Len(file) /\ DOMAIN file' = 1 .. Len(file) + 1
  BY <1>1 DEF SectionInv
<1>3. ASSUME NEW k \in WasmIds
      PROVE  (\A i \in DOMAIN file : file[i].kind = "wasm" => file[i].id # <<k>>)
             <=> (\A i \in DOMAIN file' : file'[i].kind = "wasm" => file'[i].id # <<k>>)
  <2>1. \A i \in 1 .. Len(file) + 1 : i \in 1 .. Len(file) \/ i = Len(file) + 1
    BY <1>1
  <2>2. \A i \in 1 .. Len(file) : i \in 1 .. Len(file) + 1
    BY <1>1
  <2>3. QED
    BY <1>1, <1>2, <2>1, <2>2
<1>4. QED
  BY <1>3 DEF LeftWasms

(* Writing one takes its id from those left.                               *)
LEMMA LeftShrinks ==
  ASSUME SectionInv, NEW j \in Nat, NEW size \in Nat \ {0}, Append1("wasm", <<j>>, size)
  PROVE  LeftWasms' = LeftWasms \ {j}
<1>1. "wasm" \in Kinds /\ <<j>> \in Seq(Nat)
  BY DEF Kinds, DataKinds
<1>2. /\ Len(file') = Len(file) + 1 /\ Len(file) \in Nat /\ file' \in Seq(Sections)
      /\ \A i \in 1 .. Len(file) : file'[i] = file[i]
      /\ file'[Len(file) + 1].kind = "wasm" /\ file'[Len(file) + 1].id = <<j>>
  BY <1>1, Append1Is
<1>3. DOMAIN file = 1 .. Len(file) /\ DOMAIN file' = 1 .. Len(file) + 1
  BY <1>2 DEF SectionInv
<1>4. ASSUME NEW k \in WasmIds
      PROVE  (\A i \in DOMAIN file' : file'[i].kind = "wasm" => file'[i].id # <<k>>)
             <=> /\ \A i \in DOMAIN file : file[i].kind = "wasm" => file[i].id # <<k>>
                 /\ k # j
  <2>1. /\ \A i \in 1 .. Len(file) + 1 : i \in 1 .. Len(file) \/ i = Len(file) + 1
        /\ Len(file) + 1 \in 1 .. Len(file) + 1
    BY <1>2
  <2>2. \A i \in 1 .. Len(file) : i \in 1 .. Len(file) + 1
    BY <1>2
  <2>3. <<j>> # <<k>> <=> k # j
    OBVIOUS
  <2>4. QED
    BY <1>2, <1>3, <2>1, <2>2, <2>3
<1>5. QED
  BY <1>4 DEF LeftWasms

LEMMA WasmInit ==
  ASSUME NEW n \in Nat, WasmIds = 0 .. n - 1, Init
  PROVE  WasmInv(n)
<1>1. PICK d \in DataSizes :
        file = IF d = 0 THEN << >>
               ELSE << [kind |-> "data", id |-> << >>, at |-> 0, size |-> d] >>
  BY DEF Init
<1>2. pc = "dicts" /\ wasms = << >> /\ Len(wasms) = 0
  BY DEF Init
<1>3. \A i \in DOMAIN file : file[i].kind # "wasm"
  <2>1. CASE d = 0
    BY <1>1, <2>1
  <2>2. CASE d # 0
    <3>1. DOMAIN file = {1} /\ file[1].kind = "data"
      BY <1>1, <2>2
    <3>2. QED
      BY <3>1
  <2>3. QED
    BY <2>1, <2>2
<1>4. LeftWasms = 0 .. n - 1
  BY <1>3 DEF LeftWasms
<1>5. Binaries
  BY <1>2 DEF Binaries
<1>6. ~Whole
  <2>1. Len(file) = Len(summed)
    BY LayoutInit, <1>2 DEF LayoutInv, WriteInv, PhaseInv, Writing
  <2>2. Len(summed) \in Nat
    BY LayoutInit DEF LayoutInv, WriteInv, SectionInv
  <2>3. Whole => Len(file) = Len(summed) + 9
    BY FieldsAre DEF Whole, Tailed
  <2>4. QED
    BY <2>1, <2>2, <2>3
<1>7. QED
  BY <1>2, <1>4, <1>5, <1>6 DEF WasmInv, WasmIdResolves

(* While the writer writes it has not written all of it.                   *)
LEMMA NotYetWhole == WriteInv /\ pc \in Writing => ~Whole
<1> SUFFICES ASSUME WriteInv, pc \in Writing
             PROVE  ~Whole
  OBVIOUS
<1>1. PICK n \in 0 .. 8 : Len(file) = Len(summed) + n
  BY Unfinished
<1>2. Len(summed) \in Nat
  BY DEF WriteInv, SectionInv
<1>3. Whole => Len(file) = Len(summed) + 9
  BY FieldsAre DEF Whole, Tailed
<1>4. QED
  BY <1>1, <1>2, <1>3

LEMMA NotYetWholeNext == WriteInv' /\ (pc \in Writing)' => ~Whole'
<1>1. QED
  BY NotYetWhole, PTL

LEMMA WholeIsComplete == SectionInv /\ Whole => Complete
  BY WholeIs

LEMMA WholeIsCompleteNext == SectionInv' /\ Whole' => Complete'
<1>1. QED
  BY WholeIsComplete, PTL

LEMMA WasmDict ==
  ASSUME NEW n \in Nat, LayoutInv, LayoutInv', WasmInv(n), NEW size \in Sizes,
         WriteDictChunk(size)
  PROVE  WasmInv(n)'
<1>1. /\ pc = "dicts" /\ pc' = "dicts" /\ UNCHANGED wasms
      /\ Append1("dict", <<Len(dicts) + 1>>, size)
      /\ summed' = Append(summed, <<"dict", <<Len(dicts) + 1>> >>)
      /\ file' = Append(file, [kind |-> "dict", id |-> <<Len(dicts) + 1>>,
                               at |-> pos, size |-> size])
  BY DEF WriteDictChunk, Put, Append1
<1>2. SectionInv /\ size \in Nat \ {0} /\ Len(dicts) \in Nat
  BY SizesAre DEF LayoutInv, WriteInv, TablesInv
<1>3. <<Len(dicts) + 1>> \in Seq(Nat) /\ "dict" \in DataKinds \ {"wasm"}
  BY <1>2 DEF DataKinds
<1>4. LeftWasms' = LeftWasms
  BY <1>1, <1>2, <1>3, LeftStays
<1>5. Grows
  BY <1>1, <1>2, AppendGrows
<1>6. Binaries'
  BY <1>1, <1>5, BinariesKept DEF WasmInv
<1>7. ~Whole'
  BY <1>1, NotYetWholeNext DEF LayoutInv, Writing
<1>8. QED
  BY <1>1, <1>4, <1>6, <1>7 DEF WasmInv, WasmIdResolves

LEMMA WasmWritten ==
  ASSUME NEW n \in Nat, LayoutInv, LayoutInv', WasmInv(n), NEW size \in Sizes,
         WriteWasm(size)
  PROVE  WasmInv(n)'
<1>1. /\ pc = "wasms" /\ pc' = "wasms" /\ LeftWasms # {}
      /\ Put("wasm", <<NextWasm>>, size) /\ wasms' = Append(wasms, Location(size))
  BY DEF WriteWasm
<1>2. PICK k \in Nat : k = Len(wasms)
  BY DEF WasmInv, Binaries
<1>3. LeftWasms = k .. n - 1 /\ k < n
  BY <1>1, <1>2 DEF WasmInv
<1>4. NextWasm = k
  <2>1. k \in LeftWasms /\ \A j \in LeftWasms : k <= j
    BY <1>3
  <2>2. ASSUME NEW x \in LeftWasms, \A j \in LeftWasms : x <= j
        PROVE  x = k
    BY <1>3, <2>1, <2>2
  <2>3. QED
    BY <2>1, <2>2 DEF NextWasm
<1>5. /\ SectionInv /\ Len(file) = Len(summed) /\ size \in Nat \ {0}
      /\ "wasm" \in DataKinds /\ <<k>> \in Seq(Nat)
  BY <1>1, SizesAre DEF LayoutInv, WriteInv, PhaseInv, Writing, DataKinds
<1>6. Put("wasm", <<k>>, size) /\ Append1("wasm", <<k>>, size)
  BY <1>1, <1>4 DEF Put
<1>7. /\ Grows /\ pos \in Nat
      /\ file'[Len(summed')].at = pos /\ file'[Len(summed')].size = size
      /\ file'[Len(summed')].kind = "wasm" /\ file'[Len(summed')].id = <<k>>
      /\ Len(summed') = Len(summed) + 1
  BY <1>5, <1>6, PutGrows
<1>8. LeftWasms' = LeftWasms \ {k}
  BY <1>5, <1>6, LeftShrinks
<1>9. Location(size) \in Locs /\ Location(size).offset = pos /\ Location(size).size = size
  BY <1>5, <1>7 DEF Location, Locs
<1>10. wasms \in Seq(Locs)
  BY DEF WasmInv, Binaries
<1>11. /\ wasms' \in Seq(Locs) /\ Len(wasms') = k + 1 /\ wasms'[k + 1] = Location(size)
       /\ \A i \in 1 .. k : wasms'[i] = wasms[i]
  BY <1>1, <1>2, <1>9, <1>10, AppendIs
<1>12. ASSUME NEW x \in 1 .. k + 1
       PROVE  \E i \in 1 .. Len(summed') : IsSection(i, "wasm", <<x - 1>>, wasms[x])'
  <2>1. CASE x = k + 1
    <3>1. Len(summed') \in 1 .. Len(summed') /\ x - 1 = k
      BY <1>7, <2>1 DEF Grows
    <3>2. QED
      BY <1>7, <1>9, <1>11, <2>1, <3>1 DEF IsSection
  <2>2. CASE x # k + 1
    <3>1. x \in 1 .. k
      BY <2>2
    <3>2. PICK i \in 1 .. Len(summed) : IsSection(i, "wasm", <<x - 1>>, wasms[x])
      BY <1>2, <3>1 DEF WasmInv, Binaries
    <3>3. i \in 1 .. Len(summed') /\ file'[i] = file[i] /\ wasms'[x] = wasms[x]
      BY <1>7, <1>11, <3>1 DEF Grows
    <3>4. QED
      BY <3>2, <3>3 DEF IsSection
  <2>3. QED
    BY <2>1, <2>2
<1>13. Binaries'
  BY <1>11, <1>12 DEF Binaries
<1>14. LeftWasms' = Len(wasms') .. n - 1 /\ Len(wasms') <= n
  BY <1>3, <1>8, <1>11
<1>15. ~Whole'
  BY <1>1, NotYetWholeNext DEF LayoutInv, Writing
<1>16. QED
  BY <1>1, <1>13, <1>14, <1>15 DEF WasmInv, WasmIdResolves

(* The other steps of the writer, at none of which the ids left matter.    *)
LEMMA WasmOthers ==
  ASSUME NEW n \in Nat, LayoutInv, LayoutInv', WasmInv(n),
         \/ \E size \in Sizes : WriteWasmSection(size) \/ WriteColumnMeta(size)
         \/ \E size \in FooterSizes : WriteFooter(size)
         \/ DictsWritten \/ WritePostscriptField \/ Tear
  PROVE  WasmInv(n)'
<1>1. SectionInv /\ Binaries /\ Len(wasms) \in Nat
  BY DEF LayoutInv, WriteInv, WasmInv, Binaries
<1>2. UNCHANGED wasms
  BY DEF WriteWasmSection, WriteColumnMeta, WriteFooter, DictsWritten, WritePostscriptField,
         Tear, writeVars
<1>3. Grows
  <2>1. file' = file \/ \E x : file' = Append(file, x)
    BY DEF WriteWasmSection, WriteColumnMeta, WriteFooter, DictsWritten, WritePostscriptField,
           Tear, writeVars, Put, Append1
  <2>2. summed' = summed \/ \E y : summed' = Append(summed, y)
    BY DEF WriteWasmSection, WriteColumnMeta, WriteFooter, DictsWritten, WritePostscriptField,
           Tear, writeVars, Put
  <2>3. QED
    BY <1>1, <2>1, <2>2, AppendGrows
<1>4. Binaries'
  BY <1>1, <1>2, <1>3, BinariesKept
<1>5. CASE DictsWritten
  <2>1. pc = "dicts" /\ pc' = "wasms" /\ file' = file
    BY <1>5 DEF DictsWritten, writeVars
  <2>2. ~Whole'
    BY <2>1, NotYetWholeNext DEF LayoutInv, Writing
  <2>3. LeftWasms' = LeftWasms
    BY <2>1 DEF LeftWasms
  <2>4. QED
    BY <1>2, <1>4, <2>1, <2>2, <2>3 DEF WasmInv, WasmIdResolves
<1>6. CASE \E size \in Sizes : WriteWasmSection(size)
  <2>1. pc = "wasms" /\ pc' = "columns" /\ LeftWasms = {}
    BY <1>6 DEF WriteWasmSection
  <2>2. Len(wasms) <= n /\ Len(wasms) .. n - 1 = {}
    BY <2>1 DEF WasmInv
  <2>3. Len(wasms) = n
    BY <1>1, <2>2
  <2>4. QED
    BY <1>2, <1>4, <2>1, <2>3 DEF WasmInv, WasmIdResolves
<1>7. CASE \/ \E size \in Sizes : WriteColumnMeta(size)
           \/ \E size \in FooterSizes : WriteFooter(size)
           \/ WritePostscriptField
  <2>1. /\ pc \in {"columns", "footer", "postscript"}
        /\ pc' \in {"columns", "footer", "postscript", "written"}
    BY <1>7 DEF WriteColumnMeta, WriteFooter, WritePostscriptField
  <2>2. QED
    BY <1>2, <1>4, <2>1 DEF WasmInv, WasmIdResolves
<1>8. CASE Tear
  <2>1. pc' = "torn" /\ Torn' /\ SectionInv'
    BY <1>8 DEF Tear, LayoutInv, ReadInv, WriteInv
  <2>2. ~Whole'
    BY <2>1, WholeIsCompleteNext DEF Torn
  <2>3. QED
    BY <1>4, <2>1, <2>2 DEF WasmInv, WasmIdResolves
<1>9. QED
  BY <1>5, <1>6, <1>7, <1>8

(* get_runtime, and the other steps of the reader.                         *)
LEMMA WasmReads ==
  ASSUME NEW n \in Nat, WasmIds = 0 .. n - 1, LayoutInv, WasmInv(n),
         \/ Corrupt \/ ReadPostscript \/ VerifyFileChecksum \/ ReadFooter \/ ReadMetadata
         \/ \E ahead, verify \in BOOLEAN, proj \in Projections : Open(ahead, verify, proj)
         \/ \E id \in WasmIds : GetRuntime(id)
         \/ UNCHANGED vars
  PROVE  WasmInv(n)'
<1>1. UNCHANGED writeVars
  BY DEF Corrupt, ReadPostscript, VerifyFileChecksum, ReadFooter, ReadMetadata, Open,
         GetRuntime, vars
<1>2. UNCHANGED <<file, summed, wasms>> /\ Whole' = Whole
  BY <1>1, FileStays DEF writeVars
<1>3. Binaries'
  BY <1>2 DEF WasmInv, Binaries, IsSection
<1>4. LeftWasms' = LeftWasms
  BY <1>2 DEF LeftWasms
<1>5. CASE UNCHANGED vars
  BY <1>2, <1>3, <1>4, <1>5 DEF WasmInv, WasmIdResolves, vars
<1>6. CASE \/ Corrupt \/ ReadPostscript \/ VerifyFileChecksum \/ ReadFooter \/ ReadMetadata
           \/ \E ahead, verify \in BOOLEAN, proj \in Projections : Open(ahead, verify, proj)
  <2>1. pc' \notin Writing \union {"running", "noRuntime"}
    BY <1>6 DEF Corrupt, ReadPostscript, VerifyFileChecksum, ReadFooter, ReadMetadata, Open,
                Writing
  <2>2. QED
    BY <1>2, <1>3, <2>1 DEF WasmInv, WasmIdResolves, Writing
<1>7. CASE \E id \in WasmIds : GetRuntime(id)
  <2>1. PICK id \in 0 .. n - 1 : GetRuntime(id)
    BY <1>7
  <2>2. SectionInv /\ Whole
    BY <2>1 DEF GetRuntime, LayoutInv, WriteInv, ReadInv, Reading
  <2>3. Len(wasms) = n /\ id < Len(wasms) /\ id + 1 \in 1 .. Len(wasms) /\ (id + 1) - 1 = id
    BY <2>2 DEF WasmInv
  <2>4. PICK i \in 1 .. Len(summed) : IsSection(i, "wasm", <<(id + 1) - 1>>, wasms[id + 1])
    BY <2>3 DEF WasmInv, Binaries
  <2>5. /\ file[i].kind = "wasm" /\ file[i].id = <<id>>
        /\ file[i].at = wasms[id + 1].offset /\ file[i].size = wasms[id + 1].size
    BY <2>3, <2>4 DEF IsSection
  <2>6. i \in 1 .. Len(file)
    <3>1. Len(file) = Len(summed) + 9 /\ Len(summed) \in Nat
      BY <2>2, WholeIs
    <3>2. QED
      BY <3>1
  <2>7. ReadAt(wasms[id + 1].offset, wasms[id + 1].size) = file[i]
    BY <2>2, <2>5, <2>6, ReadAtIs
  <2>8. /\ pc' = "running"
        /\ rt' = [id |-> id, binary |-> ReadAt(wasms[id + 1].offset, wasms[id + 1].size)]
    BY <2>1, <2>3 DEF GetRuntime
  <2>9. pc' = "running" /\ rt'.id = id /\ rt'.binary = file[i]
    BY <2>7, <2>8
  <2>10. WasmIdResolves'
    BY <2>5, <2>9 DEF WasmIdResolves
  <2>11. QED
    BY <1>2, <1>3, <2>3, <2>8, <2>10 DEF WasmInv
<1>8. QED
  BY <1>5, <1>6, <1>7

(* If the ids of the context's binaries are 0, 1, ... without a gap, the   *)
(* runtime get_runtime returns for an id runs the binary the writer held   *)
(* under that id, and every id has one: ids are not stored in the file.    *)
THEOREM WasmIdsResolve ==
  ASSUME NEW n \in Nat, WasmIds = 0 .. n - 1
  PROVE  Spec => []WasmIdResolves
<1>1. Init => WasmInv(n)
  BY WasmInit
<1>2. LayoutInv /\ LayoutInv' /\ WasmInv(n) /\ [Next]_vars => WasmInv(n)'
  <2> SUFFICES ASSUME LayoutInv, LayoutInv', WasmInv(n), [Next]_vars
               PROVE  WasmInv(n)'
    OBVIOUS
  <2>1. CASE \E size \in Sizes : WriteDictChunk(size)
    BY <2>1, WasmDict
  <2>2. CASE \E size \in Sizes : WriteWasm(size)
    BY <2>2, WasmWritten
  <2>3. CASE \/ \E size \in Sizes : WriteWasmSection(size) \/ WriteColumnMeta(size)
             \/ \E size \in FooterSizes : WriteFooter(size)
             \/ DictsWritten \/ WritePostscriptField \/ Tear
    BY <2>3, WasmOthers
  <2>4. CASE \/ Corrupt \/ ReadPostscript \/ VerifyFileChecksum \/ ReadFooter \/ ReadMetadata
             \/ \E ahead, verify \in BOOLEAN, proj \in Projections : Open(ahead, verify, proj)
             \/ \E id \in WasmIds : GetRuntime(id)
             \/ Terminated \/ UNCHANGED vars
    BY <2>4, WasmReads DEF Terminated
  <2>5. QED
    BY <2>1, <2>2, <2>3, <2>4 DEF Next
<1>3. WasmInv(n) => WasmIdResolves
  BY DEF WasmInv
<1>4. QED
  BY <1>1, <1>2, <1>3, LayoutInvariant, PTL DEF Spec
=============================================================================

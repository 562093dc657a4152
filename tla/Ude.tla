--------------------------------- MODULE Ude --------------------------------
(***************************************************************************)
(* The stateful decoding interface of WASM libraries: a host opens a       *)
(* decoder with arguments (Instance::call_init), asks it for buffers       *)
(* (call_decode) and reads them through an iterator; fff-ude-wasm/src/     *)
(* lib.rs on the host's side, fff-ude/src/ffi.rs, fff-ude/src/kwargs.rs    *)
(* and wasm-libs/adv-ude-fff/src/lib.rs on the guest's.                    *)
(*                                                                         *)
(* Several clients share one Instance behind its mutex, so calls are       *)
(* atomic and come in any order.  Guest memory is what its allocator has   *)
(* handed out: input areas, decoders and iterators, numbered as they are   *)
(* made and never reused; touching one that is gone is undefined and the   *)
(* model stops there.                                                      *)
(***************************************************************************)
EXTENDS EncUnit

CONSTANTS
  Units,       \* encoded units: their bytes and whether vortex used a dictionary
  Arguments,   \* sequences of key and word, or NoArguments
  NoArguments, \* a caller that passes no bytes at all
  MaxInits,    \* bound: decoders asked for
  MaxDecodes,  \* bound: decode calls per decoder
  MaxNulls     \* bound: allocations that give a null pointer

IsTuple(s) == Len(s) \in Nat /\ s = [k \in 1 .. Len(s) |-> s[k]]

(* Arguments are bytes.                                                    *)
ASSUME ArgumentsAssumption ==
  \A kwargs \in Arguments \ {NoArguments} :
    /\ IsTuple(kwargs)
    /\ \A k \in DOMAIN kwargs :
         /\ kwargs[k] = [key |-> kwargs[k].key, word |-> kwargs[k].word]
         /\ IsTuple(kwargs[k].key) /\ IsTuple(kwargs[k].word)

VARIABLES
  exports,   \* the library exports init_ffi and decode_ffi
  phase,     \* "up", "dead" after a panic of the host, "dropped"
  cached,    \* cached_alloc_ptr (0 is null) and cached_alloc_len (0 is None)
  areas,     \* input areas: size, whether allocated, whether the header is written
  decoders,  \* decoders of the guest
  iters,     \* iterators of the guest, and what the host has got from each
  inits,     \* history: calls of call_init
  nulls,     \* history: failed allocations
  misuse,    \* history: what was done that the interface does not allow
  undefined  \* the guest has touched memory it does not own

guest == <<cached, areas, decoders, iters>>
vars == <<exports, phase, guest, inits, nulls, misuse, undefined>>

-----------------------------------------------------------------------------
(* kwargs_serialize: the number of keys, the lengths of keys and words,    *)
(* then each key with its word.                                            *)
KwargsSerialize(kwargs) ==
  <<Len(kwargs)>>
  \o [k \in DOMAIN kwargs |-> Len(kwargs[k].key)]
  \o [k \in DOMAIN kwargs |-> Len(kwargs[k].word)]
  \o FlattenSeq([k \in DOMAIN kwargs |-> kwargs[k].key \o kwargs[k].word])

(* Which of the places of one key stays in the map: HashMap::insert        *)
(* replaces; a mutant keeps what is there.                                 *)
InsertedFirst(places) == Min(places)
Inserted(places) == Max(places)

(* kwargs_deserialize: the map of the keys.                                *)
KwargsDeserialize(bytes) ==
  LET n == bytes[1]
      KeyLen(k) == bytes[1 + k]
      WordLen(k) == bytes[1 + n + k]
      start[k \in 1 .. n] ==
        IF k = 1 THEN 1 + 2 * n ELSE start[k - 1] + KeyLen(k - 1) + WordLen(k - 1)
      Key(k) == SubSeq(bytes, start[k] + 1, start[k] + KeyLen(k))
      WordOf(k) == SubSeq(bytes, start[k] + KeyLen(k) + 1, start[k] + KeyLen(k) + WordLen(k))
  IN [key \in {Key(k) : k \in 1 .. n} |-> WordOf(Inserted({k \in 1 .. n : Key(k) = key}))]

Ppd == <<"ppd">>
PartialDecode == <<"partial", "decode">>

(* The two keys' words as format/kwargs.md has them: an operator and a     *)
(* literal; one byte, none when it is left out.                            *)
ASSUME WordsAssumption ==
  \A kwargs \in Arguments \ {NoArguments} : \A k \in DOMAIN kwargs :
    /\ kwargs[k].key = Ppd => Len(kwargs[k].word) = 2
    /\ kwargs[k].key = PartialDecode => kwargs[k].word \in {<< >>, <<0>>, <<1>>}

(* A unit is what encode_arr made of a flat array, or is cut short.        *)
ASSUME UnitsAssumption ==
  \A unit \in Units :
    /\ unit = [bytes |-> unit.bytes, dict |-> unit.dict]
    /\ unit.dict \in BOOLEAN
    /\ \E id \in NonNest :
         LET rows == IF unit.bytes = << >> THEN << >> ELSE unit.bytes[Len(unit.bytes)].v
             whole == EncodeArr(FlatArray(id, rows))
         IN /\ Len(unit.bytes) \in 0 .. Len(whole)
            /\ unit.bytes = SubSeq(whole, 1, Len(unit.bytes))

(* compare with a constant, value by value.                                *)
Compare(a, right) ==
  FlatArray("Boolean", [k \in DOMAIN a.rows |->
    IF a.rows[k] = Null THEN Null ELSE IF a.rows[k] = right THEN 1 ELSE 0])

(* VortexDecoderBuilder::try_build.  A predicate is evaluated here: vortex *)
(* compares values of one type only, and the constant is an Int32.         *)
TryBuild(unit, mode, right) ==
  Then(VortexDeser(unit.bytes), LAMBDA d :
    IF mode = "ppd" /\ d.array.type.id # "Int32" THEN Error
    ELSE Ok([array |-> IF mode = "ppd" THEN Compare(d.array, right) ELSE d.array,
             partial |-> mode = "partial", dict |-> unit.dict]))

(* init_fff: a predicate goes before partial decoding; only equality with  *)
(* an integer is known.                                                    *)
InitFff(unit, bytes) ==
  IF bytes = << >> THEN Panic
  ELSE LET kwargs == KwargsDeserialize(bytes)
       IN IF Ppd \in DOMAIN kwargs
          THEN IF kwargs[Ppd][1] # "Eq" \/ kwargs[Ppd][2] = Null THEN Panic
               ELSE TryBuild(unit, "ppd", kwargs[Ppd][2])
          ELSE IF PartialDecode \in DOMAIN kwargs /\ kwargs[PartialDecode] \notin {<< >>, <<0>>}
               THEN TryBuild(unit, "partial", Null)
               ELSE TryBuild(unit, "all", Null)

(* VortexDecoder::decode_all_as_array, as buffers: a dictionary is kept    *)
(* when decoding is partial, and nothing else can be.                      *)
DictionaryBuffers(a) ==
  LET values == Distinct(a.rows)
      codes == [k \in DOMAIN a.rows |-> (CHOOSE c \in DOMAIN values : values[c] = a.rows[k]) - 1]
  IN <<ValidityBits(codes), codes, ValidityBits(values), values>>
DecodeAll(job) ==
  IF ~job.partial THEN Ok(ArrayToBuffers(ToArrow(job.array)))
  ELSE IF job.dict THEN Ok(DictionaryBuffers(job.array)) ELSE Panic

-----------------------------------------------------------------------------
Init ==
  /\ exports \in BOOLEAN
  /\ phase = "up"
  /\ cached = [ptr |-> 0, len |-> 0]
  /\ areas = << >> /\ decoders = << >> /\ iters = << >>
  /\ inits = 0 /\ nulls = 0 /\ misuse = {} /\ undefined = FALSE

Header == 3  \* words: out pointer, out length, buffer address

(* The input area for len words: a larger one replaces the cached one,     *)
(* whose recorded length stays; ptr is 0 when the guest has no memory.     *)
MustGrow(len) == cached.len # 0 /\ cached.len < len
NewArea(len) == [size |-> len, live |-> TRUE, written |-> FALSE]
Prepare(len, null) ==
  LET fresh == cached.len = 0
      kept == IF MustGrow(len) /\ cached.ptr # 0 THEN [areas EXCEPT ![cached.ptr].live = FALSE]
              ELSE areas
  IN IF ~fresh /\ ~MustGrow(len)
     THEN [cached |-> cached, areas |-> areas, frees |-> {}, allocates |-> FALSE]
     ELSE [cached |-> [ptr |-> IF null THEN 0 ELSE Len(areas) + 1,
                       len |-> IF fresh THEN len ELSE cached.len],
           areas |-> IF null THEN kept ELSE Append(kept, NewArea(len)),
           frees |-> IF fresh THEN {} ELSE {cached.ptr}, allocates |-> TRUE]

(* A live iterator remembers an area that is freed.                        *)
MovedUnder(frees) == \E i \in DOMAIN iters : iters[i].live /\ iters[i].area \in frees

(* The room call_init asks for.                                            *)
InitLen(input, kwargs) == Header + Len(input) + Len(kwargs)

(* init_wrapper: a decoder goes to the heap; an error is only a message.   *)
InitWrapper(r, unit, kwargs) ==
  IF r.st # "ok" THEN << >>
  ELSE <<[job |-> r.v, unit |-> unit, kwargs |-> kwargs, live |-> TRUE,
          done |-> FALSE, taken |-> FALSE, answers |-> << >>]>>

(* call_init: prepares the area, writes input and arguments, and lets the  *)
(* guest make a decoder or a message.  A guest that panics writes nothing. *)
CallInit(unit, kwargs, null) ==
  LET bytes == IF kwargs = NoArguments THEN << >> ELSE KwargsSerialize(kwargs)
      p == Prepare(InitLen(unit.bytes, bytes), null)
      r == InitFff(unit, bytes)
      used == Header + Len(unit.bytes) + Len(bytes)
  IN /\ phase = "up" /\ exports /\ ~undefined /\ inits < MaxInits
     /\ null => p.allocates /\ nulls < MaxNulls
     /\ inits' = inits + 1
     /\ nulls' = nulls + (IF null THEN 1 ELSE 0)
     /\ cached' = p.cached
     /\ undefined' = (0 \in p.frees
                      \/ (p.cached.ptr # 0 /\ p.areas[p.cached.ptr].size < used))
     /\ IF p.cached.ptr = 0
        THEN areas' = p.areas /\ UNCHANGED decoders
        ELSE /\ areas' = [p.areas EXCEPT ![p.cached.ptr].written = @ \/ r.st # "panic"]
             /\ decoders' = decoders \o InitWrapper(r, unit, kwargs)
     /\ misuse' = misuse \cup (IF null THEN {"null"} ELSE {})
                         \cup (IF MovedUnder(p.frees) THEN {"moved"} ELSE {})
                         \cup (IF r.st = "panic" /\ p.allocates THEN {"unwritten"} ELSE {})
     /\ UNCHANGED <<exports, phase, iters>>

(* A library without the interface: the host's unwrap panics, holding the  *)
(* instance's mutex, so whatever area it has prepared serves nobody.       *)
CallMissing ==
  /\ phase = "up" /\ ~exports
  /\ phase' = "dead"
  /\ UNCHANGED <<exports, guest, inits, nulls, misuse, undefined>>

Answered(d, answer) == [decoders EXCEPT ![d].answers = Append(@, answer)]

(* Mutant: the decoder is freed whatever it returns.                       *)
KeptNever(dec, some) == FALSE

(* decode_fff takes the decoder and gives it back when it returned         *)
(* something; otherwise dropping it frees it.                              *)
Kept(dec, some) == some

(* Mutant: only 0 is not an error.                                         *)
NoneAnswersErr(written) == {"err"}

(* What the host makes of return value 1: it first reads the slice in the  *)
(* header, which the guest did not write in this call, and fails when what *)
(* nobody ever wrote is out of bounds.                                     *)
NoneAnswers(written) == IF written THEN {"none"} ELSE {"none", "err"}

CanDecode(d) ==
  /\ phase = "up" /\ ~undefined /\ cached.ptr # 0
  /\ Len(decoders[d].answers) < MaxDecodes

(* call_decode: the decoder decodes its unit once.                         *)
DecodeSome(d) ==
  LET dec == decoders[d]
      r == DecodeAll(dec.job)
  IN /\ CanDecode(d) /\ dec.live /\ ~dec.done /\ ~dec.taken /\ r.st = "ok"
     /\ decoders' = [Answered(d, "some") EXCEPT ![d].done = TRUE, ![d].live = Kept(dec, TRUE)]
     /\ areas' = [areas EXCEPT ![cached.ptr].written = TRUE]
     /\ iters' = Append(iters, [of |-> d, area |-> cached.ptr, left |-> r.v, got |-> << >>,
                                live |-> TRUE])
     /\ UNCHANGED <<exports, phase, cached, inits, nulls, misuse, undefined>>

DecodeNone(d) ==
  LET dec == decoders[d]
  IN /\ CanDecode(d) /\ dec.live /\ dec.done
     /\ \E answer \in NoneAnswers(areas[cached.ptr].written) :
          decoders' = [Answered(d, answer) EXCEPT ![d].live = Kept(dec, FALSE)]
     /\ UNCHANGED <<exports, phase, cached, areas, iters, inits, nulls, misuse, undefined>>

(* The guest panics: the decoder stays, without its array.                 *)
DecodePanics(d) ==
  LET dec == decoders[d]
  IN /\ CanDecode(d) /\ dec.live /\ ~dec.done
     /\ dec.taken \/ DecodeAll(dec.job).st = "panic"
     /\ decoders' = [Answered(d, "err") EXCEPT ![d].taken = TRUE]
     /\ UNCHANGED <<exports, phase, cached, areas, iters, inits, nulls, misuse, undefined>>

(* The host asks again although the decoder has reported its end.          *)
DecodeFreed(d) ==
  /\ CanDecode(d) /\ ~decoders[d].live
  /\ undefined' = TRUE
  /\ misuse' = misuse \cup (IF "none" \in ToSet(decoders[d].answers)
                               \/ "err" \in ToSet(decoders[d].answers)
                            THEN {"ended"} ELSE {})
  /\ UNCHANGED <<exports, phase, guest, inits, nulls>>

(* Without an area, the allocation having failed, decode is an error.      *)
DecodeRefused(d) ==
  /\ phase = "up" /\ ~undefined /\ cached.ptr = 0
  /\ Len(decoders[d].answers) < MaxDecodes
  /\ decoders' = Answered(d, "err")
  /\ UNCHANGED <<exports, phase, cached, areas, iters, inits, nulls, misuse, undefined>>

(* BufferIter::next and buffer_iterator_next: the guest leaves the next    *)
(* buffer in the header of the area the iterator remembers, at the end     *)
(* zeros.                                                                  *)
NextBuffer(i) ==
  LET it == iters[i]
  IN /\ phase = "up" /\ ~undefined /\ it.live
     /\ undefined' = ~areas[it.area].live
     /\ iters' = IF it.left = << >> THEN iters
                 ELSE [iters EXCEPT ![i].left = Tail(@), ![i].got = Append(@, Head(it.left))]
     /\ areas' = [areas EXCEPT ![it.area].written = TRUE]
     /\ UNCHANGED <<exports, phase, cached, decoders, inits, nulls, misuse>>

(* The iterator is dropped at its end or before; its buffers, each on the  *)
(* guest's heap, go by themselves.                                         *)
DropIter(i) ==
  /\ phase = "up" /\ ~undefined /\ iters[i].live
  /\ iters' = [iters EXCEPT ![i].live = FALSE]
  /\ UNCHANGED <<exports, phase, cached, areas, decoders, inits, nulls, misuse, undefined>>

(* Drop for Instance, once nobody holds it: frees the cached area.         *)
DropInstance ==
  /\ phase = "up" /\ exports /\ ~undefined /\ \A i \in DOMAIN iters : ~iters[i].live
  /\ phase' = "dropped"
  /\ undefined' = (cached.len # 0 /\ cached.ptr = 0)
  /\ areas' = IF cached.ptr = 0 THEN areas ELSE [areas EXCEPT ![cached.ptr].live = FALSE]
  /\ UNCHANGED <<exports, cached, decoders, iters, inits, nulls, misuse>>

Next ==
  \/ \E unit \in Units, kwargs \in Arguments, null \in BOOLEAN : CallInit(unit, kwargs, null)
  \/ CallMissing
  \/ \E d \in DOMAIN decoders :
       \/ DecodeSome(d) \/ DecodeNone(d) \/ DecodePanics(d)
       \/ DecodeFreed(d) \/ DecodeRefused(d)
  \/ \E i \in DOMAIN iters : NextBuffer(i) \/ DropIter(i)
  \/ DropInstance

Spec == Init /\ [][Next]_vars

-----------------------------------------------------------------------------
(* However the calls of several clients interleave, the guest touches only *)
(* memory it owns, unless a client decodes on after the end, an area moves *)
(* under a live iterator, or the guest has run out of memory before.       *)
SafeUnlessMisused ==
  undefined => misuse \cap {"ended", "moved", "null"} # {}

(* What the caller asked for: the last word of a key counts, a predicate   *)
(* goes first.                                                             *)
LastWord(kwargs, key) ==
  LET ks == {k \in DOMAIN kwargs : kwargs[k].key = key}
  IN IF ks = {} THEN << >> ELSE kwargs[Max(ks)].word
Asked(dec) ==
  LET a == [type |-> dec.unit.bytes[2].v, rows |-> dec.unit.bytes[Len(dec.unit.bytes)].v]
      predicate == LastWord(dec.kwargs, Ppd)
  IN IF predicate # << >> THEN ArrayToBuffers(Compare(a, predicate[2]))
     ELSE IF LastWord(dec.kwargs, PartialDecode) = <<1>> THEN DictionaryBuffers(a)
     ELSE ArrayToBuffers(ToArrow(a))

(* A client gets the buffers of its own unit under its own arguments, in   *)
(* order, and all of them exactly once, whatever other clients do with     *)
(* the instance in between.                                                *)
ResultRight ==
  ~undefined =>
    /\ \A i \in DOMAIN iters :
         iters[i].got \o iters[i].left = Asked(decoders[iters[i].of])
    /\ \A i, j \in DOMAIN iters : iters[i].of = iters[j].of => i = j
    /\ \A d \in DOMAIN decoders : \A k \in DOMAIN decoders[d].answers :
         decoders[d].answers[k] = "none" => "some" \in ToSet(SubSeq(decoders[d].answers, 1, k))

(* decode fails only for partial decoding of what is no dictionary, or     *)
(* after an init of some client has trapped or found no memory, which      *)
(* leaves the header of the shared area unwritten or no area at all.  An   *)
(* init that returns an error (a predicate on another type) harms nobody.  *)
FailsOnlyAfter ==
  \A d \in DOMAIN decoders : "err" \in ToSet(decoders[d].answers) =>
    \/ decoders[d].job.partial /\ ~decoders[d].job.dict
    \/ misuse \cap {"unwritten", "null"} # {}
=============================================================================

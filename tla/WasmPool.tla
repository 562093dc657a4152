------------------------------ MODULE WasmPool ------------------------------
(***************************************************************************)
(* The instance pool of the WASM runtime: Runtime::call_multi_buf, the     *)
(* BufferIter it returns, the arrays made of its buffers, and the input    *)
(* area each Instance caches between calls (fff-ude-wasm/src/lib.rs,       *)
(* fff-ude-wasm/src/wasm_buffer.rs).                                       *)
(*                                                                         *)
(* Threads share one Runtime.  The pool's mutex is held for one pop or     *)
(* push only; an instance's mutex is held from the call to its return, and *)
(* again for each step of an iterator and each buffer that is dropped.     *)
(* Guest memory is abstracted to the input areas: block k of an instance   *)
(* is the k-th answer of its alloc, with its length and whether it is      *)
(* still allocated.  Null is an answer without bytes.                      *)
(***************************************************************************)
EXTENDS Integers, Sequences, FiniteSets

CONSTANTS
  Threads,       \* threads that share the Runtime
  Lens,          \* input lengths of a call, header included
  Faults,        \* what may fail: "alloc", "guest", "new"
  MaxInstances,  \* bound: instances ever made
  MaxCalls,      \* bound: calls of call_multi_buf
  MaxFaults,     \* bound: failures
  MaxBuffers     \* bound: buffers an iterator yields

ASSUME PoolAssumption ==
  /\ IsFiniteSet(Threads)
  /\ Lens \subseteq Nat \ {0}
  /\ Faults \subseteq {"alloc", "guest", "new"}
  /\ MaxInstances \in Nat /\ MaxCalls \in Nat /\ MaxFaults \in Nat
  /\ MaxBuffers \in Nat

VARIABLES
  pool,     \* Runtime.instances
  made,     \* number of instances made; they are named 1 .. made
  insts,    \* per instance: cached_alloc_ptr, cached_alloc_len, its blocks
  lock,     \* instances whose mutex is held by a call
  th,       \* per thread: where its call is, and the iterator it holds
  arrays,   \* <<t, i>>: thread t keeps an array with a buffer of instance i
  calls,    \* history: calls made
  faults,   \* history: failures so far
  broken,   \* history: instances on which a call has failed
  freed     \* history: what every dealloc was asked to free

hist == <<calls, faults, broken>>
vars == <<pool, made, insts, lock, th, arrays, hist, freed>>

-----------------------------------------------------------------------------
(* Option::None is 0 for the cached pointer and the cached length.         *)
NewInstance == [ptr |-> 0, cached_len |-> 0, blocks |-> << >>]
NoIter == [inst |-> 0, ptr |-> 0, left |-> 0]
IdleThread == [pc |-> "idle", inst |-> 0, len |-> 0, retry |-> FALSE, iter |-> NoIter]

(* alloc in the guest returns a block, and its pointer is cached.          *)
Answered(s, n, live) ==
  [s EXCEPT !.blocks = Append(@, [len |-> n, live |-> live]),
            !.ptr = Len(s.blocks) + 1]
Allocated(s, n) == Answered(s, n, TRUE)
AllocatedNull(s) == Answered(s, 0, FALSE)
Freed(s, k) == [s EXCEPT !.blocks[k].live = FALSE]

(* What dealloc(ptr, n) asks of block ptr of s.                            *)
Request(s, n) ==
  [asked |-> n, len |-> s.blocks[s.ptr].len, live |-> s.blocks[s.ptr].live]

(* The cached area is too small for n bytes; and a mutant that allocates   *)
(* the area only once.                                                     *)
NeverGrow(s, n) == FALSE
MustGrow(s, n) == s.cached_len # 0 /\ s.cached_len < n

(* Mutant: a larger area is allocated and the old one forgotten.           *)
GrowLeaking(s, n) ==
  IF MustGrow(s, n) THEN Allocated(s, n)
  ELSE IF s.cached_len = 0 THEN [Allocated(s, n) EXCEPT !.cached_len = n]
  ELSE s

(* The input area call_generic_function prepares for a call with n bytes:  *)
(* a larger one replaces the cached one, whose recorded length stays.      *)
Prepared(s, n) ==
  IF MustGrow(s, n) THEN Allocated(Freed(s, s.ptr), n)
  ELSE IF s.cached_len = 0 THEN [Allocated(s, n) EXCEPT !.cached_len = n]
  ELSE s

(* The same when the guest cannot allocate: the old area is freed, or the  *)
(* length is recorded without an area.  An alloc that traps leaves the     *)
(* cached pointer as it was, null is cached before it is looked at.        *)
Unprepared(s, n, null) ==
  LET u == IF MustGrow(s, n) THEN Freed(s, s.ptr) ELSE [s EXCEPT !.cached_len = n]
  IN IF null THEN AllocatedNull(u) ELSE u

(* Some Arc holds instance i: the pool p, a call or an iterator of the     *)
(* threads h, or a buffer of the arrays a.                                 *)
Held(i, p, h, a) ==
  \/ \E k \in 1 .. Len(p) : p[k] = i
  \/ \E t \in Threads : h[t].inst = i \/ h[t].iter.inst = i
  \/ \E t \in Threads : <<t, i>> \in a

(* A step lets go of instance i: Drop for Instance frees the cached area   *)
(* once nobody holds the instance.                                         *)
LetGo(i) ==
  IF Held(i, pool', th', arrays') \/ insts[i].ptr = 0
  THEN UNCHANGED <<insts, freed>>
  ELSE /\ insts' = [insts EXCEPT ![i] = Freed(@, @.ptr)]
       /\ freed' = freed \union {Request(insts[i], insts[i].cached_len)}

-----------------------------------------------------------------------------
Init ==
  /\ pool = << >> /\ made = 0
  /\ insts = [i \in 1 .. MaxInstances |-> NewInstance]
  /\ lock = {}
  /\ th = [t \in Threads |-> IdleThread]
  /\ arrays = {}
  /\ calls = 0 /\ faults = 0 /\ broken = {} /\ freed = {}

Fault(kind) == kind \in Faults /\ faults < MaxFaults /\ faults' = faults + 1

(* Mutant: the front of the pool is looked at and not taken out.           *)
PeekInstance(t, n) ==
  /\ th[t].pc = "idle" /\ th[t].iter = NoIter /\ calls < MaxCalls
  /\ pool # << >>
  /\ th' = [th EXCEPT ![t] = [@ EXCEPT !.pc = "want", !.inst = Head(pool), !.len = n]]
  /\ calls' = calls + 1
  /\ UNCHANGED <<pool, made, insts, lock, arrays, faults, broken, freed>>

(* call_multi_buf takes the instance at the front of the pool.             *)
PopInstance(t, n) ==
  /\ th[t].pc = "idle" /\ th[t].iter = NoIter /\ calls < MaxCalls
  /\ pool # << >>
  /\ th' = [th EXCEPT ![t] = [@ EXCEPT !.pc = "want", !.inst = Head(pool), !.len = n]]
  /\ pool' = Tail(pool)
  /\ calls' = calls + 1
  /\ UNCHANGED <<made, insts, lock, arrays, faults, broken, freed>>

(* Mutant: every call makes an instance of its own.                        *)
MakeAlways(t, n) ==
  /\ th[t].pc = "idle" /\ th[t].iter = NoIter /\ calls < MaxCalls
  /\ calls' = calls + 1
  /\ made < MaxInstances
  /\ made' = made + 1
  /\ th' = [th EXCEPT ![t] = [@ EXCEPT !.pc = "want", !.inst = made + 1, !.len = n]]
  /\ UNCHANGED <<pool, insts, lock, arrays, faults, broken, freed>>

(* The pool is empty: a new instance, or Err when it cannot be made.       *)
MakeInstance(t, n) ==
  /\ th[t].pc = "idle" /\ th[t].iter = NoIter /\ calls < MaxCalls
  /\ pool = << >>
  /\ calls' = calls + 1
  /\ \/ /\ made < MaxInstances
        /\ made' = made + 1
        /\ th' = [th EXCEPT ![t] = [@ EXCEPT !.pc = "want", !.inst = made + 1,
                                             !.len = n]]
        /\ UNCHANGED faults
     \/ /\ Fault("new")
        /\ UNCHANGED <<made, th>>
  /\ UNCHANGED <<pool, insts, lock, arrays, broken, freed>>

(* instance.lock(): an iterator or a returning call may still have it.     *)
LockInstance(t) ==
  /\ th[t].pc = "want" /\ th[t].inst \notin lock
  /\ lock' = lock \union {th[t].inst}
  /\ th' = [th EXCEPT ![t].pc = "locked"]
  /\ UNCHANGED <<pool, made, insts, arrays, hist, freed>>

(* The dealloc a call with n bytes makes before the guest function runs.   *)
GrowRequests(s, n) == IF MustGrow(s, n) THEN {Request(s, s.cached_len)} ELSE {}

(* call_generic_function returns Ok: the guest has read the input and the  *)
(* iterator remembers the input area, where next() will find its results.  *)
CallOk(t) ==
  LET i == th[t].inst
      s == Prepared(insts[i], th[t].len)
  IN /\ th[t].pc = "locked"
     /\ insts' = [insts EXCEPT ![i] = s]
     /\ freed' = freed \union GrowRequests(insts[i], th[t].len)
     /\ th' = [th EXCEPT ![t] = [@ EXCEPT !.pc = "ok",
                 !.iter = [inst |-> i, ptr |-> s.ptr, left |-> MaxBuffers]]]
     /\ UNCHANGED <<pool, made, lock, arrays, hist>>

(* call_generic_function returns Err: the guest's alloc traps or returns   *)
(* null, or its function traps or reports an error.                        *)
CallErr(t) ==
  LET i == th[t].inst
      n == th[t].len
  IN /\ th[t].pc = "locked"
     /\ \/ /\ Fault("alloc") /\ (MustGrow(insts[i], n) \/ insts[i].cached_len = 0)
           /\ \E null \in BOOLEAN : insts' = [insts EXCEPT ![i] = Unprepared(@, n, null)]
        \/ /\ Fault("guest")
           /\ insts' = [insts EXCEPT ![i] = Prepared(@, n)]
     /\ freed' = freed \union GrowRequests(insts[i], n)
     /\ broken' = broken \union {i}
     /\ th' = [th EXCEPT ![t].pc = "err"]
     /\ UNCHANGED <<pool, made, lock, arrays, calls>>

(* Mutant: the call returns and its instance is not put back.              *)
PushNothing(t) ==
  /\ th[t].pc = "ok"
  /\ th' = [th EXCEPT ![t].pc = "pushed"]
  /\ UNCHANGED <<pool, made, insts, lock, arrays, hist, freed>>

(* The instance goes to the back of the pool while its mutex is held.      *)
PushInstance(t) ==
  /\ th[t].pc = "ok"
  /\ pool' = Append(pool, th[t].inst)
  /\ th' = [th EXCEPT ![t].pc = "pushed"]
  /\ UNCHANGED <<made, insts, lock, arrays, hist, freed>>

(* Mutant: the guard outlives the call.                                    *)
ReturnLocked(t) ==
  /\ th[t].pc = "pushed"
  /\ th' = [th EXCEPT ![t] = [@ EXCEPT !.pc = "idle", !.inst = 0, !.len = 0,
                                       !.retry = FALSE]]
  /\ UNCHANGED <<pool, made, insts, lock, arrays, hist, freed>>

(* call_multi_buf returns the iterator and the guard is dropped.           *)
ReturnIter(t) ==
  /\ th[t].pc = "pushed"
  /\ lock' = lock \ {th[t].inst}
  /\ th' = [th EXCEPT ![t] = [@ EXCEPT !.pc = "idle", !.inst = 0, !.len = 0,
                                       !.retry = FALSE]]
  /\ UNCHANGED <<pool, made, insts, arrays, hist, freed>>

(* Mutant: the instance that failed goes back to the pool.                 *)
KeepAfterErr(t) ==
  LET i == th[t].inst
  IN /\ th[t].pc = "err" /\ ~th[t].retry
     /\ made < MaxInstances
     /\ made' = made + 1
     /\ th' = [th EXCEPT ![t] = [@ EXCEPT !.pc = "locked", !.inst = made + 1,
                                          !.retry = TRUE]]
     /\ lock' = (lock \ {i}) \union {made + 1}
     /\ pool' = Append(pool, i)
     /\ UNCHANGED <<arrays, hist, insts, freed>>

(* The failed instance is dropped; the call is retried once on a new one,  *)
(* which nobody else can lock, or Err is returned when it cannot be made.  *)
RetryOnNew(t) ==
  LET i == th[t].inst
  IN /\ th[t].pc = "err" /\ ~th[t].retry
     /\ \/ /\ made < MaxInstances
           /\ made' = made + 1
           /\ th' = [th EXCEPT ![t] = [@ EXCEPT !.pc = "locked", !.inst = made + 1,
                                                !.retry = TRUE]]
           /\ lock' = (lock \ {i}) \union {made + 1}
           /\ UNCHANGED faults
        \/ /\ Fault("new")
           /\ th' = [th EXCEPT ![t] = IdleThread]
           /\ lock' = lock \ {i}
           /\ UNCHANGED made
     /\ UNCHANGED <<pool, arrays, calls, broken>>
     /\ LetGo(i)

(* The retry has failed too: the assertion panics and the thread unwinds.  *)
PanicOnRetry(t) ==
  LET i == th[t].inst
  IN /\ th[t].pc = "err" /\ th[t].retry
     /\ th' = [th EXCEPT ![t] = [IdleThread EXCEPT !.pc = "dead"]]
     /\ lock' = lock \ {i}
     /\ UNCHANGED <<pool, made, arrays, hist>>
     /\ LetGo(i)

(* Mutant: the null pointer that ends an iteration is not looked at.       *)
NextPastEnd(t) ==
  /\ th[t].pc = "idle" /\ th[t].iter # NoIter /\ th[t].iter.inst \notin lock
  /\ th' = [th EXCEPT ![t].iter.left = @ - 1]
  /\ arrays' = arrays \union {<<t, th[t].iter.inst>>}
  /\ UNCHANGED <<pool, made, insts, lock, hist, freed>>

(* BufferIter::next yields a buffer, which holds on to the instance.       *)
NextBuffer(t) ==
  /\ th[t].pc = "idle" /\ th[t].iter.left > 0 /\ th[t].iter.inst \notin lock
  /\ th' = [th EXCEPT ![t].iter.left = @ - 1]
  /\ arrays' = arrays \union {<<t, th[t].iter.inst>>}
  /\ UNCHANGED <<pool, made, insts, lock, hist, freed>>

(* The guest fails in next(): the unwrap panics while the guard is held,   *)
(* which poisons the mutex, and the iterator's own drop panics on it while *)
(* unwinding, which aborts the process.                                    *)
NextAborts(t) ==
  /\ th[t].pc = "idle" /\ th[t].iter # NoIter /\ th[t].iter.inst \notin lock
  /\ Fault("guest")
  /\ th' = [u \in Threads |-> [th[u] EXCEPT !.pc = "dead"]]
  /\ UNCHANGED <<pool, made, insts, lock, arrays, calls, broken, freed>>

(* Drop for BufferIter, at the end of the iteration or before.             *)
DropIter(t) ==
  LET i == th[t].iter.inst
  IN /\ th[t].pc = "idle" /\ th[t].iter # NoIter /\ i \notin lock
     /\ th' = [th EXCEPT ![t].iter = NoIter]
     /\ UNCHANGED <<pool, made, lock, arrays, hist>>
     /\ LetGo(i)

(* The buffers thread t has of instance i are dropped: Drop for WasmBuffer.*)
DropArray(t, i) ==
  /\ th[t].pc = "idle" /\ <<t, i>> \in arrays /\ i \notin lock
  /\ arrays' = arrays \ {<<t, i>>}
  /\ UNCHANGED <<pool, made, lock, th, hist>>
  /\ LetGo(i)

(* A call in progress.                                                     *)
CallStep(t) ==
  \/ LockInstance(t) \/ CallOk(t) \/ CallErr(t)
  \/ PushInstance(t) \/ ReturnIter(t)
  \/ RetryOnNew(t) \/ PanicOnRetry(t)

Step(t) ==
  \/ \E n \in Lens : PopInstance(t, n) \/ MakeInstance(t, n)
  \/ CallStep(t)
  \/ NextBuffer(t) \/ NextAborts(t) \/ DropIter(t)
  \/ \E i \in 1 .. made : DropArray(t, i)

(* Every thread has returned or panicked and nothing more is called.       *)
Terminated ==
  /\ \A t \in Threads : th[t].pc \in {"idle", "dead"}
  /\ UNCHANGED vars

Next == (\E t \in Threads : Step(t)) \/ Terminated

Spec == Init /\ [][Next]_vars

(* A thread inside call_multi_buf keeps running.                           *)
FairSpec == Spec /\ \A t \in Threads : WF_vars(CallStep(t))

-----------------------------------------------------------------------------
Blocks == [len : Nat, live : BOOLEAN]
TypeOK ==
  /\ made \in 0 .. MaxInstances
  /\ pool \in Seq(1 .. made)
  /\ insts \in [1 .. MaxInstances -> [ptr : Nat, cached_len : Nat, blocks : Seq(Blocks)]]
  /\ lock \subseteq 1 .. made
  /\ th \in [Threads -> [pc : {"idle", "want", "locked", "ok", "err", "pushed", "dead"},
                         inst : 0 .. made, len : Nat, retry : BOOLEAN,
                         iter : [inst : 0 .. made, ptr : Nat, left : Nat]]]
  /\ arrays \subseteq Threads \X (1 .. made)
  /\ broken \subseteq 1 .. made
  /\ calls \in Nat /\ faults \in Nat

(* The threads that have taken an instance and not yet returned it.        *)
Taking == {t \in Threads : th[t].pc \in {"want", "locked", "ok", "err"}}

(* An instance is in the pool at most once, and not while a call has taken *)
(* it; a call that has already put its instance back only keeps the mutex  *)
(* until it returns.  Two calls never run on one instance.                 *)
PoolOwnership ==
  /\ \A j, k \in 1 .. Len(pool) : pool[j] = pool[k] => j = k
  /\ \A t \in Taking : \A k \in 1 .. Len(pool) : pool[k] # th[t].inst
  /\ \A t, u \in Taking : th[t].inst = th[u].inst => t = u

(* No instance is lost: one on which no call has failed is in the pool or  *)
(* with a call that has not put it back, whatever other calls do meanwhile.*)
InstancesKept ==
  \A i \in (1 .. made) \ broken :
    \/ \E k \in 1 .. Len(pool) : pool[k] = i
    \/ \E t \in Threads : th[t].inst = i /\ th[t].pc # "pushed"

(* An instance on which a call has failed is never handed out again.       *)
BrokenRetired ==
  \A i \in broken :
    /\ \A k \in 1 .. Len(pool) : pool[k] # i
    /\ \A t \in Threads : th[t].inst = i => th[t].pc \in {"err", "dead"}

(* Instances are only made when all others are busy: however many calls    *)
(* are made and fail, the pool never grows beyond the number of threads.   *)
PoolBounded == Len(pool) + Cardinality(Taking) <= Cardinality(Threads)

(* While the guest runs and its results are read, the cached area is       *)
(* allocated and has room for the whole input, although the recorded       *)
(* length is not that of the area.                                         *)
AreaFits ==
  \A t \in Threads : th[t].pc \in {"ok", "pushed"} =>
    LET s == insts[th[t].inst]
    IN s.ptr # 0 /\ s.blocks[s.ptr].live /\ s.blocks[s.ptr].len >= th[t].len

(* No input area leaks: the only area of an instance that is allocated is  *)
(* the cached one, and none is once the instance has been dropped.         *)
NoAreaLeaks ==
  \A i \in 1 .. made : \A k \in 1 .. Len(insts[i].blocks) :
    insts[i].blocks[k].live => k = insts[i].ptr /\ Held(i, pool, th, arrays)

(* A thread waiting for an instance gets it and call_multi_buf returns,    *)
(* with a result, an error or the panic of the second failure.             *)
CallReturns ==
  \A t \in Threads : (th[t].pc \notin {"idle", "dead"}) ~> (th[t].pc \in {"idle", "dead"})

(* fff-ude/src/ffi.rs: dealloc passes its arguments to the allocator, whose*)
(* contract is that the block is allocated and has the length given.       *)
DeallocMatches == \A d \in freed : d.live /\ d.asked = d.len

(* lib.rs:39 says the pool can be shared by multiple threads: the area a   *)
(* live iterator writes its results to stays allocated.                    *)
IterAreaLive ==
  \A t \in Threads : th[t].iter # NoIter =>
    insts[th[t].iter.inst].blocks[th[t].iter.ptr].live
=============================================================================

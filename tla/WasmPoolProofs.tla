--------------------------- MODULE WasmPoolProofs ---------------------------
(***************************************************************************)
(* Proofs about the instance pool: for any number of threads, calls and    *)
(* failures, WasmPool keeps its types, an instance belongs to the pool or  *)
(* to one call and is not lost, failed ones are retired, the pool stays    *)
(* bounded, the input area of a running call fits and no area leaks.       *)
(***************************************************************************)
EXTENDS WasmPool, FiniteSetTheorems, TLAPS

(* A thread that has locked its instance and not yet returned.             *)
Locking == {"locked", "ok", "err", "pushed"}

(* What a thread's record says of its call: between calls it has no        *)
(* instance, within one it has, and the iterator appears with the result.  *)
ThreadOK(r) ==
  /\ r.pc = "idle" => r.inst = 0
  /\ r.pc \in {"want"} \union Locking => r.inst # 0 /\ r.len \in Lens
  /\ r.pc \in {"want", "locked", "err"} => r.iter = NoIter
  /\ r.pc \in {"ok", "pushed"} => r.iter.inst = r.inst
  /\ r.iter # NoIter => r.iter.inst # 0
ThreadInv == \A t \in Threads : ThreadOK(th[t])

TInv == TypeOK /\ ThreadInv

(* The mutex of an instance is held by at most one thread.                 *)
MutexInv ==
  /\ \A t \in Threads : th[t].pc \in Locking => th[t].inst \in lock
  /\ \A t, u \in Threads :
       th[t].pc \in Locking /\ th[u].pc \in Locking /\ th[t].inst = th[u].inst => t = u

OwnInv == MutexInv /\ PoolOwnership /\ BrokenRetired

(* The blocks s of instance i: only the cached one may be allocated and    *)
(* only while the instance is held; unless a call on it has failed, the    *)
(* cached area of a held instance is allocated and at least as long as     *)
(* recorded.                                                               *)
Fits(s, n) == s.ptr # 0 /\ s.blocks[s.ptr].live /\ s.blocks[s.ptr].len >= n
Healthy(s) == IF s.cached_len = 0 THEN s.ptr = 0 ELSE Fits(s, s.cached_len)
InstOK(i, s, m, held, bad) ==
  /\ s.ptr <= Len(s.blocks)
  /\ \A k \in 1 .. Len(s.blocks) : s.blocks[k].live => k = s.ptr /\ held
  /\ i > m => s = NewInstance
  /\ ~bad /\ held => Healthy(s)
IsHeld(i) == Held(i, pool, th, arrays)
InstsOK == \A i \in 1 .. MaxInstances : InstOK(i, insts[i], made, IsHeld(i), i \in broken)
AreaInv == InstsOK /\ AreaFits

-----------------------------------------------------------------------------
(* What the guest's alloc and dealloc do to the blocks of an instance.     *)
Insts == [ptr : Nat, cached_len : Nat, blocks : Seq(Blocks)]

LEMMA BlocksIs ==
  ASSUME NEW s \in Insts, NEW x \in Seq(Blocks)
  PROVE  /\ [s EXCEPT !.blocks = x] \in Insts
         /\ [s EXCEPT !.blocks = x].blocks = x
         /\ [s EXCEPT !.blocks = x].ptr = s.ptr
         /\ [s EXCEPT !.blocks = x].cached_len = s.cached_len
  BY DEF Insts

LEMMA PtrIs ==
  ASSUME NEW s \in Insts, NEW x \in Nat
  PROVE  /\ [s EXCEPT !.ptr = x] \in Insts
         /\ [s EXCEPT !.ptr = x].ptr = x
         /\ [s EXCEPT !.ptr = x].blocks = s.blocks
         /\ [s EXCEPT !.ptr = x].cached_len = s.cached_len
  BY DEF Insts

LEMMA CachedIs ==
  ASSUME NEW s \in Insts, NEW x \in Nat
  PROVE  /\ [s EXCEPT !.cached_len = x] \in Insts
         /\ [s EXCEPT !.cached_len = x].cached_len = x
         /\ [s EXCEPT !.cached_len = x].blocks = s.blocks
         /\ [s EXCEPT !.cached_len = x].ptr = s.ptr
  BY DEF Insts

LEMMA AnsweredIs ==
  ASSUME NEW s \in Insts, NEW n \in Nat, NEW live \in BOOLEAN
  PROVE  /\ Answered(s, n, live) \in Insts
         /\ Answered(s, n, live).ptr = Len(s.blocks) + 1
         /\ Answered(s, n, live).cached_len = s.cached_len
         /\ Len(Answered(s, n, live).blocks) = Len(s.blocks) + 1 /\ Len(s.blocks) \in Nat
         /\ Answered(s, n, live).blocks[Len(s.blocks) + 1] = [len |-> n, live |-> live]
         /\ \A k \in 1 .. Len(s.blocks) : Answered(s, n, live).blocks[k] = s.blocks[k]
<1> DEFINE new == [len |-> n, live |-> live]
           b == Append(s.blocks, new)
           r == [s EXCEPT !.blocks = b]
<1>1. new \in Blocks /\ s.blocks \in Seq(Blocks)
  BY DEF Blocks, Insts
<1>2. Answered(s, n, live) = [r EXCEPT !.ptr = Len(s.blocks) + 1]
  BY DEF Answered
<1> HIDE DEF new
<1>3. /\ b \in Seq(Blocks) /\ Len(s.blocks) \in Nat
      /\ Len(b) = Len(s.blocks) + 1
      /\ b[Len(s.blocks) + 1] = new
      /\ \A k \in 1 .. Len(s.blocks) : b[k] = s.blocks[k]
  BY <1>1
<1> HIDE DEF b
<1>4. r \in Insts /\ r.blocks = b /\ r.cached_len = s.cached_len
  BY <1>3, BlocksIs
<1> HIDE DEF r
<1>5. Len(s.blocks) + 1 \in Nat
  BY <1>3
<1>6. /\ Answered(s, n, live) \in Insts /\ Answered(s, n, live).ptr = Len(s.blocks) + 1
      /\ Answered(s, n, live).cached_len = s.cached_len /\ Answered(s, n, live).blocks = b
  BY <1>2, <1>4, <1>5, PtrIs
<1>7. QED
  BY <1>3, <1>6 DEF new

LEMMA AllocatedIs ==
  ASSUME NEW s \in Insts, NEW n \in Nat
  PROVE  /\ Allocated(s, n) \in Insts
         /\ Allocated(s, n).ptr = Len(s.blocks) + 1
         /\ Allocated(s, n).cached_len = s.cached_len
         /\ Len(Allocated(s, n).blocks) = Len(s.blocks) + 1 /\ Len(s.blocks) \in Nat
         /\ Allocated(s, n).blocks[Len(s.blocks) + 1] = [len |-> n, live |-> TRUE]
         /\ \A k \in 1 .. Len(s.blocks) : Allocated(s, n).blocks[k] = s.blocks[k]
<1> DEFINE yes == TRUE
<1>1. yes \in BOOLEAN /\ Allocated(s, n) = Answered(s, n, yes)
  BY DEF Allocated
<1>2. [len |-> n, live |-> TRUE] = [len |-> n, live |-> yes]
  OBVIOUS
<1> HIDE DEF yes
<1>3. QED
  BY <1>1, <1>2, AnsweredIs

(* A null answer: the blocks are as allocated as before.                   *)
LEMMA AllocatedNullIs ==
  ASSUME NEW s \in Insts
  PROVE  /\ AllocatedNull(s) \in Insts
         /\ AllocatedNull(s).ptr = Len(s.blocks) + 1
         /\ AllocatedNull(s).cached_len = s.cached_len
         /\ Len(AllocatedNull(s).blocks) = Len(s.blocks) + 1 /\ Len(s.blocks) \in Nat
         /\ ~AllocatedNull(s).blocks[Len(s.blocks) + 1].live
         /\ \A k \in 1 .. Len(s.blocks) : AllocatedNull(s).blocks[k] = s.blocks[k]
<1> DEFINE no == FALSE
           b == [len |-> 0, live |-> no]
<1>1. no \in BOOLEAN /\ AllocatedNull(s) = Answered(s, 0, no) /\ b.live = no /\ ~no
  BY DEF AllocatedNull
<1> HIDE DEF no
<1>2. 0 \in Nat
  OBVIOUS
<1> DEFINE a == Answered(s, 0, no)
<1>3. /\ a \in Insts /\ a.ptr = Len(s.blocks) + 1 /\ a.cached_len = s.cached_len
      /\ Len(a.blocks) = Len(s.blocks) + 1 /\ Len(s.blocks) \in Nat
      /\ a.blocks[Len(s.blocks) + 1] = b
      /\ \A k \in 1 .. Len(s.blocks) : a.blocks[k] = s.blocks[k]
  BY <1>1, <1>2, AnsweredIs
<1>4. AllocatedNull(s) = a
  BY <1>1
<1> HIDE DEF a, b
<1>5. ~a.blocks[Len(s.blocks) + 1].live
  BY <1>1, <1>3, Zenon
<1>6. QED
  BY <1>3, <1>4, <1>5, Zenon

LEMMA FreedIs ==
  ASSUME NEW s \in Insts, NEW j \in Nat
  PROVE  /\ Freed(s, j) \in Insts
         /\ Freed(s, j).ptr = s.ptr /\ Freed(s, j).cached_len = s.cached_len
         /\ Len(Freed(s, j).blocks) = Len(s.blocks) /\ Len(s.blocks) \in Nat
         /\ \A k \in 1 .. Len(s.blocks) :
              /\ k # j => Freed(s, j).blocks[k] = s.blocks[k]
              /\ k = j => Freed(s, j).blocks[k].live = FALSE
<1> DEFINE b == [s.blocks EXCEPT ![j] = [s.blocks[j] EXCEPT !.live = FALSE]]
<1>1. s.blocks \in Seq(Blocks)
  BY DEF Insts
<1>2. Freed(s, j) = [s EXCEPT !.blocks = b]
  BY DEF Freed
<1>3. Len(s.blocks) \in Nat /\ DOMAIN s.blocks = 1 .. Len(s.blocks)
  BY <1>1
<1>4. ASSUME NEW k \in 1 .. Len(s.blocks)
      PROVE  /\ b[k] \in Blocks
             /\ k # j => b[k] = s.blocks[k]
             /\ k = j => b[k].live = FALSE
  <2>1. s.blocks[k] \in Blocks
    BY <1>1
  <2>2. QED
    BY <1>3, <2>1 DEF Blocks
<1>5. b \in [1 .. Len(s.blocks) -> Blocks]
  <2>1. DOMAIN b = 1 .. Len(s.blocks)
    BY <1>3
  <2>2. b = [k \in 1 .. Len(s.blocks) |-> b[k]]
    BY <2>1
  <2> HIDE DEF b
  <2>3. QED
    BY <1>4, <2>2
<1> HIDE DEF b
<1>6. b \in Seq(Blocks) /\ Len(b) = Len(s.blocks)
  BY <1>3, <1>5
<1>7. /\ Freed(s, j) \in Insts /\ Freed(s, j).ptr = s.ptr
      /\ Freed(s, j).cached_len = s.cached_len /\ Freed(s, j).blocks = b
  BY <1>2, <1>6, BlocksIs
<1>8. QED
  BY <1>3, <1>4, <1>6, <1>7

LEMMA PreparedType ==
  ASSUME NEW s \in Insts, NEW n \in Nat
  PROVE  /\ Prepared(s, n) \in Insts
         /\ \A null \in BOOLEAN : Unprepared(s, n, null) \in Insts
<1>1. s.ptr \in Nat
  BY DEF Insts
<1>2. Freed(s, s.ptr) \in Insts
  BY <1>1, FreedIs
<1>3. Allocated(s, n) \in Insts /\ Allocated(Freed(s, s.ptr), n) \in Insts
  BY <1>2, AllocatedIs
<1>4. [Allocated(s, n) EXCEPT !.cached_len = n] \in Insts
      /\ [s EXCEPT !.cached_len = n] \in Insts
  BY <1>3, CachedIs
<1>5. \A u \in Insts : AllocatedNull(u) \in Insts
  BY AllocatedNullIs
<1>6. QED
  BY <1>2, <1>3, <1>4, <1>5 DEF Prepared, Unprepared

(* Letting go of an instance changes its own blocks only.                  *)
LEMMA LetGoIs ==
  ASSUME TypeOK, NEW i \in 1 .. made, LetGo(i)
  PROVE  /\ insts' \in [1 .. MaxInstances -> Insts]
         /\ \A j \in 1 .. MaxInstances : j # i => insts'[j] = insts[j]
         /\ insts'[i] \in {insts[i], Freed(insts[i], insts[i].ptr)}
         /\ Held(i, pool', th', arrays') => insts'[i] = insts[i]
         /\ ~Held(i, pool', th', arrays') /\ insts[i].ptr # 0 =>
              insts'[i] = Freed(insts[i], insts[i].ptr)
<1>1. insts \in [1 .. MaxInstances -> Insts] /\ i \in 1 .. MaxInstances
  BY PoolAssumption DEF TypeOK, Insts
<1>2. insts[i].ptr \in Nat
  BY <1>1 DEF Insts
<1>3. Freed(insts[i], insts[i].ptr) \in Insts
  BY <1>1, <1>2, FreedIs
<1>4. CASE UNCHANGED insts
  BY <1>1, <1>4 DEF LetGo
<1>5. CASE /\ insts' = [insts EXCEPT ![i] = Freed(insts[i], insts[i].ptr)]
           /\ ~Held(i, pool', th', arrays')
  BY <1>1, <1>3, <1>5
<1>6. QED
  BY <1>4, <1>5 DEF LetGo

-----------------------------------------------------------------------------
(* The record of a thread when m instances have been made.                 *)
Pcs == {"idle", "want", "locked", "ok", "err", "pushed", "dead"}
Iters(m) == [inst : 0 .. m, ptr : Nat, left : Nat]
Recs(m) == [pc : Pcs, inst : 0 .. m, len : Nat, retry : BOOLEAN, iter : Iters(m)]

LEMMA RecsGrow ==
  ASSUME NEW m \in Nat, NEW n \in Nat, m <= n
  PROVE  Iters(m) \subseteq Iters(n) /\ Recs(m) \subseteq Recs(n)
<1>1. 0 .. m \subseteq 0 .. n
  OBVIOUS
<1>2. Iters(m) \subseteq Iters(n)
  BY <1>1 DEF Iters
<1>3. QED
  BY <1>1, <1>2 DEF Recs

(* A step of thread t leaves the other threads' records alone.             *)
LEMMA ThreadSet ==
  ASSUME TInv, NEW t \in Threads, NEW r, r \in Recs(made'), ThreadOK(r),
         th' = [th EXCEPT ![t] = r], made' \in Nat, made <= made'
  PROVE  /\ th' \in [Threads -> Recs(made')] /\ ThreadInv'
         /\ th'[t] = r /\ \A u \in Threads : u # t => th'[u] = th[u]
<1>1. made \in Nat /\ th \in [Threads -> Recs(made)]
  BY PoolAssumption DEF TInv, TypeOK, Recs, Iters, Pcs
<1>2. th \in [Threads -> Recs(made')]
  BY <1>1, RecsGrow
<1>3. th'[t] = r /\ \A u \in Threads : u # t => th'[u] = th[u]
  BY <1>2
<1>4. ThreadInv'
  BY <1>3 DEF TInv, ThreadInv
<1>5. QED
  BY <1>2, <1>3, <1>4

(* What the rest of the type invariant needs.                              *)
LEMMA TypeFrom ==
  ASSUME made' \in 0 .. MaxInstances, pool' \in Seq(1 .. made'),
         insts' \in [1 .. MaxInstances -> Insts], lock' \subseteq 1 .. made',
         th' \in [Threads -> Recs(made')], arrays' \subseteq Threads \X (1 .. made'),
         broken' \subseteq 1 .. made', calls' \in Nat, faults' \in Nat, ThreadInv'
  PROVE  TInv'
  BY DEF TInv, TypeOK, Insts, Recs, Iters, Pcs

LEMMA TypeIs ==
  ASSUME TInv
  PROVE  /\ made \in Nat /\ made \in 0 .. MaxInstances /\ pool \in Seq(1 .. made)
         /\ insts \in [1 .. MaxInstances -> Insts] /\ lock \subseteq 1 .. made
         /\ th \in [Threads -> Recs(made)] /\ arrays \subseteq Threads \X (1 .. made)
         /\ broken \subseteq 1 .. made /\ calls \in Nat /\ faults \in Nat
         /\ \A t \in Threads : th[t] \in Recs(made) /\ ThreadOK(th[t])
  BY PoolAssumption DEF TInv, TypeOK, Insts, Recs, Iters, Pcs, ThreadInv

(* The records the actions give a thread.                                  *)
LEMMA PcRec ==
  ASSUME NEW m, NEW r \in Recs(m), NEW p \in Pcs, NEW w, w = [r EXCEPT !.pc = p]
  PROVE  /\ w \in Recs(m) /\ w.pc = p /\ w.inst = r.inst /\ w.len = r.len
         /\ w.iter = r.iter /\ w.retry = r.retry
  BY DEF Recs

LEMMA IdleRec ==
  ASSUME NEW m \in Nat
  PROVE  /\ IdleThread \in Recs(m) /\ ThreadOK(IdleThread) /\ IdleThread.pc = "idle"
         /\ IdleThread.inst = 0 /\ IdleThread.iter = NoIter
         /\ [IdleThread EXCEPT !.pc = "dead"] \in Recs(m)
         /\ ThreadOK([IdleThread EXCEPT !.pc = "dead"])
         /\ [IdleThread EXCEPT !.pc = "dead"].pc = "dead"
         /\ [IdleThread EXCEPT !.pc = "dead"].inst = 0
         /\ [IdleThread EXCEPT !.pc = "dead"].iter = NoIter
<1> DEFINE dead == [IdleThread EXCEPT !.pc = "dead"]
<1>1. 0 \in 0 .. m
  OBVIOUS
<1>2. NoIter \in Iters(m)
  BY <1>1 DEF NoIter, Iters
<1>3. /\ IdleThread \in Recs(m) /\ IdleThread.pc = "idle"
      /\ IdleThread.inst = 0 /\ IdleThread.iter = NoIter
  BY <1>1, <1>2 DEF IdleThread, Recs, Pcs
<1>4. dead \in Recs(m) /\ dead.pc = "dead" /\ dead.inst = 0 /\ dead.iter = NoIter
  BY <1>3, PcRec DEF Pcs
<1>5. QED
  BY <1>3, <1>4 DEF ThreadOK, Locking

-----------------------------------------------------------------------------
(* What each action does to the thread that takes it, and that it keeps    *)
(* the types.  Only(t): the other threads' records stay.                   *)
Only(t) == \A u \in Threads : u # t => th'[u] = th[u]

LEMMA HeadTail ==
  ASSUME NEW S, NEW s \in Seq(S), s # << >>
  PROVE  /\ Head(s) = s[1] /\ s[1] \in S /\ Tail(s) \in Seq(S)
         /\ Len(Tail(s)) = Len(s) - 1 /\ Len(s) \in Nat \ {0}
         /\ \A k \in 1 .. Len(s) - 1 : Tail(s)[k] = s[k + 1]
  OBVIOUS

LEMMA PopEffect ==
  ASSUME TInv, NEW t \in Threads, NEW n \in Lens, PopInstance(t, n)
  PROVE  /\ TInv' /\ Only(t) /\ th[t].pc = "idle" /\ th[t].inst = 0
         /\ th'[t].pc = "want" /\ th'[t].inst = Head(pool)
         /\ th[t].iter = NoIter /\ th'[t].iter = NoIter
<1> DEFINE r == [th[t] EXCEPT !.pc = "want", !.inst = Head(pool), !.len = n]
<1>1. /\ th[t].pc = "idle" /\ th[t].iter = NoIter /\ pool # << >> /\ pool' = Tail(pool)
      /\ th' = [th EXCEPT ![t] = r] /\ calls' = calls + 1
      /\ UNCHANGED <<made, insts, lock, arrays, faults, broken>>
  BY DEF PopInstance
<1>2. Head(pool) \in 1 .. made /\ Tail(pool) \in Seq(1 .. made)
  BY <1>1, TypeIs, HeadTail
<1>3. r \in Recs(made) /\ r.pc = "want" /\ r.inst = Head(pool) /\ r.len = n
      /\ r.iter = th[t].iter
  <2>1. th[t] \in Recs(made) /\ Head(pool) \in 0 .. made /\ n \in Nat
    BY <1>2, TypeIs, PoolAssumption
  <2>2. QED
    BY <2>1 DEF Recs, Pcs
<1> HIDE DEF r
<1>4. ThreadOK(r)
  BY <1>1, <1>2, <1>3 DEF ThreadOK, Locking
<1>5. made' \in Nat /\ made <= made' /\ r \in Recs(made')
  BY <1>1, <1>3, TypeIs
<1>6. th' \in [Threads -> Recs(made')] /\ ThreadInv' /\ th'[t] = r /\ Only(t)
  BY <1>1, <1>4, <1>5, ThreadSet DEF Only
<1>7. TInv'
  BY <1>1, <1>2, <1>6, TypeIs, TypeFrom
<1>8. QED
  BY <1>1, <1>3, <1>6, <1>7, TypeIs DEF ThreadOK

(* A new instance is made for thread t.                                    *)
LEMMA MakeEffect ==
  ASSUME TInv, NEW t \in Threads, NEW n \in Lens, MakeInstance(t, n)
  PROVE  /\ TInv' /\ Only(t) /\ th[t].pc = "idle" /\ th[t].inst = 0 /\ pool = << >>
         /\ th[t].iter = NoIter
         /\ UNCHANGED <<pool, insts, lock, arrays, broken>>
         /\ \/ UNCHANGED <<made, th>>
            \/ /\ made' = made + 1 /\ th'[t].pc = "want" /\ th'[t].inst = made + 1
               /\ th'[t].iter = NoIter
<1> DEFINE r == [th[t] EXCEPT !.pc = "want", !.inst = made + 1, !.len = n]
<1>1. /\ th[t].pc = "idle" /\ th[t].iter = NoIter /\ pool = << >> /\ calls' = calls + 1
      /\ UNCHANGED <<pool, insts, lock, arrays, broken>>
  BY DEF MakeInstance
<1>2. th[t].inst = 0
  BY <1>1, TypeIs DEF ThreadOK
<1>3. CASE /\ made < MaxInstances /\ made' = made + 1 /\ th' = [th EXCEPT ![t] = r]
           /\ UNCHANGED faults
  <2>1. made' \in Nat /\ made <= made' /\ made + 1 \in 1 .. made'
        /\ made' \in 0 .. MaxInstances /\ 1 .. made \subseteq 1 .. made'
    BY <1>3, TypeIs, PoolAssumption
  <2>2. th[t] \in Recs(made')
    BY <2>1, TypeIs, RecsGrow
  <2>3. r \in Recs(made') /\ r.pc = "want" /\ r.inst = made + 1 /\ r.len = n
        /\ r.iter = th[t].iter
    <3>1. made + 1 \in 0 .. made' /\ n \in Nat
      BY <2>1, PoolAssumption
    <3>2. QED
      BY <2>2, <3>1 DEF Recs, Pcs
  <2> HIDE DEF r
  <2>4. ThreadOK(r)
    BY <1>1, <2>1, <2>3 DEF ThreadOK, Locking
  <2>5. th' \in [Threads -> Recs(made')] /\ ThreadInv' /\ th'[t] = r /\ Only(t)
    BY <1>3, <2>1, <2>3, <2>4, ThreadSet DEF Only
  <2>6. /\ pool' \in Seq(1 .. made') /\ lock' \subseteq 1 .. made'
        /\ arrays' \subseteq Threads \X (1 .. made') /\ broken' \subseteq 1 .. made'
        /\ calls' \in Nat /\ faults' \in Nat
        /\ insts' \in [1 .. MaxInstances -> Insts]
    BY <1>1, <1>3, <2>1, TypeIs
  <2>7. TInv'
    BY <2>1, <2>5, <2>6, TypeFrom
  <2>8. QED
    BY <1>1, <1>2, <1>3, <2>3, <2>5, <2>7
<1>4. CASE Fault("new") /\ UNCHANGED <<made, th>>
  <2>1. faults' \in Nat /\ calls' \in Nat
    BY <1>1, <1>4, TypeIs DEF Fault
  <2>2. ThreadInv'
    BY <1>4 DEF TInv, ThreadInv
  <2>3. TInv'
    BY <1>1, <1>4, <2>1, <2>2, TypeIs, TypeFrom
  <2>4. QED
    BY <1>1, <1>2, <1>4, <2>3 DEF Only
<1>5. QED
  BY <1>3, <1>4 DEF MakeInstance

(* Thread t goes on to p with the same instance and the same iterator.     *)
LEMMA PcEffect ==
  ASSUME TInv, NEW t \in Threads, NEW p \in Pcs, UNCHANGED made,
         th' = [th EXCEPT ![t] = [th[t] EXCEPT !.pc = p]],
         ThreadOK([th[t] EXCEPT !.pc = p])
  PROVE  /\ th' \in [Threads -> Recs(made')] /\ ThreadInv' /\ Only(t)
         /\ th'[t].pc = p /\ th'[t].inst = th[t].inst /\ th'[t].len = th[t].len
         /\ th'[t].iter = th[t].iter
<1> DEFINE r == [th[t] EXCEPT !.pc = p]
<1>1. th[t] \in Recs(made) /\ made \in Nat
  BY TypeIs
<1>2. r \in Recs(made) /\ r.pc = p /\ r.inst = th[t].inst /\ r.len = th[t].len
      /\ r.iter = th[t].iter
  BY <1>1 DEF Recs
<1>3. th' = [th EXCEPT ![t] = r] /\ ThreadOK(r)
  OBVIOUS
<1> HIDE DEF r
<1>4. made' \in Nat /\ made <= made' /\ r \in Recs(made')
  BY <1>1, <1>2
<1>5. QED
  BY <1>2, <1>3, <1>4, ThreadSet DEF Only

LEMMA LockEffect ==
  ASSUME TInv, NEW t \in Threads, LockInstance(t)
  PROVE  /\ TInv' /\ Only(t) /\ th[t].pc = "want" /\ th[t].inst \notin lock
         /\ th'[t].pc = "locked" /\ th'[t].inst = th[t].inst /\ th'[t].len = th[t].len
         /\ th'[t].iter = th[t].iter
<1>1. /\ th[t].pc = "want" /\ th[t].inst \notin lock /\ lock' = lock \union {th[t].inst}
      /\ th' = [th EXCEPT ![t] = [th[t] EXCEPT !.pc = "locked"]]
      /\ UNCHANGED <<pool, made, insts, arrays, calls, faults, broken>>
  BY DEF LockInstance, hist
<1>2. th[t] \in Recs(made) /\ ThreadOK(th[t])
  BY TypeIs
<1>3. ThreadOK([th[t] EXCEPT !.pc = "locked"])
  BY <1>1, <1>2 DEF ThreadOK, Locking, Recs, Pcs
<1>4. /\ th' \in [Threads -> Recs(made')] /\ ThreadInv' /\ Only(t)
      /\ th'[t].pc = "locked" /\ th'[t].inst = th[t].inst /\ th'[t].len = th[t].len
      /\ th'[t].iter = th[t].iter
  BY <1>1, <1>3, PcEffect DEF Pcs
<1>5. lock' \subseteq 1 .. made
  BY <1>1, <1>2, TypeIs DEF ThreadOK, Recs
<1>6. TInv'
  BY <1>1, <1>4, <1>5, TypeIs, TypeFrom
<1>7. QED
  BY <1>1, <1>4, <1>6

LEMMA PushEffect ==
  ASSUME TInv, NEW t \in Threads, PushInstance(t)
  PROVE  /\ TInv' /\ Only(t) /\ th[t].pc = "ok" /\ th[t].inst \in 1 .. made
         /\ th'[t].pc = "pushed" /\ th'[t].inst = th[t].inst /\ th'[t].len = th[t].len
         /\ th'[t].iter = th[t].iter
<1>1. /\ th[t].pc = "ok" /\ pool' = Append(pool, th[t].inst)
      /\ th' = [th EXCEPT ![t] = [th[t] EXCEPT !.pc = "pushed"]]
      /\ UNCHANGED <<made, insts, lock, arrays, calls, faults, broken>>
  BY DEF PushInstance, hist
<1>2. th[t] \in Recs(made) /\ ThreadOK(th[t])
  BY TypeIs
<1>3. ThreadOK([th[t] EXCEPT !.pc = "pushed"])
  BY <1>1, <1>2 DEF ThreadOK, Locking, Recs, Pcs
<1>4. /\ th' \in [Threads -> Recs(made')] /\ ThreadInv' /\ Only(t)
      /\ th'[t].pc = "pushed" /\ th'[t].inst = th[t].inst /\ th'[t].len = th[t].len
      /\ th'[t].iter = th[t].iter
  BY <1>1, <1>3, PcEffect DEF Pcs
<1>5. th[t].inst \in 1 .. made
  BY <1>1, <1>2, TypeIs DEF ThreadOK, Locking, Recs
<1>6. pool' \in Seq(1 .. made)
  BY <1>1, <1>5, TypeIs
<1>7. TInv'
  BY <1>1, <1>4, <1>6, TypeIs, TypeFrom
<1>8. QED
  BY <1>1, <1>4, <1>5, <1>7

LEMMA OkEffect ==
  ASSUME TInv, NEW t \in Threads, CallOk(t)
  PROVE  /\ TInv' /\ Only(t) /\ th[t].pc = "locked" /\ th[t].inst \in 1 .. made
         /\ th'[t].pc = "ok" /\ th'[t].inst = th[t].inst /\ th'[t].len = th[t].len
         /\ th[t].iter = NoIter /\ th'[t].iter.inst = th[t].inst
<1> DEFINE i == th[t].inst
           s == Prepared(insts[i], th[t].len)
           x == [inst |-> i, ptr |-> s.ptr, left |-> MaxBuffers]
           r == [th[t] EXCEPT !.pc = "ok", !.iter = x]
<1>1. /\ th[t].pc = "locked" /\ insts' = [insts EXCEPT ![i] = s]
      /\ th' = [th EXCEPT ![t] = r]
      /\ UNCHANGED <<pool, made, lock, arrays, calls, faults, broken>>
  BY DEF CallOk, hist
<1>2. /\ th[t] \in Recs(made) /\ ThreadOK(th[t]) /\ made \in Nat
      /\ insts \in [1 .. MaxInstances -> Insts] /\ made \in 0 .. MaxInstances
  BY TypeIs
<1>3. i \in 1 .. made /\ th[t].iter = NoIter /\ th[t].len \in Lens /\ th[t].len \in Nat
  BY <1>1, <1>2 DEF ThreadOK, Locking, Recs
<1>4. i \in 1 .. MaxInstances
  BY <1>2, <1>3, PoolAssumption
<1>5. s \in Insts
  BY <1>2, <1>3, <1>4, PreparedType
<1>6. s.ptr \in Nat
  BY <1>5 DEF Insts
<1>7. x \in Iters(made) /\ x.inst = i
  BY <1>3, <1>6, PoolAssumption DEF Iters
<1> HIDE DEF x
<1>8. r \in Recs(made) /\ r.pc = "ok" /\ r.inst = i /\ r.len = th[t].len /\ r.iter = x
  BY <1>2, <1>7 DEF Recs, Pcs
<1> HIDE DEF r
<1>9. ThreadOK(r)
  BY <1>3, <1>7, <1>8 DEF ThreadOK, Locking
<1>10. made' \in Nat /\ made <= made' /\ r \in Recs(made')
  BY <1>1, <1>2, <1>8
<1>11. th' \in [Threads -> Recs(made')] /\ ThreadInv' /\ th'[t] = r /\ Only(t)
  BY <1>1, <1>9, <1>10, ThreadSet DEF Only
<1> HIDE DEF s
<1>12. insts' \in [1 .. MaxInstances -> Insts]
  BY <1>1, <1>2, <1>5
<1>13. TInv'
  BY <1>1, <1>11, <1>12, TypeIs, TypeFrom
<1>14. QED
  BY <1>1, <1>3, <1>7, <1>8, <1>11, <1>13

LEMMA ErrEffect ==
  ASSUME TInv, NEW t \in Threads, CallErr(t)
  PROVE  /\ TInv' /\ Only(t) /\ th[t].pc = "locked" /\ th[t].inst \in 1 .. made
         /\ th'[t].pc = "err" /\ th'[t].inst = th[t].inst /\ th'[t].len = th[t].len
         /\ th[t].iter = NoIter /\ th'[t].iter = NoIter
<1> DEFINE i == th[t].inst
           n == th[t].len
<1>1. /\ th[t].pc = "locked" /\ broken' = broken \union {i}
      /\ th' = [th EXCEPT ![t] = [th[t] EXCEPT !.pc = "err"]]
      /\ UNCHANGED <<pool, made, lock, arrays, calls>>
  BY DEF CallErr
<1>2. \/ insts' = [insts EXCEPT ![i] = Prepared(insts[i], n)]
      \/ \E null \in BOOLEAN : insts' = [insts EXCEPT ![i] = Unprepared(insts[i], n, null)]
  BY DEF CallErr
<1>3. /\ th[t] \in Recs(made) /\ ThreadOK(th[t]) /\ made \in Nat
      /\ insts \in [1 .. MaxInstances -> Insts] /\ made \in 0 .. MaxInstances
  BY TypeIs
<1>4. i \in 1 .. made /\ th[t].iter = NoIter /\ n \in Nat
  BY <1>1, <1>3 DEF ThreadOK, Locking, Recs
<1>5. i \in 1 .. MaxInstances
  BY <1>3, <1>4, PoolAssumption
<1>6. /\ Prepared(insts[i], n) \in Insts
      /\ \A null \in BOOLEAN : Unprepared(insts[i], n, null) \in Insts
  BY <1>3, <1>4, <1>5, PreparedType
<1>7. insts' \in [1 .. MaxInstances -> Insts]
  BY <1>2, <1>3, <1>6
<1>8. faults' \in Nat
  BY TypeIs DEF CallErr, Fault
<1>9. ThreadOK([th[t] EXCEPT !.pc = "err"])
  BY <1>1, <1>3 DEF ThreadOK, Locking, Recs, Pcs
<1>10. /\ th' \in [Threads -> Recs(made')] /\ ThreadInv' /\ Only(t)
      /\ th'[t].pc = "err" /\ th'[t].inst = th[t].inst /\ th'[t].len = th[t].len
      /\ th'[t].iter = th[t].iter
  BY <1>1, <1>9, PcEffect DEF Pcs
<1>11. broken' \subseteq 1 .. made
  BY <1>1, <1>4, TypeIs
<1>12. TInv'
  BY <1>1, <1>7, <1>8, <1>10, <1>11, TypeIs, TypeFrom
<1>13. QED
  BY <1>1, <1>4, <1>10, <1>12

LEMMA ReturnEffect ==
  ASSUME TInv, NEW t \in Threads, ReturnIter(t)
  PROVE  /\ TInv' /\ Only(t) /\ th[t].pc = "pushed" /\ th[t].iter.inst = th[t].inst
         /\ th'[t].pc = "idle" /\ th'[t].inst = 0 /\ th'[t].iter = th[t].iter
<1> DEFINE r == [th[t] EXCEPT !.pc = "idle", !.inst = 0, !.len = 0, !.retry = FALSE]
<1>1. /\ th[t].pc = "pushed" /\ lock' = lock \ {th[t].inst}
      /\ th' = [th EXCEPT ![t] = r]
      /\ UNCHANGED <<pool, made, insts, arrays, calls, faults, broken>>
  BY DEF ReturnIter, hist
<1>2. th[t] \in Recs(made) /\ ThreadOK(th[t]) /\ made \in Nat /\ 0 \in 0 .. made
  BY TypeIs
<1>3. r \in Recs(made) /\ r.pc = "idle" /\ r.inst = 0 /\ r.iter = th[t].iter
  <2> DEFINE v == [th[t] EXCEPT !.pc = "idle", !.inst = 0, !.len = 0]
  <2>1. v \in Recs(made) /\ v.pc = "idle" /\ v.inst = 0 /\ v.iter = th[t].iter
    BY <1>2 DEF Recs, Pcs
  <2>2. r = [v EXCEPT !.retry = FALSE]
    OBVIOUS
  <2> HIDE DEF v, r
  <2>3. QED
    BY <2>1, <2>2 DEF Recs
<1> HIDE DEF r
<1>4. ThreadOK(r)
  BY <1>2, <1>3 DEF ThreadOK, Locking
<1>5. made' \in Nat /\ made <= made' /\ r \in Recs(made')
  BY <1>1, <1>2, <1>3
<1>6. th' \in [Threads -> Recs(made')] /\ ThreadInv' /\ th'[t] = r /\ Only(t)
  BY <1>1, <1>4, <1>5, ThreadSet DEF Only
<1>7. TInv'
  BY <1>1, <1>6, TypeIs, TypeFrom
<1>8. QED
  BY <1>1, <1>2, <1>3, <1>6, <1>7 DEF ThreadOK

(* Thread t starts again on a new instance.                                *)
LEMMA RetryEffect ==
  ASSUME TInv, NEW t \in Threads, RetryOnNew(t)
  PROVE  /\ TInv' /\ Only(t) /\ th[t].pc = "err" /\ th[t].inst \in 1 .. made
         /\ th[t].iter = NoIter /\ th'[t].iter = NoIter /\ LetGo(th[t].inst)
         /\ UNCHANGED <<pool, arrays, broken>>
         /\ \/ /\ made' = made + 1 /\ th'[t].pc = "locked" /\ th'[t].inst = made + 1
               /\ lock' = (lock \ {th[t].inst}) \union {made + 1}
            \/ /\ made' = made /\ th'[t].pc = "idle" /\ th'[t].inst = 0
               /\ lock' = lock \ {th[t].inst}
<1> DEFINE i == th[t].inst
           r == [th[t] EXCEPT !.pc = "locked", !.inst = made + 1, !.retry = TRUE]
<1>1. th[t].pc = "err" /\ LetGo(i) /\ UNCHANGED <<pool, arrays, calls, broken>>
  BY DEF RetryOnNew
<1>2. th[t] \in Recs(made) /\ ThreadOK(th[t]) /\ made \in Nat
  BY TypeIs
<1>3. i \in 1 .. made /\ th[t].iter = NoIter /\ th[t].len \in Lens
  BY <1>1, <1>2 DEF ThreadOK, Locking, Recs
<1>4. insts' \in [1 .. MaxInstances -> Insts]
  BY <1>1, <1>3, LetGoIs DEF TInv
<1>5. CASE /\ made < MaxInstances /\ made' = made + 1 /\ th' = [th EXCEPT ![t] = r]
           /\ lock' = (lock \ {i}) \union {made + 1} /\ UNCHANGED faults
  <2>1. made' \in Nat /\ made <= made' /\ made + 1 \in 0 .. made' /\ made + 1 # 0
        /\ made' \in 0 .. MaxInstances /\ 1 .. made \subseteq 1 .. made'
        /\ made + 1 \in 1 .. made'
    BY <1>2, <1>5, TypeIs, PoolAssumption
  <2>2. th[t] \in Recs(made')
    BY <1>2, <2>1, RecsGrow
  <2>3. r \in Recs(made') /\ r.pc = "locked" /\ r.inst = made + 1 /\ r.len = th[t].len
        /\ r.iter = th[t].iter
    <3> DEFINE v == [th[t] EXCEPT !.pc = "locked", !.inst = made + 1]
    <3>1. v \in Recs(made') /\ v.pc = "locked" /\ v.inst = made + 1
          /\ v.len = th[t].len /\ v.iter = th[t].iter
      BY <2>1, <2>2 DEF Recs, Pcs
    <3>2. r = [v EXCEPT !.retry = TRUE]
      OBVIOUS
    <3> HIDE DEF v, r
    <3>3. QED
      BY <3>1, <3>2 DEF Recs
  <2> HIDE DEF r
  <2>4. ThreadOK(r)
    BY <1>3, <2>1, <2>3 DEF ThreadOK, Locking
  <2>5. th' \in [Threads -> Recs(made')] /\ ThreadInv' /\ th'[t] = r /\ Only(t)
    BY <1>5, <2>1, <2>3, <2>4, ThreadSet DEF Only
  <2>6. /\ pool' \in Seq(1 .. made') /\ lock' \subseteq 1 .. made'
        /\ arrays' \subseteq Threads \X (1 .. made') /\ broken' \subseteq 1 .. made'
        /\ calls' \in Nat /\ faults' \in Nat
    BY <1>1, <1>5, <2>1, TypeIs
  <2>7. TInv'
    BY <1>4, <2>1, <2>5, <2>6, TypeFrom
  <2>8. QED
    BY <1>1, <1>3, <1>5, <2>3, <2>5, <2>7
<1>6. CASE /\ Fault("new") /\ th' = [th EXCEPT ![t] = IdleThread]
           /\ lock' = lock \ {i} /\ UNCHANGED made
  <2>1. /\ IdleThread \in Recs(made') /\ ThreadOK(IdleThread) /\ IdleThread.pc = "idle"
        /\ IdleThread.inst = 0 /\ IdleThread.iter = NoIter /\ made' \in Nat /\ made <= made'
    BY <1>2, <1>6, IdleRec
  <2>2. th' \in [Threads -> Recs(made')] /\ ThreadInv' /\ th'[t] = IdleThread /\ Only(t)
    BY <1>6, <2>1, ThreadSet DEF Only
  <2>3. faults' \in Nat
    BY <1>6, TypeIs DEF Fault
  <2>4. TInv'
    BY <1>1, <1>4, <1>6, <2>2, <2>3, TypeIs, TypeFrom
  <2>5. QED
    BY <1>1, <1>3, <1>6, <2>1, <2>2, <2>4
<1>7. QED
  BY <1>5, <1>6 DEF RetryOnNew

LEMMA PanicEffect ==
  ASSUME TInv, NEW t \in Threads, PanicOnRetry(t)
  PROVE  /\ TInv' /\ Only(t) /\ th[t].pc = "err" /\ th[t].inst \in 1 .. made
         /\ th[t].iter = NoIter /\ th'[t].iter = NoIter /\ LetGo(th[t].inst)
         /\ th'[t].pc = "dead" /\ th'[t].inst = 0 /\ lock' = lock \ {th[t].inst}
         /\ UNCHANGED <<made, pool, arrays, broken>>
<1> DEFINE i == th[t].inst
           dead == [IdleThread EXCEPT !.pc = "dead"]
<1>1. /\ th[t].pc = "err" /\ LetGo(i) /\ th' = [th EXCEPT ![t] = dead]
      /\ lock' = lock \ {i} /\ UNCHANGED <<made, pool, arrays, calls, faults, broken>>
  BY DEF PanicOnRetry, hist
<1>2. th[t] \in Recs(made) /\ ThreadOK(th[t]) /\ made \in Nat
  BY TypeIs
<1>3. i \in 1 .. made /\ th[t].iter = NoIter
  BY <1>1, <1>2 DEF ThreadOK, Locking, Recs
<1>4. insts' \in [1 .. MaxInstances -> Insts]
  BY <1>1, <1>3, LetGoIs DEF TInv
<1>5. /\ dead \in Recs(made') /\ ThreadOK(dead) /\ dead.pc = "dead"
      /\ dead.inst = 0 /\ dead.iter = NoIter /\ made' \in Nat /\ made <= made'
  BY <1>1, <1>2, IdleRec
<1> HIDE DEF dead
<1>6. th' \in [Threads -> Recs(made')] /\ ThreadInv' /\ th'[t] = dead /\ Only(t)
  BY <1>1, <1>5, ThreadSet DEF Only
<1>7. TInv'
  BY <1>1, <1>4, <1>6, TypeIs, TypeFrom
<1>8. QED
  BY <1>1, <1>3, <1>5, <1>6, <1>7

LEMMA NextBufferEffect ==
  ASSUME TInv, NEW t \in Threads, NextBuffer(t)
  PROVE  /\ TInv' /\ Only(t) /\ th'[t].pc = th[t].pc /\ th'[t].inst = th[t].inst
         /\ th'[t].len = th[t].len /\ th'[t].iter.inst = th[t].iter.inst
         /\ th[t].pc = "idle" /\ arrays \subseteq arrays'
         /\ UNCHANGED <<pool, made, insts, lock, broken>>
<1> DEFINE x == [th[t].iter EXCEPT !.left = th[t].iter.left - 1]
           r == [th[t] EXCEPT !.iter = x]
<1>1. /\ th[t].pc = "idle" /\ th[t].iter.left > 0 /\ th' = [th EXCEPT ![t] = r]
      /\ arrays' = arrays \union {<<t, th[t].iter.inst>>}
      /\ UNCHANGED <<pool, made, insts, lock, calls, faults, broken>>
  BY DEF NextBuffer, hist
<1>2. th[t] \in Recs(made) /\ ThreadOK(th[t]) /\ made \in Nat
  BY TypeIs
<1>3. th[t].iter \in Iters(made) /\ th[t].iter.inst # 0 /\ th[t].inst = 0
  BY <1>1, <1>2 DEF Recs, ThreadOK, NoIter
<1>4. th[t].iter.inst \in 1 .. made /\ x \in Iters(made) /\ x.inst = th[t].iter.inst
  BY <1>1, <1>2, <1>3 DEF Iters
<1> HIDE DEF x
<1>5. r \in Recs(made) /\ r.pc = th[t].pc /\ r.inst = th[t].inst /\ r.len = th[t].len
      /\ r.iter = x
  BY <1>2, <1>4 DEF Recs
<1> HIDE DEF r
<1>6. ThreadOK(r)
  BY <1>1, <1>3, <1>4, <1>5 DEF ThreadOK, Locking
<1>7. made' \in Nat /\ made <= made' /\ r \in Recs(made')
  BY <1>1, <1>2, <1>5
<1>8. th' \in [Threads -> Recs(made')] /\ ThreadInv' /\ th'[t] = r /\ Only(t)
  BY <1>1, <1>6, <1>7, ThreadSet DEF Only
<1>9. arrays' \subseteq Threads \X (1 .. made)
  BY <1>1, <1>4, TypeIs
<1>10. TInv'
  BY <1>1, <1>8, <1>9, TypeIs, TypeFrom
<1>11. QED
  BY <1>1, <1>4, <1>5, <1>8, <1>10

(* The process aborts: no thread goes on, and nothing is dropped.          *)
LEMMA AbortEffect ==
  ASSUME TInv, NEW t \in Threads, NextAborts(t)
  PROVE  /\ TInv' /\ UNCHANGED <<pool, made, insts, lock, arrays, broken>>
         /\ \A u \in Threads : th'[u].pc = "dead" /\ th'[u].inst = th[u].inst
                               /\ th'[u].iter = th[u].iter
<1>1. /\ th' = [u \in Threads |-> [th[u] EXCEPT !.pc = "dead"]] /\ Fault("guest")
      /\ UNCHANGED <<pool, made, insts, lock, arrays, calls, broken>>
  BY DEF NextAborts
<1>2. ASSUME NEW u \in Threads
      PROVE  /\ th'[u] \in Recs(made) /\ ThreadOK(th'[u]) /\ th'[u].pc = "dead"
             /\ th'[u].inst = th[u].inst /\ th'[u].iter = th[u].iter
  <2>1. th[u] \in Recs(made) /\ ThreadOK(th[u])
    BY TypeIs
  <2>2. th'[u] = [th[u] EXCEPT !.pc = "dead"]
    BY <1>1
  <2>3. th'[u] \in Recs(made) /\ th'[u].pc = "dead"
        /\ th'[u].inst = th[u].inst /\ th'[u].iter = th[u].iter
    BY <2>1, <2>2 DEF Recs, Pcs
  <2>4. QED
    BY <2>1, <2>3 DEF ThreadOK, Locking
<1>3. th' \in [Threads -> Recs(made')] /\ ThreadInv'
  <2>1. th' = [u \in Threads |-> th'[u]]
    BY <1>1
  <2>2. \A u \in Threads : th'[u] \in Recs(made')
    BY <1>1, <1>2
  <2>3. th' \in [Threads -> Recs(made')]
    BY <2>1, <2>2
  <2>4. QED
    BY <1>2, <2>3 DEF ThreadInv
<1>4. faults' \in Nat
  BY <1>1, TypeIs DEF Fault
<1>5. TInv'
  BY <1>1, <1>3, <1>4, TypeIs, TypeFrom
<1>6. QED
  BY <1>1, <1>2, <1>5

LEMMA DropIterEffect ==
  ASSUME TInv, NEW t \in Threads, DropIter(t)
  PROVE  /\ TInv' /\ Only(t) /\ th[t].pc = "idle" /\ th'[t].pc = "idle"
         /\ th[t].inst = 0 /\ th'[t].inst = 0 /\ th'[t].iter = NoIter
         /\ th[t].iter.inst \in 1 .. made /\ LetGo(th[t].iter.inst)
         /\ UNCHANGED <<pool, made, lock, arrays, broken>>
<1> DEFINE i == th[t].iter.inst
           r == [th[t] EXCEPT !.iter = NoIter]
<1>1. /\ th[t].pc = "idle" /\ th[t].iter # NoIter /\ th' = [th EXCEPT ![t] = r]
      /\ LetGo(i) /\ UNCHANGED <<pool, made, lock, arrays, calls, faults, broken>>
  BY DEF DropIter, hist
<1>2. th[t] \in Recs(made) /\ ThreadOK(th[t]) /\ made \in Nat /\ 0 \in 0 .. made
  BY TypeIs
<1>3. th[t].iter \in Iters(made) /\ i # 0 /\ th[t].inst = 0
  BY <1>1, <1>2 DEF Recs, ThreadOK
<1>4. i \in 1 .. made /\ NoIter \in Iters(made)
  BY <1>2, <1>3 DEF Iters, NoIter
<1>5. r \in Recs(made) /\ r.pc = th[t].pc /\ r.inst = th[t].inst /\ r.iter = NoIter
  BY <1>2, <1>4 DEF Recs
<1> HIDE DEF r
<1>6. ThreadOK(r)
  BY <1>1, <1>3, <1>5 DEF ThreadOK, Locking
<1>7. made' \in Nat /\ made <= made' /\ r \in Recs(made')
  BY <1>1, <1>2, <1>5
<1>8. th' \in [Threads -> Recs(made')] /\ ThreadInv' /\ th'[t] = r /\ Only(t)
  BY <1>1, <1>6, <1>7, ThreadSet DEF Only
<1>9. insts' \in [1 .. MaxInstances -> Insts]
  BY <1>1, <1>4, LetGoIs DEF TInv
<1>10. TInv'
  BY <1>1, <1>8, <1>9, TypeIs, TypeFrom
<1>11. QED
  BY <1>1, <1>3, <1>4, <1>5, <1>8, <1>10

LEMMA DropArrayEffect ==
  ASSUME TInv, NEW t \in Threads, NEW i \in 1 .. made, DropArray(t, i)
  PROVE  TInv' /\ LetGo(i) /\ UNCHANGED <<pool, made, lock, th, broken>>
         /\ arrays' = arrays \ {<<t, i>>}
<1>1. /\ arrays' = arrays \ {<<t, i>>} /\ LetGo(i)
      /\ UNCHANGED <<pool, made, lock, th, calls, faults, broken>>
  BY DEF DropArray, hist
<1>2. insts' \in [1 .. MaxInstances -> Insts]
  BY <1>1, LetGoIs DEF TInv
<1>3. ThreadInv'
  BY <1>1 DEF TInv, ThreadInv
<1>4. arrays' \subseteq Threads \X (1 .. made)
  BY <1>1, TypeIs
<1>5. TInv'
  BY <1>1, <1>2, <1>3, <1>4, TypeIs, TypeFrom
<1>6. QED
  BY <1>1, <1>5

LEMMA TypeInit == Init => TInv
<1> SUFFICES ASSUME Init PROVE TInv
  OBVIOUS
<1>1. made = 0 /\ pool \in Seq(1 .. made) /\ made \in 0 .. MaxInstances
  BY PoolAssumption DEF Init
<1>2. insts \in [1 .. MaxInstances -> Insts]
  BY DEF Init, NewInstance, Insts
<1>3. \A t \in Threads : th[t] = IdleThread
  BY DEF Init
<1>4. IdleThread \in Recs(made) /\ ThreadOK(IdleThread)
  BY <1>1, IdleRec
<1>5. th \in [Threads -> Recs(made)] /\ ThreadInv
  BY <1>3, <1>4 DEF Init, ThreadInv
<1>6. QED
  BY <1>1, <1>2, <1>5 DEF Init, TInv, TypeOK, Insts, Recs, Iters, Pcs

LEMMA StutterEffect ==
  ASSUME TInv, UNCHANGED vars
  PROVE  TInv' /\ UNCHANGED <<pool, made, insts, lock, th, arrays, broken>>
<1>1. UNCHANGED <<pool, made, insts, lock, th, arrays, calls, faults, broken>>
  BY DEF vars, hist
<1>2. QED
  BY <1>1 DEF TInv, TypeOK, ThreadInv

LEMMA TypeStep ==
  ASSUME TInv, [Next]_vars
  PROVE  TInv'
<1>1. ASSUME NEW t \in Threads, Step(t)
      PROVE  TInv'
  BY <1>1, PopEffect, MakeEffect, LockEffect, OkEffect, ErrEffect, PushEffect,
     ReturnEffect, RetryEffect, PanicEffect, NextBufferEffect, AbortEffect,
     DropIterEffect, DropArrayEffect DEF Step, CallStep
<1>2. CASE UNCHANGED vars
  BY <1>2, StutterEffect
<1>3. QED
  BY <1>1, <1>2 DEF Next, Terminated

LEMMA TypeInvariant == Spec => []TInv
<1>1. TInv /\ [Next]_vars => TInv'
  BY TypeStep
<1>2. QED
  BY <1>1, TypeInit, PTL DEF Spec

(* Runtime, Instance and BufferIter keep their types whatever the threads  *)
(* do: in particular every Arc points at an instance that has been made.   *)
THEOREM PoolTypeCorrect == Spec => []TypeOK
<1>1. TInv => TypeOK
  BY DEF TInv
<1>2. QED
  BY <1>1, TypeInvariant, PTL

-----------------------------------------------------------------------------
(* Who has an instance.  Steps that leave calls, pool and mutexes alone.   *)
LEMMA OwnFrame ==
  ASSUME OwnInv, UNCHANGED <<pool, lock, broken>>,
         \A u \in Threads : th'[u].pc = th[u].pc /\ th'[u].inst = th[u].inst
  PROVE  OwnInv'
<1>1. MutexInv'
  BY DEF OwnInv, MutexInv
<1>2. PoolOwnership'
  BY DEF OwnInv, PoolOwnership, Taking
<1>3. BrokenRetired'
  BY DEF OwnInv, BrokenRetired
<1>4. QED
  BY <1>1, <1>2, <1>3 DEF OwnInv

(* The instance at the front of the pool becomes the thread's own.         *)
LEMMA OwnPop ==
  ASSUME TInv, OwnInv, NEW t \in Threads, NEW n \in Lens, PopInstance(t, n)
  PROVE  OwnInv'
<1>1. /\ Only(t) /\ th'[t].pc = "want" /\ th'[t].inst = Head(pool) /\ th[t].pc = "idle"
      /\ pool # << >> /\ pool' = Tail(pool) /\ UNCHANGED <<lock, broken>>
  BY PopEffect DEF PopInstance
<1>2. /\ Head(pool) = pool[1] /\ Len(Tail(pool)) = Len(pool) - 1 /\ Len(pool) \in Nat \ {0}
      /\ \A k \in 1 .. Len(pool) - 1 : Tail(pool)[k] = pool[k + 1]
  BY <1>1, TypeIs, HeadTail
<1>3. \A k \in 1 .. Len(pool') : k + 1 \in 1 .. Len(pool) /\ k + 1 # 1 /\ pool'[k] = pool[k + 1]
  BY <1>1, <1>2
<1>4. 1 \in 1 .. Len(pool)
  BY <1>2
<1>5. MutexInv'
  BY <1>1 DEF OwnInv, MutexInv, Locking, Only
<1>6. \A j, k \in 1 .. Len(pool') : pool'[j] = pool'[k] => j = k
  BY <1>3, SMTT(30) DEF OwnInv, PoolOwnership
<1>7. \A u \in Taking' : u # t => u \in Taking /\ th'[u].inst = th[u].inst
  BY <1>1 DEF Taking, Only
<1>8. \A u \in Taking' : \A k \in 1 .. Len(pool') : pool'[k] # th'[u].inst
  BY <1>1, <1>2, <1>3, <1>4, <1>7 DEF OwnInv, PoolOwnership
<1>9. \A u, v \in Taking' : th'[u].inst = th'[v].inst => u = v
  BY <1>1, <1>2, <1>4, <1>7 DEF OwnInv, PoolOwnership
<1>10. PoolOwnership'
  BY <1>6, <1>8, <1>9 DEF PoolOwnership
<1>11. BrokenRetired'
  BY <1>1, <1>2, <1>3, <1>4 DEF OwnInv, BrokenRetired, Only
<1>12. QED
  BY <1>5, <1>10, <1>11 DEF OwnInv

(* An instance that is made belongs to nobody else.                        *)
LEMMA FreshInstance ==
  ASSUME TInv
  PROVE  /\ made + 1 \notin lock /\ made + 1 \notin broken /\ made + 1 # 0
         /\ \A k \in 1 .. Len(pool) : pool[k] # made + 1
         /\ \A u \in Threads : th[u].inst # made + 1 /\ th[u].iter.inst # made + 1
         /\ \A u \in Threads : <<u, made + 1>> \notin arrays
<1>1. made + 1 \notin 1 .. made /\ made + 1 \notin 0 .. made
  BY TypeIs
<1>2. \A u \in Threads : th[u].inst \in 0 .. made /\ th[u].iter.inst \in 0 .. made
  BY TypeIs DEF Recs, Iters
<1>3. \A k \in 1 .. Len(pool) : pool[k] \in 1 .. made
  BY TypeIs
<1>4. QED
  BY <1>1, <1>2, <1>3, TypeIs

LEMMA OwnMake ==
  ASSUME TInv, OwnInv, NEW t \in Threads, NEW n \in Lens, MakeInstance(t, n)
  PROVE  OwnInv'
<1>1. Only(t) /\ th[t].pc = "idle" /\ UNCHANGED <<pool, lock, broken>>
  BY MakeEffect
<1>2. CASE UNCHANGED th
  BY <1>1, <1>2, OwnFrame
<1>3. CASE th'[t].pc = "want" /\ th'[t].inst = made + 1
  <2>1. \A u \in Taking' : u # t => u \in Taking /\ th'[u].inst = th[u].inst
    BY <1>1 DEF Taking, Only
  <2>2. MutexInv'
    BY <1>1, <1>3 DEF OwnInv, MutexInv, Locking, Only
  <2>3. \A u \in Taking' : \A k \in 1 .. Len(pool') : pool'[k] # th'[u].inst
    BY <1>1, <1>3, <2>1, FreshInstance DEF OwnInv, PoolOwnership
  <2>4. \A u, v \in Taking' : th'[u].inst = th'[v].inst => u = v
    BY <1>1, <1>3, <2>1, FreshInstance DEF OwnInv, PoolOwnership, Taking
  <2>5. PoolOwnership'
    BY <1>1, <2>3, <2>4 DEF OwnInv, PoolOwnership
  <2>6. BrokenRetired'
    BY <1>1, <1>3, FreshInstance DEF OwnInv, BrokenRetired, Only
  <2>7. QED
    BY <2>2, <2>5, <2>6 DEF OwnInv
<1>4. QED
  BY <1>2, <1>3, MakeEffect

LEMMA OwnLock ==
  ASSUME TInv, OwnInv, NEW t \in Threads, LockInstance(t)
  PROVE  OwnInv'
<1>1. /\ Only(t) /\ th[t].pc = "want" /\ th'[t].pc = "locked" /\ th'[t].inst = th[t].inst
      /\ th[t].inst \notin lock /\ lock' = lock \union {th[t].inst}
      /\ UNCHANGED <<pool, broken>>
  BY LockEffect DEF LockInstance, hist
<1>2. \A u \in Threads : u # t /\ th'[u].pc \in Locking => th'[u].inst # th[t].inst
  BY <1>1 DEF OwnInv, MutexInv, Only
<1>3. MutexInv'
  BY <1>1, <1>2 DEF OwnInv, MutexInv, Only
<1>4. Taking' = Taking /\ \A u \in Threads : th'[u].inst = th[u].inst
  BY <1>1 DEF Taking, Only
<1>5. PoolOwnership'
  BY <1>1, <1>4 DEF OwnInv, PoolOwnership, Taking
<1>6. BrokenRetired'
  BY <1>1 DEF OwnInv, BrokenRetired, Only
<1>7. QED
  BY <1>3, <1>5, <1>6 DEF OwnInv

LEMMA OwnOk ==
  ASSUME TInv, OwnInv, NEW t \in Threads, CallOk(t)
  PROVE  OwnInv'
<1>1. /\ Only(t) /\ th[t].pc = "locked" /\ th'[t].pc = "ok" /\ th'[t].inst = th[t].inst
      /\ UNCHANGED <<pool, lock, broken>>
  BY OkEffect DEF CallOk, hist
<1>2. MutexInv'
  BY <1>1 DEF OwnInv, MutexInv, Locking, Only
<1>3. Taking' = Taking /\ \A u \in Threads : th'[u].inst = th[u].inst
  BY <1>1 DEF Taking, Only
<1>4. PoolOwnership'
  BY <1>1, <1>3 DEF OwnInv, PoolOwnership, Taking
<1>5. BrokenRetired'
  BY <1>1 DEF OwnInv, BrokenRetired, Only
<1>6. QED
  BY <1>2, <1>4, <1>5 DEF OwnInv

(* No other thread is near the instance on which the call fails.           *)
LEMMA OwnErr ==
  ASSUME TInv, OwnInv, NEW t \in Threads, CallErr(t)
  PROVE  OwnInv'
<1>1. /\ Only(t) /\ th[t].pc = "locked" /\ th'[t].pc = "err" /\ th'[t].inst = th[t].inst
      /\ broken' = broken \union {th[t].inst} /\ UNCHANGED <<pool, lock>>
  BY ErrEffect DEF CallErr
<1>2. MutexInv'
  BY <1>1 DEF OwnInv, MutexInv, Locking, Only
<1>3. Taking' = Taking /\ \A u \in Threads : th'[u].inst = th[u].inst
  BY <1>1 DEF Taking, Only
<1>4. PoolOwnership'
  BY <1>1, <1>3 DEF OwnInv, PoolOwnership, Taking
<1>5. t \in Taking /\ th[t].pc \in Locking /\ th[t].inst # 0
  BY <1>1, TypeIs DEF Taking, Locking, ThreadOK
<1>6. \A k \in 1 .. Len(pool) : pool[k] # th[t].inst
  BY <1>5 DEF OwnInv, PoolOwnership
<1>7. ASSUME NEW u \in Threads, u # t, th[u].inst = th[t].inst
      PROVE  th[u].pc = "dead"
  <2>1. u \notin Taking /\ th[u].pc \notin Locking
    BY <1>5, <1>7 DEF OwnInv, PoolOwnership, MutexInv
  <2>2. th[u] \in Recs(made) /\ ThreadOK(th[u])
    BY TypeIs
  <2>3. th[u].pc \in Pcs /\ th[u].pc # "idle"
    BY <1>5, <1>7, <2>2 DEF Recs, ThreadOK
  <2>4. QED
    BY <2>1, <2>3 DEF Taking, Locking, Pcs
<1>8. BrokenRetired'
  BY <1>1, <1>6, <1>7 DEF OwnInv, BrokenRetired, Only
<1>9. QED
  BY <1>2, <1>4, <1>8 DEF OwnInv

LEMMA OwnPush ==
  ASSUME TInv, OwnInv, NEW t \in Threads, PushInstance(t)
  PROVE  OwnInv'
<1> DEFINE i == th[t].inst
<1>1. /\ Only(t) /\ th[t].pc = "ok" /\ th'[t].pc = "pushed" /\ th'[t].inst = i
      /\ pool' = Append(pool, i) /\ i \in 1 .. made /\ UNCHANGED <<lock, broken>>
  BY PushEffect DEF PushInstance, hist
<1>2. /\ Len(pool') = Len(pool) + 1 /\ Len(pool) \in Nat /\ pool'[Len(pool) + 1] = i
      /\ \A k \in 1 .. Len(pool) : pool'[k] = pool[k]
  BY <1>1, TypeIs
<1>3. t \in Taking /\ \A u \in Taking' : u # t /\ u \in Taking /\ th'[u].inst = th[u].inst
  BY <1>1 DEF Taking, Only
<1>4. \A k \in 1 .. Len(pool) : pool[k] # i
  BY <1>3 DEF OwnInv, PoolOwnership
<1>5. \A k \in 1 .. Len(pool') : k \in 1 .. Len(pool) \/ k = Len(pool) + 1
  BY <1>2
<1>6. MutexInv'
  BY <1>1 DEF OwnInv, MutexInv, Locking, Only
<1>7. \A j, k \in 1 .. Len(pool') : pool'[j] = pool'[k] => j = k
  BY <1>2, <1>4, <1>5 DEF OwnInv, PoolOwnership
<1>8. \A u \in Taking' : \A k \in 1 .. Len(pool') : pool'[k] # th'[u].inst
  BY <1>2, <1>3, <1>5 DEF OwnInv, PoolOwnership
<1>9. \A u, v \in Taking' : th'[u].inst = th'[v].inst => u = v
  BY <1>3 DEF OwnInv, PoolOwnership
<1>10. i \notin broken
  BY <1>1 DEF OwnInv, BrokenRetired
<1>11. BrokenRetired'
  BY <1>1, <1>2, <1>5, <1>10 DEF OwnInv, BrokenRetired, Only
<1>12. QED
  BY <1>6, <1>7, <1>8, <1>9, <1>11 DEF OwnInv, PoolOwnership

(* A thread unlocks its instance and gives it up.                          *)
LEMMA OwnUnlock ==
  ASSUME TInv, OwnInv, NEW t \in Threads, Only(t), th[t].pc \in {"err", "pushed"},
         th'[t].pc \in {"idle", "dead"}, th'[t].inst = 0,
         lock' = lock \ {th[t].inst}, UNCHANGED <<pool, broken>>
  PROVE  OwnInv'
<1>1. \A u \in Threads : u # t /\ th[u].pc \in Locking => th[u].inst # th[t].inst
  BY DEF OwnInv, MutexInv, Locking
<1>2. MutexInv'
  BY <1>1 DEF OwnInv, MutexInv, Locking, Only
<1>3. \A u \in Taking' : u \in Taking /\ th'[u].inst = th[u].inst
  BY DEF Taking, Only
<1>4. PoolOwnership'
  BY <1>3 DEF OwnInv, PoolOwnership
<1>5. 0 \notin broken
  BY TypeIs
<1>6. BrokenRetired'
  BY <1>5 DEF OwnInv, BrokenRetired, Only
<1>7. QED
  BY <1>2, <1>4, <1>6 DEF OwnInv

LEMMA OwnRetry ==
  ASSUME TInv, OwnInv, NEW t \in Threads, RetryOnNew(t)
  PROVE  OwnInv'
<1> DEFINE i == th[t].inst
<1>1. Only(t) /\ th[t].pc = "err" /\ UNCHANGED <<pool, broken>>
  BY RetryEffect
<1>2. CASE /\ th'[t].pc = "locked" /\ th'[t].inst = made + 1
           /\ lock' = (lock \ {i}) \union {made + 1}
  <2>1. \A u \in Threads : u # t /\ th[u].pc \in Locking => th[u].inst # i
    BY <1>1 DEF OwnInv, MutexInv, Locking
  <2>2. MutexInv'
    BY <1>1, <1>2, <2>1, FreshInstance DEF OwnInv, MutexInv, Locking, Only
  <2>3. \A u \in Taking' : u # t => u \in Taking /\ th'[u].inst = th[u].inst
    BY <1>1 DEF Taking, Only
  <2>4. \A u \in Taking' : \A k \in 1 .. Len(pool') : pool'[k] # th'[u].inst
    BY <1>1, <1>2, <2>3, FreshInstance DEF OwnInv, PoolOwnership
  <2>5. \A u, v \in Taking' : th'[u].inst = th'[v].inst => u = v
    BY <1>1, <1>2, <2>3, FreshInstance DEF OwnInv, PoolOwnership, Taking
  <2>6. BrokenRetired'
    BY <1>1, <1>2, FreshInstance DEF OwnInv, BrokenRetired, Only
  <2>7. QED
    BY <1>1, <2>2, <2>4, <2>5, <2>6 DEF OwnInv, PoolOwnership
<1>3. CASE th'[t].pc = "idle" /\ th'[t].inst = 0 /\ lock' = lock \ {i}
  BY <1>1, <1>3, OwnUnlock
<1>4. QED
  BY <1>2, <1>3, RetryEffect

LEMMA OwnAbort ==
  ASSUME TInv, OwnInv, NEW t \in Threads, NextAborts(t)
  PROVE  OwnInv'
<1>1. UNCHANGED <<pool, lock, broken>>
      /\ \A u \in Threads : th'[u].pc = "dead" /\ th'[u].inst = th[u].inst
  BY AbortEffect
<1>2. Taking' = {} /\ MutexInv'
  BY <1>1 DEF Taking, MutexInv, Locking
<1>3. QED
  BY <1>1, <1>2 DEF OwnInv, PoolOwnership, BrokenRetired

LEMMA OwnStep ==
  ASSUME TInv, OwnInv, [Next]_vars
  PROVE  OwnInv'
<1>1. ASSUME NEW t \in Threads, Step(t)
      PROVE  OwnInv'
  <2>1. CASE \E n \in Lens : PopInstance(t, n) \/ MakeInstance(t, n)
    BY <2>1, OwnPop, OwnMake
  <2>2. CASE ReturnIter(t)
    BY <2>2, ReturnEffect, OwnUnlock DEF ReturnIter, hist
  <2>3. CASE PanicOnRetry(t)
    BY <2>3, PanicEffect, OwnUnlock
  <2>4. CASE LockInstance(t) \/ CallOk(t) \/ CallErr(t) \/ PushInstance(t) \/ RetryOnNew(t)
    BY <2>4, OwnLock, OwnOk, OwnErr, OwnPush, OwnRetry
  <2>5. CASE NextBuffer(t)
    BY <2>5, NextBufferEffect, OwnFrame DEF Only
  <2>6. CASE NextAborts(t)
    BY <2>6, OwnAbort
  <2>7. CASE DropIter(t)
    BY <2>7, DropIterEffect, OwnFrame DEF Only
  <2>8. ASSUME NEW i \in 1 .. made, DropArray(t, i)
        PROVE  OwnInv'
    BY <2>8, DropArrayEffect, OwnFrame
  <2>9. QED
    BY <1>1, <2>1, <2>2, <2>3, <2>4, <2>5, <2>6, <2>7, <2>8 DEF Step, CallStep
<1>2. CASE UNCHANGED vars
  BY <1>2, StutterEffect, OwnFrame
<1>3. QED
  BY <1>1, <1>2 DEF Next, Terminated

LEMMA OwnInit == Init => OwnInv
  BY DEF Init, OwnInv, MutexInv, PoolOwnership, BrokenRetired, Taking, Locking,
         IdleThread

LEMMA OwnInvariant == Spec => [](TInv /\ OwnInv)
<1>1. TInv /\ OwnInv /\ [Next]_vars => TInv' /\ OwnInv'
  BY TypeStep, OwnStep
<1>2. QED
  BY <1>1, TypeInit, OwnInit, PTL DEF Spec

(* For any number of threads and calls: an instance is in the pool once or *)
(* with one call of call_multi_buf, and two calls never run on the same    *)
(* instance, although it goes back to the pool while its mutex is held.    *)
THEOREM OwnershipCorrect == Spec => []PoolOwnership
<1>1. OwnInv => PoolOwnership
  BY DEF OwnInv
<1>2. QED
  BY <1>1, OwnInvariant, PTL

(* An instance on which call_generic_function has failed never comes back  *)
(* into the pool and no thread gets it again, retries included.            *)
THEOREM FailedRetired == Spec => []BrokenRetired
<1>1. OwnInv => BrokenRetired
  BY DEF OwnInv
<1>2. QED
  BY <1>1, OwnInvariant, PTL

-----------------------------------------------------------------------------
(* No instance is lost.  A failed call's instance is known to have failed, *)
(* so giving it up loses nothing.                                          *)
ErrBroken == \A t \in Threads : th[t].pc = "err" => th[t].inst \in broken
KeptInv == InstancesKept /\ ErrBroken

LEMMA KeptFrame ==
  ASSUME KeptInv, UNCHANGED <<pool, made, broken>>,
         \A t \in Threads : th'[t].pc = th[t].pc /\ th'[t].inst = th[t].inst
  PROVE  KeptInv'
  BY DEF KeptInv, InstancesKept, ErrBroken

LEMMA KeptPop ==
  ASSUME TInv, KeptInv, NEW t \in Threads, NEW n \in Lens, PopInstance(t, n)
  PROVE  KeptInv'
<1>1. /\ Only(t) /\ th[t].inst = 0 /\ th'[t].pc = "want" /\ th'[t].inst = Head(pool)
      /\ pool # << >> /\ pool' = Tail(pool) /\ UNCHANGED <<made, broken>>
  BY PopEffect DEF PopInstance
<1>2. /\ Head(pool) = pool[1] /\ Len(pool') = Len(pool) - 1 /\ Len(pool) \in Nat \ {0}
      /\ \A k \in 1 .. Len(pool) - 1 : pool'[k] = pool[k + 1]
  BY <1>1, TypeIs, HeadTail
<1>3. ErrBroken'
  BY <1>1 DEF KeptInv, ErrBroken, Only
<1>4. ASSUME NEW i \in (1 .. made) \ broken
      PROVE  \/ \E k \in 1 .. Len(pool') : pool'[k] = i
             \/ \E u \in Threads : th'[u].inst = i /\ th'[u].pc # "pushed"
  <2>1. CASE \E u \in Threads : th[u].inst = i /\ th[u].pc # "pushed"
    BY <1>1, <2>1 DEF Only
  <2>2. ASSUME NEW k \in 1 .. Len(pool), pool[k] = i
        PROVE  \/ \E j \in 1 .. Len(pool') : pool'[j] = i
               \/ \E u \in Threads : th'[u].inst = i /\ th'[u].pc # "pushed"
    <3>1. CASE k = 1
      BY <1>1, <1>2, <2>2, <3>1
    <3>2. CASE k # 1
      <4>1. k - 1 \in 1 .. Len(pool') /\ pool'[k - 1] = i
        BY <1>2, <2>2, <3>2
      <4>2. QED
        BY <4>1
    <3>3. QED
      BY <3>1, <3>2
  <2>3. QED
    BY <2>1, <2>2 DEF KeptInv, InstancesKept
<1>5. QED
  BY <1>1, <1>3, <1>4 DEF KeptInv, InstancesKept

LEMMA KeptMake ==
  ASSUME TInv, KeptInv, NEW t \in Threads, NEW n \in Lens, MakeInstance(t, n)
  PROVE  KeptInv'
<1>1. Only(t) /\ th[t].inst = 0 /\ UNCHANGED <<pool, broken>>
  BY MakeEffect
<1>2. CASE UNCHANGED <<made, th>>
  BY <1>1, <1>2, KeptFrame
<1>3. CASE made' = made + 1 /\ th'[t].pc = "want" /\ th'[t].inst = made + 1
  <2>1. \A i \in (1 .. made') \ broken' : i = made + 1 \/ i \in (1 .. made) \ broken
    BY <1>1, <1>3, TypeIs
  <2>2. InstancesKept'
    BY <1>1, <1>3, <2>1 DEF KeptInv, InstancesKept, Only
  <2>3. ErrBroken'
    BY <1>1, <1>3 DEF KeptInv, ErrBroken, Only
  <2>4. QED
    BY <2>2, <2>3 DEF KeptInv
<1>4. QED
  BY <1>2, <1>3, MakeEffect

(* A call goes on with its instance, which may have failed meanwhile.      *)
LEMMA KeptOn ==
  ASSUME KeptInv, NEW t \in Threads, Only(t), th'[t].inst = th[t].inst,
         th'[t].pc # "pushed", th'[t].pc = "err" => th'[t].inst \in broken',
         broken \subseteq broken', UNCHANGED <<pool, made>>
  PROVE  KeptInv'
  BY DEF KeptInv, InstancesKept, ErrBroken, Only

LEMMA KeptPush ==
  ASSUME TInv, KeptInv, NEW t \in Threads, PushInstance(t)
  PROVE  KeptInv'
<1> DEFINE i == th[t].inst
<1>1. /\ Only(t) /\ th'[t].pc = "pushed" /\ th'[t].inst = i
      /\ pool' = Append(pool, i) /\ UNCHANGED <<made, broken>>
  BY PushEffect DEF PushInstance, hist
<1>2. /\ Len(pool') = Len(pool) + 1 /\ Len(pool) \in Nat /\ pool'[Len(pool) + 1] = i
      /\ \A k \in 1 .. Len(pool) : pool'[k] = pool[k]
  BY <1>1, PushEffect, TypeIs
<1>3. \E k \in 1 .. Len(pool') : pool'[k] = i
  BY <1>2
<1>4. \A j : (\E k \in 1 .. Len(pool) : pool[k] = j) => \E k \in 1 .. Len(pool') : pool'[k] = j
  BY <1>2
<1>5. InstancesKept'
  BY <1>1, <1>3, <1>4 DEF KeptInv, InstancesKept, Only
<1>6. ErrBroken'
  BY <1>1 DEF KeptInv, ErrBroken, Only
<1>7. QED
  BY <1>5, <1>6 DEF KeptInv

(* A call gives up an instance that is back in the pool or has failed, and *)
(* has none, or a new one, from then on.                                   *)
LEMMA KeptGiveUp ==
  ASSUME TInv, KeptInv, NEW t \in Threads, Only(t),
         th[t].pc = "pushed" \/ th[t].inst \in broken,
         th'[t].pc \notin {"err", "pushed"}, UNCHANGED <<pool, broken>>,
         made' = made \/ (made' = made + 1 /\ th'[t].inst = made + 1)
  PROVE  KeptInv'
<1>1. \A i \in (1 .. made') \ broken' :
        \/ i \in (1 .. made) \ broken
        \/ i = made + 1 /\ th'[t].inst = i
  BY TypeIs
<1>2. InstancesKept'
  BY <1>1 DEF KeptInv, InstancesKept, Only
<1>3. ErrBroken'
  BY DEF KeptInv, ErrBroken, Only
<1>4. QED
  BY <1>2, <1>3 DEF KeptInv

LEMMA KeptAbort ==
  ASSUME TInv, KeptInv, NEW t \in Threads, NextAborts(t)
  PROVE  KeptInv'
<1>1. /\ UNCHANGED <<pool, made, broken>>
      /\ \A u \in Threads : th'[u].pc = "dead" /\ th'[u].inst = th[u].inst
  BY AbortEffect
<1>2. QED
  BY <1>1 DEF KeptInv, InstancesKept, ErrBroken

LEMMA KeptStep ==
  ASSUME TInv, KeptInv, [Next]_vars
  PROVE  KeptInv'
<1>1. ASSUME NEW t \in Threads, Step(t)
      PROVE  KeptInv'
  <2>1. CASE \E n \in Lens : PopInstance(t, n) \/ MakeInstance(t, n)
    BY <2>1, KeptPop, KeptMake
  <2>2. CASE LockInstance(t)
    BY <2>2, LockEffect, KeptOn DEF LockInstance, hist
  <2>3. CASE CallOk(t)
    BY <2>3, OkEffect, KeptOn DEF CallOk, hist
  <2>4. CASE CallErr(t)
    <3>1. broken' = broken \union {th[t].inst} /\ UNCHANGED <<pool, made>>
      BY <2>4 DEF CallErr
    <3>2. /\ Only(t) /\ th'[t].inst = th[t].inst /\ th'[t].pc # "pushed"
          /\ broken \subseteq broken' /\ th'[t].inst \in broken'
      BY <2>4, <3>1, ErrEffect
    <3>3. QED
      BY <3>1, <3>2, KeptOn
  <2>5. CASE PushInstance(t)
    BY <2>5, KeptPush
  <2>6. CASE ReturnIter(t)
    BY <2>6, ReturnEffect, KeptGiveUp DEF ReturnIter, hist
  <2>7. CASE RetryOnNew(t)
    BY <2>7, RetryEffect, KeptGiveUp DEF KeptInv, ErrBroken
  <2>8. CASE PanicOnRetry(t)
    BY <2>8, PanicEffect, KeptGiveUp DEF KeptInv, ErrBroken
  <2>9. CASE NextBuffer(t)
    BY <2>9, NextBufferEffect, KeptFrame DEF Only
  <2>10. CASE NextAborts(t)
    BY <2>10, KeptAbort
  <2>11. CASE DropIter(t)
    BY <2>11, DropIterEffect, KeptFrame DEF Only
  <2>12. ASSUME NEW i \in 1 .. made, DropArray(t, i)
         PROVE  KeptInv'
    BY <2>12, DropArrayEffect, KeptFrame
  <2>13. QED
    BY <1>1, <2>1, <2>2, <2>3, <2>4, <2>5, <2>6, <2>7, <2>8, <2>9, <2>10, <2>11, <2>12
       DEF Step, CallStep
<1>2. CASE UNCHANGED vars
  BY <1>2, StutterEffect, KeptFrame DEF vars, hist
<1>3. QED
  BY <1>1, <1>2 DEF Next, Terminated

LEMMA KeptInit == Init => KeptInv
  BY DEF Init, KeptInv, InstancesKept, ErrBroken, IdleThread

(* However many threads call, fail and retry: every instance that was made *)
(* and never failed is back in the pool once the call that took it returns.*)
THEOREM NoInstanceLost == Spec => []InstancesKept
<1>1. TInv /\ KeptInv /\ [Next]_vars => KeptInv'
  BY KeptStep
<1>2. KeptInv => InstancesKept
  BY DEF KeptInv
<1>3. QED
  BY <1>1, <1>2, KeptInit, TypeInvariant, PTL DEF Spec

-----------------------------------------------------------------------------
(* The input areas.  An instance nobody has called yet.                    *)
LEMMA NewOK ==
  ASSUME NEW i, NEW m, NEW held, NEW bad
  PROVE  InstOK(i, NewInstance, m, held, bad)
  BY DEF InstOK, NewInstance, Healthy

(* What a successful preparation leaves: one allocated area that fits.     *)
LEMMA PreparedOK ==
  ASSUME NEW s \in Insts, NEW n \in Nat \ {0}, NEW i, NEW m, i <= m, m \in Nat, i \in Nat,
         InstOK(i, s, m, TRUE, FALSE), NEW bad
  PROVE  InstOK(i, Prepared(s, n), m, TRUE, bad) /\ Fits(Prepared(s, n), n)
<1> DEFINE w == Prepared(s, n)
<1>1. /\ s.ptr \in Nat /\ s.cached_len \in Nat /\ s.blocks \in Seq(Blocks)
      /\ Len(s.blocks) \in Nat /\ s.ptr <= Len(s.blocks) /\ Healthy(s)
      /\ \A k \in 1 .. Len(s.blocks) : s.blocks[k].live => k = s.ptr
  BY DEF Insts, InstOK
<1>2. CASE MustGrow(s, n)
  <2> DEFINE f == Freed(s, s.ptr)
  <2>1. w = Allocated(f, n)
    BY <1>2 DEF Prepared
  <2>2. /\ f \in Insts /\ f.cached_len = s.cached_len /\ Len(f.blocks) = Len(s.blocks)
        /\ \A k \in 1 .. Len(s.blocks) : k # s.ptr => f.blocks[k] = s.blocks[k]
        /\ \A k \in 1 .. Len(s.blocks) : k = s.ptr => f.blocks[k].live = FALSE
    BY <1>1, FreedIs
  <2> HIDE DEF f
  <2>3. \A k \in 1 .. Len(f.blocks) : ~f.blocks[k].live
    BY <1>1, <2>2
  <2>4. /\ w.ptr = Len(f.blocks) + 1 /\ w.cached_len = s.cached_len
        /\ Len(w.blocks) = Len(f.blocks) + 1 /\ Len(f.blocks) \in Nat
        /\ w.blocks[Len(f.blocks) + 1] = [len |-> n, live |-> TRUE]
        /\ \A k \in 1 .. Len(f.blocks) : w.blocks[k] = f.blocks[k]
    BY <2>1, <2>2, AllocatedIs
  <2> HIDE DEF w
  <2>5. \A k \in 1 .. Len(w.blocks) : w.blocks[k].live => k = w.ptr
    BY <2>3, <2>4, SMTT(30)
  <2>6. Fits(w, n) /\ n >= w.cached_len /\ w.cached_len \in Nat
    BY <1>1, <1>2, <2>4 DEF Fits, MustGrow
  <2>7. Fits(w, w.cached_len) /\ w.cached_len # 0
    BY <1>1, <1>2, <2>4, <2>6 DEF Fits, MustGrow
  <2>8. Healthy(w) /\ w.ptr <= Len(w.blocks)
    BY <2>4, <2>7 DEF Healthy
  <2>9. InstOK(i, w, m, TRUE, bad)
    BY <2>5, <2>8 DEF InstOK
  <2>10. QED
    BY <2>6, <2>9 DEF w
<1>3. CASE ~MustGrow(s, n) /\ s.cached_len = 0
  <2> DEFINE a == Allocated(s, n)
  <2>1. w = [a EXCEPT !.cached_len = n]
    BY <1>3 DEF Prepared
  <2>2. /\ a \in Insts /\ a.ptr = Len(s.blocks) + 1
        /\ Len(a.blocks) = Len(s.blocks) + 1
        /\ a.blocks[Len(s.blocks) + 1] = [len |-> n, live |-> TRUE]
        /\ \A k \in 1 .. Len(s.blocks) : a.blocks[k] = s.blocks[k]
    BY AllocatedIs
  <2> HIDE DEF a
  <2>3. w.ptr = a.ptr /\ w.blocks = a.blocks /\ w.cached_len = n
    BY <2>1, <2>2, CachedIs
  <2> HIDE DEF w
  <2>4. s.ptr = 0
    BY <1>1, <1>3 DEF Healthy
  <2>5. \A k \in 1 .. Len(w.blocks) : w.blocks[k].live => k = w.ptr
    BY <1>1, <2>2, <2>3, <2>4
  <2>6. Fits(w, n)
    BY <1>1, <2>2, <2>3 DEF Fits
  <2>7. w.ptr <= Len(w.blocks)
    BY <1>1, <2>2, <2>3
  <2>8. Healthy(w)
    BY <2>3, <2>6 DEF Healthy
  <2>9. InstOK(i, w, m, TRUE, bad)
    BY <2>5, <2>7, <2>8 DEF InstOK
  <2>10. QED
    BY <2>6, <2>9 DEF w
<1>4. CASE ~MustGrow(s, n) /\ s.cached_len # 0
  <2>1. w = s /\ s.cached_len >= n
    BY <1>1, <1>4 DEF Prepared, MustGrow
  <2>2. s.ptr \in 1 .. Len(s.blocks) /\ Fits(s, s.cached_len)
    BY <1>1, <1>4 DEF Healthy, Fits
  <2>3. s.blocks[s.ptr].len \in Nat
    <3>1. s.blocks[s.ptr] \in Blocks
      BY <1>1, <2>2
    <3>2. QED
      BY <3>1 DEF Blocks
  <2>4. Fits(s, n)
    BY <1>1, <2>1, <2>2, <2>3 DEF Fits
  <2>5. QED
    BY <2>1, <2>4 DEF InstOK
<1>5. QED
  BY <1>2, <1>3, <1>4

(* When the area cannot be allocated nothing is left allocated: the old    *)
(* one is freed, and an instance that never had one has no block at all.   *)
LEMMA UnpreparedOK ==
  ASSUME NEW s \in Insts, NEW n \in Nat \ {0}, NEW i, NEW m, i <= m, m \in Nat, i \in Nat,
         InstOK(i, s, m, TRUE, FALSE), MustGrow(s, n) \/ s.cached_len = 0,
         NEW null \in BOOLEAN
  PROVE  InstOK(i, Unprepared(s, n, null), m, TRUE, TRUE)
<1> DEFINE w == IF MustGrow(s, n) THEN Freed(s, s.ptr) ELSE [s EXCEPT !.cached_len = n]
<1>1. /\ s.ptr \in Nat /\ s.cached_len \in Nat /\ s.ptr <= Len(s.blocks) /\ Healthy(s)
      /\ Len(s.blocks) \in Nat
      /\ \A k \in 1 .. Len(s.blocks) : s.blocks[k].live => k = s.ptr
  BY DEF Insts, InstOK
<1>2. ASSUME MustGrow(s, n)
      PROVE  /\ w \in Insts /\ w.ptr <= Len(w.blocks)
             /\ \A k \in 1 .. Len(w.blocks) : ~w.blocks[k].live
  <2>1. w = Freed(s, s.ptr)
    BY <1>2
  <2> HIDE DEF w
  <2>2. /\ w \in Insts /\ w.ptr = s.ptr /\ Len(w.blocks) = Len(s.blocks)
        /\ \A k \in 1 .. Len(s.blocks) :
             /\ k # s.ptr => w.blocks[k] = s.blocks[k]
             /\ k = s.ptr => w.blocks[k].live = FALSE
    BY <1>1, <2>1, FreedIs
  <2>3. QED
    BY <1>1, <2>2
<1>3. ASSUME ~MustGrow(s, n)
      PROVE  /\ w \in Insts /\ w.ptr <= Len(w.blocks)
             /\ \A k \in 1 .. Len(w.blocks) : ~w.blocks[k].live
  <2>1. w = [s EXCEPT !.cached_len = n]
    BY <1>3
  <2> HIDE DEF w
  <2>2. w \in Insts /\ w.ptr = s.ptr /\ w.blocks = s.blocks
    BY <2>1, CachedIs
  <2>3. s.cached_len = 0
    BY <1>3, Zenon
  <2>4. s.ptr = 0
    BY <1>1, <2>3 DEF Healthy
  <2>5. QED
    BY <1>1, <2>2, <2>4
<1>4. Unprepared(s, n, null) = IF null THEN AllocatedNull(w) ELSE w
  BY DEF Unprepared
<1> HIDE DEF w
<1>5. CASE ~null
  BY <1>1, <1>2, <1>3, <1>4, <1>5 DEF InstOK
<1>6. CASE null
  <2> DEFINE z == AllocatedNull(w)
  <2>1. /\ z.ptr = Len(w.blocks) + 1 /\ Len(z.blocks) = Len(w.blocks) + 1
        /\ Len(w.blocks) \in Nat /\ ~z.blocks[Len(w.blocks) + 1].live
        /\ \A k \in 1 .. Len(w.blocks) : z.blocks[k] = w.blocks[k]
    BY <1>2, <1>3, AllocatedNullIs
  <2> HIDE DEF z
  <2>2. z.ptr <= Len(z.blocks) /\ \A k \in 1 .. Len(z.blocks) : ~z.blocks[k].live
    BY <1>2, <1>3, <2>1
  <2>3. Unprepared(s, n, null) = z
    BY <1>4, <1>6 DEF z
  <2>4. QED
    BY <1>1, <2>2, <2>3 DEF InstOK
<1>7. QED
  BY <1>5, <1>6

(* When nobody holds the instance any more its cached area is freed.       *)
LEMMA DroppedOK ==
  ASSUME NEW s \in Insts, NEW i, NEW m, NEW n, m \in Nat, i \in Nat, i <= m, i <= n, n \in Nat,
         NEW held, NEW bad, InstOK(i, s, m, held, bad),
         NEW w, (s.ptr = 0 /\ w = s) \/ (s.ptr # 0 /\ w = Freed(s, s.ptr))
  PROVE  InstOK(i, w, n, FALSE, bad)
<1>1. /\ s.ptr \in Nat /\ s.ptr <= Len(s.blocks)
      /\ \A k \in 1 .. Len(s.blocks) : s.blocks[k].live => k = s.ptr
  BY DEF Insts, InstOK
<1>2. CASE s.ptr = 0
  BY <1>1, <1>2 DEF InstOK
<1>3. CASE s.ptr # 0
  <2>1. /\ w.ptr = s.ptr /\ Len(w.blocks) = Len(s.blocks)
        /\ \A k \in 1 .. Len(s.blocks) : k # s.ptr => w.blocks[k] = s.blocks[k]
        /\ \A k \in 1 .. Len(s.blocks) : k = s.ptr => w.blocks[k].live = FALSE
    <3>1. w = Freed(s, s.ptr)
      BY <1>3
    <3>2. QED
      BY <1>1, <3>1, FreedIs
  <2>2. QED
    BY <1>1, <2>1 DEF InstOK
<1>4. QED
  BY <1>2, <1>3

(* The calls whose area must fit are among those that had one before.      *)
Calling(t) == th[t].pc \in {"ok", "pushed"}
CallsKept ==
  \A u \in Threads : Calling(u)' =>
    Calling(u) /\ th'[u].inst = th[u].inst /\ th'[u].len = th[u].len

(* A step that lets go of instance i, and moves the others around without  *)
(* dropping them.                                                          *)
LEMMA AreaLetGo ==
  ASSUME TInv, TInv', AreaInv, NEW i \in 1 .. made, LetGo(i), made <= made',
         UNCHANGED broken, CallsKept,
         \A j \in 1 .. made : IsHeld(j)' => IsHeld(j),
         \A j \in 1 .. made : j # i /\ IsHeld(j) => IsHeld(j)'
  PROVE  AreaInv'
<1>1. /\ made \in Nat /\ made' \in Nat /\ made \in 0 .. MaxInstances
      /\ insts \in [1 .. MaxInstances -> Insts] /\ i \in 1 .. MaxInstances
  <2>1. made' \in Nat
    BY PoolAssumption DEF TInv, TypeOK
  <2>2. QED
    BY <2>1, TypeIs, PoolAssumption
<1>2. /\ \A j \in 1 .. MaxInstances : j # i => insts'[j] = insts[j]
      /\ IsHeld(i)' => insts'[i] = insts[i]
      /\ ~IsHeld(i)' /\ insts[i].ptr # 0 => insts'[i] = Freed(insts[i], insts[i].ptr)
      /\ ~IsHeld(i)' /\ insts[i].ptr = 0 => insts'[i] = insts[i]
  <2>1. TypeOK
    BY DEF TInv
  <2>2. ~IsHeld(i)' /\ insts[i].ptr = 0 => insts'[i] = insts[i]
    BY DEF LetGo, IsHeld
  <2>3. IsHeld(i)' <=> Held(i, pool', th', arrays')
    BY DEF IsHeld
  <2>4. QED
    BY <2>1, <2>2, <2>3, LetGoIs
<1>3. ASSUME NEW j \in 1 .. MaxInstances
      PROVE  InstOK(j, insts'[j], made', IsHeld(j)', (j \in broken)')
  <2>1. InstOK(j, insts[j], made, IsHeld(j), j \in broken)
    BY DEF AreaInv, InstsOK
  <2>2. CASE j > made
    <3>1. insts'[j] = NewInstance
      BY <1>1, <1>2, <2>1, <2>2 DEF InstOK
    <3>2. QED
      BY <3>1, NewOK
  <2>3. CASE j <= made /\ (j # i \/ IsHeld(i)')
    <3>1. j \in 1 .. made /\ insts'[j] = insts[j]
      BY <1>1, <1>2, <2>3
    <3>2. IsHeld(j)' <=> IsHeld(j)
      BY <2>3, <3>1
    <3>3. QED
      BY <1>1, <2>1, <2>3, <3>1, <3>2 DEF InstOK
  <2>4. CASE j = i /\ ~IsHeld(i)'
    <3>1. \/ insts[i].ptr = 0 /\ insts'[i] = insts[i]
          \/ insts[i].ptr # 0 /\ insts'[i] = Freed(insts[i], insts[i].ptr)
      <4>1. CASE insts[i].ptr = 0
        BY <1>2, <2>4, <4>1
      <4>2. CASE insts[i].ptr # 0
        BY <1>2, <2>4, <4>2
      <4>3. QED
        BY <4>1, <4>2
    <3>2. insts[i] \in Insts /\ i <= made /\ i <= made' /\ i \in Nat
      BY <1>1
    <3>3. InstOK(i, insts'[i], made', FALSE, i \in broken)
      BY <1>1, <2>1, <2>4, <3>1, <3>2, DroppedOK
    <3>4. QED
      BY <2>4, <3>3 DEF InstOK
  <2>5. QED
    BY <1>1, <2>2, <2>3, <2>4
<1>4. AreaFits'
  <2> SUFFICES ASSUME NEW u \in Threads, Calling(u)'
               PROVE  Fits(insts'[th'[u].inst], th'[u].len)
    BY DEF AreaFits, Fits, Calling
  <2>1. Calling(u) /\ th'[u].inst = th[u].inst /\ th'[u].len = th[u].len
    BY DEF CallsKept
  <2>2. th[u].inst \in 1 .. made /\ Fits(insts[th[u].inst], th[u].len)
    BY <2>1, TypeIs DEF AreaInv, AreaFits, Fits, Calling, ThreadOK, Locking, Recs
  <2>3. IsHeld(th[u].inst)' \/ th[u].inst # i
    BY <2>1 DEF IsHeld, Held
  <2>4. insts'[th[u].inst] = insts[th[u].inst]
    <3>1. CASE th[u].inst = i
      <4>1. IsHeld(i)'
        BY <2>1, <3>1 DEF IsHeld, Held
      <4>2. QED
        BY <1>2, <3>1, <4>1
    <3>2. CASE th[u].inst # i
      <4>1. th[u].inst \in 1 .. MaxInstances
        BY <1>1, <2>2, PoolAssumption
      <4>2. QED
        BY <1>2, <3>2, <4>1
    <3>3. QED
      BY <3>1, <3>2
  <2>5. QED
    BY <2>1, <2>2, <2>4
<1>5. InstsOK'
  BY <1>3 DEF InstsOK
<1>6. QED
  BY <1>4, <1>5 DEF AreaInv

(* A step that touches no area and drops nothing.                          *)
LEMMA AreaFrame ==
  ASSUME TInv, TInv', AreaInv, made <= made', UNCHANGED <<insts, broken>>, CallsKept,
         \A j \in 1 .. made : IsHeld(j)' <=> IsHeld(j)
  PROVE  AreaInv'
<1>1. made \in Nat /\ made' \in Nat /\ made \in 0 .. MaxInstances
  BY TypeIs, PoolAssumption DEF TInv, TypeOK
<1>2. ASSUME NEW j \in 1 .. MaxInstances
      PROVE  InstOK(j, insts'[j], made', IsHeld(j)', (j \in broken)')
  <2>1. InstOK(j, insts[j], made, IsHeld(j), j \in broken)
    BY DEF AreaInv, InstsOK
  <2>2. CASE j > made
    <3>1. insts'[j] = NewInstance
      BY <2>1, <2>2 DEF InstOK
    <3>2. QED
      BY <3>1, NewOK
  <2>3. CASE j <= made
    <3>1. j \in 1 .. made
      BY <1>1, <2>3
    <3>2. IsHeld(j)' <=> IsHeld(j)
      BY <3>1
    <3>3. QED
      BY <1>1, <2>1, <2>3, <3>2 DEF InstOK
  <2>4. QED
    BY <1>1, <2>2, <2>3
<1>3. InstsOK'
  BY <1>2 DEF InstsOK
<1>4. AreaFits'
  BY DEF AreaInv, AreaFits, CallsKept, Calling
<1>5. QED
  BY <1>3, <1>4 DEF AreaInv

LEMMA AreaPop ==
  ASSUME TInv, AreaInv, NEW t \in Threads, NEW n \in Lens, PopInstance(t, n)
  PROVE  AreaInv'
<1>1. /\ TInv' /\ Only(t) /\ th'[t].pc = "want" /\ th'[t].inst = Head(pool)
      /\ th[t].inst = 0 /\ th[t].iter = NoIter /\ th'[t].iter = NoIter
      /\ pool # << >> /\ pool' = Tail(pool) /\ UNCHANGED <<made, insts, arrays, broken>>
  BY PopEffect DEF PopInstance
<1>2. /\ Head(pool) = pool[1] /\ Len(Tail(pool)) = Len(pool) - 1 /\ Len(pool) \in Nat \ {0}
      /\ \A k \in 1 .. Len(pool) - 1 : Tail(pool)[k] = pool[k + 1]
  BY <1>1, TypeIs, HeadTail
<1>3. ASSUME NEW j \in 1 .. made
      PROVE  (\E k \in 1 .. Len(pool) : pool[k] = j)
               <=> (j = Head(pool) \/ \E k \in 1 .. Len(pool') : pool'[k] = j)
  <2>1. ASSUME NEW k \in 1 .. Len(pool), pool[k] = j, j # Head(pool)
        PROVE  \E l \in 1 .. Len(pool') : pool'[l] = j
    <3>1. k # 1 /\ k - 1 \in 1 .. Len(pool')
      BY <1>1, <1>2, <2>1
    <3>2. pool'[k - 1] = pool[(k - 1) + 1] /\ (k - 1) + 1 = k
      BY <1>1, <1>2, <2>1, <3>1
    <3>3. QED
      BY <2>1, <3>1, <3>2
  <2>2. ASSUME NEW k \in 1 .. Len(pool'), pool'[k] = j
        PROVE  \E l \in 1 .. Len(pool) : pool[l] = j
    <3>1. k + 1 \in 1 .. Len(pool) /\ pool[k + 1] = j
      BY <1>1, <1>2, <2>2
    <3>2. QED
      BY <3>1
  <2>3. 1 \in 1 .. Len(pool)
    BY <1>2
  <2>4. QED
    BY <1>2, <2>1, <2>2, <2>3
<1>4. ASSUME NEW j \in 1 .. made
      PROVE  IsHeld(j)' <=> IsHeld(j)
  <2>1. (\E u \in Threads : th'[u].inst = j \/ th'[u].iter.inst = j)
          <=> (j = Head(pool) \/ \E u \in Threads : th[u].inst = j \/ th[u].iter.inst = j)
    BY <1>1 DEF Only, NoIter
  <2>2. QED
    BY <1>1, <1>3, <2>1 DEF IsHeld, Held
<1>5. CallsKept
  BY <1>1 DEF CallsKept, Calling, Only
<1>6. made <= made'
  BY <1>1, TypeIs
<1>7. QED
  BY <1>1, <1>4, <1>5, <1>6, AreaFrame

LEMMA AreaMake ==
  ASSUME TInv, AreaInv, NEW t \in Threads, NEW n \in Lens, MakeInstance(t, n)
  PROVE  AreaInv'
<1>1. /\ TInv' /\ Only(t) /\ th[t].inst = 0 /\ th[t].iter = NoIter /\ th[t].pc = "idle"
      /\ UNCHANGED <<pool, insts, arrays, broken>>
      /\ \/ UNCHANGED <<made, th>>
         \/ /\ made' = made + 1 /\ th'[t].pc = "want" /\ th'[t].inst = made + 1
            /\ th'[t].iter = NoIter
  BY MakeEffect
<1>2. made \in Nat /\ made <= made'
  BY <1>1, TypeIs
<1>3. ASSUME NEW j \in 1 .. made
      PROVE  IsHeld(j)' <=> IsHeld(j)
  <2>1. j # 0 /\ j # made + 1
    BY <1>2
  <2>2. (\E u \in Threads : th'[u].inst = j \/ th'[u].iter.inst = j)
          <=> (\E u \in Threads : th[u].inst = j \/ th[u].iter.inst = j)
    BY <1>1, <2>1 DEF Only, NoIter
  <2>3. QED
    BY <1>1, <2>2 DEF IsHeld, Held
<1>4. CallsKept
  BY <1>1 DEF CallsKept, Calling, Only
<1>5. QED
  BY <1>1, <1>2, <1>3, <1>4, AreaFrame

(* Steps of a call that change who holds what only by a new reference to   *)
(* an instance the thread has.                                             *)
LEMMA AreaPush ==
  ASSUME TInv, AreaInv, NEW t \in Threads, PushInstance(t)
  PROVE  AreaInv'
<1> DEFINE i == th[t].inst
<1>1. /\ TInv' /\ Only(t) /\ th[t].pc = "ok" /\ th'[t].inst = i /\ i \in 1 .. made
      /\ th'[t].len = th[t].len /\ th'[t].iter = th[t].iter
      /\ pool' = Append(pool, i) /\ UNCHANGED <<made, insts, arrays, broken>>
  BY PushEffect DEF PushInstance, hist
<1>2. /\ Len(pool') = Len(pool) + 1 /\ Len(pool) \in Nat /\ pool'[Len(pool) + 1] = i
      /\ \A k \in 1 .. Len(pool) : pool'[k] = pool[k]
  BY <1>1, TypeIs
<1>3. \A k \in 1 .. Len(pool') : k \in 1 .. Len(pool) \/ k = Len(pool) + 1
  BY <1>2
<1>4. Len(pool) + 1 \in 1 .. Len(pool') /\ \A k \in 1 .. Len(pool) : k \in 1 .. Len(pool')
  BY <1>2
<1>5. ASSUME NEW j \in 1 .. made
      PROVE  IsHeld(j)' <=> IsHeld(j)
  <2>1. \A u \in Threads : th'[u].inst = th[u].inst /\ th'[u].iter = th[u].iter
    BY <1>1 DEF Only
  <2>2. CASE j = i
    BY <1>1, <2>1, <2>2 DEF IsHeld, Held
  <2>3. CASE j # i
    <3>1. (\E k \in 1 .. Len(pool') : pool'[k] = j) <=> (\E k \in 1 .. Len(pool) : pool[k] = j)
      BY <1>2, <1>3, <1>4, <2>3
    <3>2. QED
      BY <1>1, <2>1, <3>1 DEF IsHeld, Held
  <2>4. QED
    BY <2>2, <2>3
<1>6. CallsKept
  BY <1>1 DEF CallsKept, Calling, Only
<1>7. made <= made'
  BY <1>1, TypeIs
<1>8. QED
  BY <1>1, <1>5, <1>6, <1>7, AreaFrame

LEMMA AreaLock ==
  ASSUME TInv, AreaInv, NEW t \in Threads, LockInstance(t)
  PROVE  AreaInv'
<1>1. /\ TInv' /\ Only(t) /\ th'[t].pc = "locked" /\ th'[t].inst = th[t].inst
      /\ th'[t].iter = th[t].iter /\ UNCHANGED <<pool, made, insts, arrays, broken>>
  BY LockEffect DEF LockInstance, hist
<1>2. \A u \in Threads : th'[u].inst = th[u].inst /\ th'[u].iter = th[u].iter
  BY <1>1 DEF Only
<1>3. \A j \in 1 .. made : IsHeld(j)' <=> IsHeld(j)
  BY <1>1, <1>2 DEF IsHeld, Held
<1>4. CallsKept /\ made <= made'
  BY <1>1, TypeIs DEF CallsKept, Calling, Only
<1>5. QED
  BY <1>1, <1>3, <1>4, AreaFrame

(* The call returns and its iterator keeps the instance.                   *)
LEMMA AreaReturn ==
  ASSUME TInv, AreaInv, NEW t \in Threads, ReturnIter(t)
  PROVE  AreaInv'
<1>1. /\ TInv' /\ Only(t) /\ th[t].iter.inst = th[t].inst /\ th'[t].pc = "idle"
      /\ th'[t].inst = 0 /\ th'[t].iter = th[t].iter
      /\ UNCHANGED <<pool, made, insts, arrays, broken>>
  BY ReturnEffect DEF ReturnIter, hist
<1>2. ASSUME NEW j \in 1 .. made
      PROVE  IsHeld(j)' <=> IsHeld(j)
  <2>1. j # 0
    OBVIOUS
  <2>2. (\E u \in Threads : th'[u].inst = j \/ th'[u].iter.inst = j)
          <=> (\E u \in Threads : th[u].inst = j \/ th[u].iter.inst = j)
    BY <1>1, <2>1 DEF Only
  <2>3. QED
    BY <1>1, <2>2 DEF IsHeld, Held
<1>3. CallsKept /\ made <= made'
  BY <1>1, TypeIs DEF CallsKept, Calling, Only
<1>4. QED
  BY <1>1, <1>2, <1>3, AreaFrame

(* The instance a thread has locked is held and no call on it has failed.  *)
LEMMA LockedOK ==
  ASSUME TInv, OwnInv, AreaInv, NEW t \in Threads, th[t].pc = "locked",
         NEW i, i = th[t].inst
  PROVE  /\ InstOK(i, insts[i], made, TRUE, FALSE) /\ insts[i] \in Insts
         /\ i \in 1 .. made /\ i \in 1 .. MaxInstances
<1>1. th[t] \in Recs(made) /\ ThreadOK(th[t]) /\ made \in Nat /\ made \in 0 .. MaxInstances
      /\ insts \in [1 .. MaxInstances -> Insts]
  BY TypeIs
<1>2. i \in 1 .. made
  BY <1>1 DEF Recs, ThreadOK, Locking
<1>3. i \in 1 .. MaxInstances
  BY <1>1, <1>2, PoolAssumption
<1>4. i \notin broken
  BY DEF OwnInv, BrokenRetired
<1>5. IsHeld(i)
  BY DEF IsHeld, Held
<1>6. InstOK(i, insts[i], made, IsHeld(i), i \in broken)
  BY <1>3 DEF AreaInv, InstsOK
<1>7. QED
  BY <1>1, <1>2, <1>3, <1>4, <1>5, <1>6 DEF InstOK

(* The call of thread t leaves its instance as s.                          *)
LEMMA AreaCalled ==
  ASSUME TInv, OwnInv, AreaInv, NEW t \in Threads, Only(t), th[t].pc = "locked",
         NEW i, i = th[t].inst, NEW s, insts' = [insts EXCEPT ![i] = s],
         th'[t].inst = i, th'[t].len = th[t].len, th[t].iter = NoIter,
         th'[t].iter.inst \in {0, i}, UNCHANGED <<pool, made, arrays>>,
         broken \subseteq broken', broken' \subseteq broken \union {i},
         InstOK(i, s, made, TRUE, i \in broken'),
         Calling(t)' => Fits(s, th[t].len)
  PROVE  AreaInv'
<1>1. /\ i \in 1 .. made /\ i \in 1 .. MaxInstances
      /\ insts \in [1 .. MaxInstances -> Insts] /\ made \in Nat
  BY LockedOK, TypeIs
<1>2. insts'[i] = s /\ \A j \in 1 .. MaxInstances : j # i => insts'[j] = insts[j]
  BY <1>1
<1>3. ASSUME NEW j \in Nat \ {0}
      PROVE  IsHeld(j)' <=> IsHeld(j)
  <2>1. (\E u \in Threads : th'[u].inst = j \/ th'[u].iter.inst = j)
          <=> (\E u \in Threads : th[u].inst = j \/ th[u].iter.inst = j)
    BY DEF Only, NoIter
  <2>2. QED
    BY <2>1 DEF IsHeld, Held
<1>4. IsHeld(i)
  BY DEF IsHeld, Held
<1>5. ASSUME NEW j \in 1 .. MaxInstances
      PROVE  InstOK(j, insts'[j], made', IsHeld(j)', (j \in broken)')
  <2>1. IsHeld(j)' <=> IsHeld(j)
    BY <1>3
  <2>2. CASE j = i
    BY <1>2, <1>4, <2>1, <2>2 DEF InstOK
  <2>3. CASE j # i
    <3>1. InstOK(j, insts[j], made, IsHeld(j), j \in broken)
      BY DEF AreaInv, InstsOK
    <3>2. (j \in broken') <=> (j \in broken)
      BY <2>3
    <3>3. QED
      BY <1>2, <2>1, <2>3, <3>1, <3>2 DEF InstOK
  <2>4. QED
    BY <2>2, <2>3
<1>6. AreaFits'
  <2> SUFFICES ASSUME NEW u \in Threads, Calling(u)'
               PROVE  Fits(insts'[th'[u].inst], th'[u].len)
    BY DEF AreaFits, Fits, Calling
  <2>1. CASE u = t
    BY <1>2, <2>1
  <2>2. CASE u # t
    <3>1. th'[u] = th[u] /\ Calling(u)
      BY <2>2 DEF Only, Calling
    <3>2. th[u].inst # i
      BY <2>2, <3>1 DEF OwnInv, MutexInv, Calling, Locking
    <3>3. th[u].inst \in 1 .. made /\ Fits(insts[th[u].inst], th[u].len)
      BY <3>1, TypeIs DEF AreaInv, AreaFits, Fits, Calling, ThreadOK, Locking, Recs
    <3>4. th[u].inst \in 1 .. MaxInstances
      BY <3>3, TypeIs, PoolAssumption
    <3>5. QED
      BY <1>2, <3>1, <3>2, <3>3, <3>4
  <2>3. QED
    BY <2>1, <2>2
<1>7. InstsOK'
  BY <1>5 DEF InstsOK
<1>8. QED
  BY <1>6, <1>7 DEF AreaInv

LEMMA AreaOk ==
  ASSUME TInv, OwnInv, AreaInv, NEW t \in Threads, CallOk(t)
  PROVE  AreaInv'
<1> DEFINE i == th[t].inst
           s == Prepared(insts[i], th[t].len)
<1>1. /\ Only(t) /\ th[t].pc = "locked" /\ th'[t].inst = i /\ th'[t].len = th[t].len
      /\ th[t].iter = NoIter /\ th'[t].iter.inst = i
      /\ insts' = [insts EXCEPT ![i] = s] /\ UNCHANGED <<pool, made, arrays, broken>>
  BY OkEffect DEF CallOk, hist
<1>2. /\ InstOK(i, insts[i], made, TRUE, FALSE) /\ insts[i] \in Insts
      /\ i \in 1 .. made /\ made \in Nat
  BY <1>1, LockedOK, TypeIs
<1>3. th[t].len \in Nat \ {0}
  BY <1>1, TypeIs, PoolAssumption DEF ThreadOK, Locking
<1>4. i <= made /\ i \in Nat
  BY <1>2
<1>5. InstOK(i, s, made, TRUE, i \in broken') /\ Fits(s, th[t].len)
  BY <1>2, <1>3, <1>4, PreparedOK
<1> HIDE DEF s
<1>6. QED
  BY <1>1, <1>5, AreaCalled

LEMMA AreaErr ==
  ASSUME TInv, OwnInv, AreaInv, NEW t \in Threads, CallErr(t)
  PROVE  AreaInv'
<1> DEFINE i == th[t].inst
           n == th[t].len
<1>1. /\ Only(t) /\ th[t].pc = "locked" /\ th'[t].pc = "err" /\ th'[t].inst = i
      /\ th'[t].len = n /\ th[t].iter = NoIter /\ th'[t].iter.inst = 0
      /\ broken' = broken \union {i} /\ UNCHANGED <<pool, made, arrays>>
  <2>1. NoIter.inst = 0
    BY DEF NoIter
  <2>2. /\ Only(t) /\ th[t].pc = "locked" /\ th'[t].pc = "err" /\ th'[t].inst = i
        /\ th'[t].len = n /\ th[t].iter = NoIter /\ th'[t].iter = NoIter
    BY ErrEffect
  <2>3. broken' = broken \union {i} /\ UNCHANGED <<pool, made, arrays>>
    BY DEF CallErr
  <2>4. QED
    BY <2>1, <2>2, <2>3
<1>2. /\ InstOK(i, insts[i], made, TRUE, FALSE) /\ insts[i] \in Insts
      /\ i \in 1 .. made /\ made \in Nat
  BY <1>1, LockedOK, TypeIs
<1>3. n \in Nat \ {0}
  BY <1>1, TypeIs, PoolAssumption DEF ThreadOK, Locking
<1>4. i <= made /\ i \in Nat
  BY <1>2
<1>5. ~Calling(t)'
  BY <1>1 DEF Calling
<1>6. ASSUME MustGrow(insts[i], n) \/ insts[i].cached_len = 0, NEW null \in BOOLEAN,
             insts' = [insts EXCEPT ![i] = Unprepared(insts[i], n, null)]
      PROVE  AreaInv'
  <2>1. InstOK(i, Unprepared(insts[i], n, null), made, TRUE, TRUE)
    BY <1>2, <1>3, <1>4, <1>6, UnpreparedOK
  <2>2. InstOK(i, Unprepared(insts[i], n, null), made, TRUE, i \in broken')
    BY <1>1, <2>1 DEF InstOK
  <2>3. QED
    BY <1>1, <1>5, <1>6, <2>2, AreaCalled
<1>7. CASE insts' = [insts EXCEPT ![i] = Prepared(insts[i], n)]
  <2>1. InstOK(i, Prepared(insts[i], n), made, TRUE, i \in broken')
    BY <1>2, <1>3, <1>4, PreparedOK
  <2>2. QED
    BY <1>1, <1>5, <1>7, <2>1, AreaCalled
<1>8. QED
  BY <1>6, <1>7 DEF CallErr

(* A failed instance is let go of; the thread has a new one or none.       *)
LEMMA AreaGiveUp ==
  ASSUME TInv, TInv', AreaInv, NEW t \in Threads, Only(t), NEW i, i \in 1 .. made,
         i = th[t].inst, LetGo(i), made <= made',
         th'[t].inst = 0 \/ th'[t].inst = made + 1, th'[t].pc \notin {"ok", "pushed"},
         th[t].iter = NoIter, th'[t].iter = NoIter, UNCHANGED <<pool, arrays, broken>>
  PROVE  AreaInv'
<1>1. NoIter.inst = 0 /\ made \in Nat
  BY TypeIs DEF NoIter
<1>2. ASSUME NEW j \in 1 .. made, IsHeld(j)'
      PROVE  IsHeld(j)
  <2>1. j # 0 /\ j # made + 1
    BY <1>1
  <2>2. (\E u \in Threads : th'[u].inst = j \/ th'[u].iter.inst = j)
          => (\E u \in Threads : th[u].inst = j \/ th[u].iter.inst = j)
    BY <1>1, <2>1 DEF Only
  <2>3. QED
    BY <1>2, <2>2 DEF IsHeld, Held
<1>3. ASSUME NEW j \in 1 .. made, j # i, IsHeld(j)
      PROVE  IsHeld(j)'
  <2>1. j # 0
    OBVIOUS
  <2>2. (\E u \in Threads : th[u].inst = j \/ th[u].iter.inst = j)
          => (\E u \in Threads : th'[u].inst = j \/ th'[u].iter.inst = j)
    BY <1>1, <1>3, <2>1 DEF Only
  <2>3. QED
    BY <1>3, <2>2 DEF IsHeld, Held
<1>4. CallsKept
  BY DEF CallsKept, Calling, Only
<1>5. QED
  BY <1>2, <1>3, <1>4, AreaLetGo

LEMMA AreaRetry ==
  ASSUME TInv, AreaInv, NEW t \in Threads, RetryOnNew(t) \/ PanicOnRetry(t)
  PROVE  AreaInv'
<1>1. /\ TInv' /\ Only(t) /\ th[t].inst \in 1 .. made
      /\ th[t].iter = NoIter /\ th'[t].iter = NoIter /\ LetGo(th[t].inst)
      /\ UNCHANGED <<pool, arrays, broken>>
      /\ th'[t].pc \notin {"ok", "pushed"} /\ (th'[t].inst = 0 \/ th'[t].inst = made + 1)
      /\ (made' = made \/ made' = made + 1)
  BY RetryEffect, PanicEffect
<1>2. made <= made'
  BY <1>1, TypeIs
<1>3. QED
  BY <1>1, <1>2, AreaGiveUp

(* A buffer of the iterator's instance: one more reference to it.          *)
LEMMA AreaNextBuffer ==
  ASSUME TInv, AreaInv, NEW t \in Threads, NextBuffer(t)
  PROVE  AreaInv'
<1>1. /\ TInv' /\ Only(t) /\ th'[t].pc = th[t].pc /\ th'[t].inst = th[t].inst
      /\ th'[t].len = th[t].len /\ th'[t].iter.inst = th[t].iter.inst
      /\ UNCHANGED <<pool, made, insts, broken>>
  BY NextBufferEffect
<1>2. arrays' = arrays \union {<<t, th[t].iter.inst>>}
  BY DEF NextBuffer
<1>3. \A u \in Threads : /\ th'[u].inst = th[u].inst
                        /\ th'[u].iter.inst = th[u].iter.inst
  BY <1>1 DEF Only
<1>4. ASSUME NEW j \in 1 .. made
      PROVE  IsHeld(j)' <=> IsHeld(j)
  <2>1. ASSUME NEW u \in Threads, <<u, j>> \in arrays'
        PROVE  <<u, j>> \in arrays \/ th[t].iter.inst = j
    BY <1>2, <2>1
  <2>2. ASSUME NEW u \in Threads, <<u, j>> \in arrays
        PROVE  <<u, j>> \in arrays'
    BY <1>2, <2>2
  <2>3. QED
    BY <1>1, <1>3, <2>1, <2>2 DEF IsHeld, Held
<1>5. CallsKept /\ made <= made'
  BY <1>1, TypeIs DEF CallsKept, Calling, Only
<1>6. QED
  BY <1>1, <1>4, <1>5, AreaFrame

LEMMA AreaAbort ==
  ASSUME TInv, AreaInv, NEW t \in Threads, NextAborts(t)
  PROVE  AreaInv'
<1>1. /\ TInv' /\ UNCHANGED <<pool, made, insts, lock, arrays, broken>>
      /\ \A u \in Threads : th'[u].pc = "dead" /\ th'[u].inst = th[u].inst
                            /\ th'[u].iter = th[u].iter
  BY AbortEffect
<1>2. \A j \in 1 .. made : IsHeld(j)' <=> IsHeld(j)
  BY <1>1 DEF IsHeld, Held
<1>3. CallsKept /\ made <= made'
  BY <1>1, TypeIs DEF CallsKept, Calling
<1>4. QED
  BY <1>1, <1>2, <1>3, AreaFrame

LEMMA AreaDropIter ==
  ASSUME TInv, AreaInv, NEW t \in Threads, DropIter(t)
  PROVE  AreaInv'
<1>1. /\ TInv' /\ Only(t) /\ th'[t].pc = "idle" /\ th[t].inst = 0 /\ th'[t].inst = 0
      /\ th'[t].iter = NoIter /\ th[t].iter.inst \in 1 .. made
      /\ LetGo(th[t].iter.inst) /\ UNCHANGED <<pool, made, lock, arrays, broken>>
  BY DropIterEffect
<1>2. NoIter.inst = 0 /\ made <= made'
  BY <1>1, TypeIs DEF NoIter
<1>3. ASSUME NEW j \in 1 .. made, IsHeld(j)'
      PROVE  IsHeld(j)
  <2>1. j # 0
    OBVIOUS
  <2>2. (\E u \in Threads : th'[u].inst = j \/ th'[u].iter.inst = j)
          => (\E u \in Threads : th[u].inst = j \/ th[u].iter.inst = j)
    BY <1>1, <1>2, <2>1 DEF Only
  <2>3. QED
    BY <1>1, <1>3, <2>2 DEF IsHeld, Held
<1>4. ASSUME NEW j \in 1 .. made, j # th[t].iter.inst, IsHeld(j)
      PROVE  IsHeld(j)'
  <2>1. j # 0
    OBVIOUS
  <2>2. (\E u \in Threads : th[u].inst = j \/ th[u].iter.inst = j)
          => (\E u \in Threads : th'[u].inst = j \/ th'[u].iter.inst = j)
    BY <1>1, <1>4, <2>1 DEF Only
  <2>3. QED
    BY <1>1, <1>4, <2>2 DEF IsHeld, Held
<1>5. CallsKept
  BY <1>1 DEF CallsKept, Calling, Only
<1>6. QED
  BY <1>1, <1>2, <1>3, <1>4, <1>5, AreaLetGo

LEMMA AreaDropArray ==
  ASSUME TInv, AreaInv, NEW t \in Threads, NEW i \in 1 .. made, DropArray(t, i)
  PROVE  AreaInv'
<1>1. TInv' /\ LetGo(i) /\ UNCHANGED <<pool, made, lock, th, broken>>
      /\ arrays' = arrays \ {<<t, i>>}
  BY DropArrayEffect
<1>2. \A j \in 1 .. made : IsHeld(j)' => IsHeld(j)
  BY <1>1 DEF IsHeld, Held
<1>3. ASSUME NEW j \in 1 .. made, j # i, IsHeld(j)
      PROVE  IsHeld(j)'
  <2>1. \A u \in Threads : <<u, j>> \in arrays => <<u, j>> \in arrays'
    BY <1>1, <1>3
  <2>2. QED
    BY <1>1, <1>3, <2>1 DEF IsHeld, Held
<1>4. CallsKept /\ made <= made'
  BY <1>1, TypeIs DEF CallsKept, Calling
<1>5. QED
  BY <1>1, <1>2, <1>3, <1>4, AreaLetGo

LEMMA AreaStep ==
  ASSUME TInv, OwnInv, AreaInv, [Next]_vars
  PROVE  AreaInv'
<1>1. ASSUME NEW t \in Threads, Step(t)
      PROVE  AreaInv'
  <2>1. CASE \E n \in Lens : PopInstance(t, n) \/ MakeInstance(t, n)
    BY <2>1, AreaPop, AreaMake
  <2>2. CASE CallStep(t)
    BY <2>2, AreaLock, AreaOk, AreaErr, AreaPush, AreaReturn, AreaRetry DEF CallStep
  <2>3. CASE NextBuffer(t) \/ NextAborts(t) \/ DropIter(t)
    BY <2>3, AreaNextBuffer, AreaAbort, AreaDropIter
  <2>4. ASSUME NEW i \in 1 .. made, DropArray(t, i)
        PROVE  AreaInv'
    BY <2>4, AreaDropArray
  <2>5. QED
    BY <1>1, <2>1, <2>2, <2>3, <2>4 DEF Step
<1>2. CASE UNCHANGED vars
  <2>1. TInv' /\ UNCHANGED <<pool, made, insts, lock, th, arrays, broken>>
    BY <1>2, StutterEffect
  <2>2. \A j \in 1 .. made : IsHeld(j)' <=> IsHeld(j)
    BY <2>1 DEF IsHeld
  <2>3. CallsKept /\ made <= made'
    BY <2>1, TypeIs DEF CallsKept, Calling
  <2>4. QED
    BY <2>1, <2>2, <2>3, AreaFrame
<1>3. QED
  BY <1>1, <1>2 DEF Next, Terminated

LEMMA AreaInit == Init => AreaInv
<1> SUFFICES ASSUME Init PROVE AreaInv
  OBVIOUS
<1>1. \A i \in 1 .. MaxInstances : insts[i] = NewInstance
  BY DEF Init
<1>2. InstsOK
  BY <1>1, NewOK DEF InstsOK
<1>3. AreaFits
  BY DEF Init, AreaFits, IdleThread
<1>4. QED
  BY <1>2, <1>3 DEF AreaInv

LEMMA AreaInvariant == Spec => [](TInv /\ AreaInv)
<1>1. TInv /\ OwnInv /\ AreaInv /\ [Next]_vars => AreaInv'
  BY AreaStep
<1>2. QED
  BY <1>1, AreaInit, OwnInvariant, PTL DEF Spec

(* While a call runs in the guest and until it returns, its input area is  *)
(* allocated and has room for the whole input, although                    *)
(* call_generic_function does not record the length of a larger area.      *)
THEOREM AreasFit == Spec => []AreaFits
<1>1. AreaInv => AreaFits
  BY DEF AreaInv
<1>2. QED
  BY <1>1, AreaInvariant, PTL

(* The only area of an instance that is allocated is the cached one, and   *)
(* none is once the last Arc to the instance is gone: Drop for Instance    *)
(* runs whichever of pool, call, iterator and buffers lets go last.        *)
THEOREM AreasFreed == Spec => []NoAreaLeaks
<1>1. TInv /\ AreaInv => NoAreaLeaks
  <2> SUFFICES ASSUME TInv, AreaInv PROVE NoAreaLeaks
    OBVIOUS
  <2>1. \A i \in 1 .. made : i \in 1 .. MaxInstances
    BY TypeIs, PoolAssumption
  <2>2. QED
    BY <2>1 DEF AreaInv, InstsOK, InstOK, IsHeld, NoAreaLeaks
<1>2. QED
  BY <1>1, AreaInvariant, PTL
-----------------------------------------------------------------------------
(* The size of the pool.  The threads with an instance are finitely many.  *)
LEMMA TakingFinite ==
  /\ Taking \subseteq Threads /\ IsFiniteSet(Taking)
  /\ Cardinality(Taking) \in Nat /\ Cardinality(Taking) <= Cardinality(Threads)
  /\ Cardinality(Threads) \in Nat
<1>1. Taking \in SUBSET Threads
  BY DEF Taking
<1>2. IsFiniteSet(Threads)
  BY PoolAssumption
<1>3. IsFiniteSet(Taking) /\ Cardinality(Taking) <= Cardinality(Threads)
  BY <1>1, <1>2, FS_Subset
<1>4. QED
  BY <1>1, <1>2, <1>3, FS_CardinalityType

(* A step by which no thread takes an instance and the pool does not grow. *)
LEMMA BoundKept ==
  ASSUME TInv, TInv', PoolBounded, Taking' \subseteq Taking, UNCHANGED pool
  PROVE  PoolBounded'
<1>1. Taking' \in SUBSET Taking
  OBVIOUS
<1>2. Cardinality(Taking') <= Cardinality(Taking) /\ Cardinality(Taking') \in Nat
  BY <1>1, TakingFinite, FS_Subset, FS_CardinalityType
<1>3. Len(pool) \in Nat
  BY TypeIs
<1>4. QED
  BY <1>2, <1>3, TakingFinite DEF PoolBounded

LEMMA BoundPop ==
  ASSUME TInv, PoolBounded, NEW t \in Threads, NEW n \in Lens, PopInstance(t, n)
  PROVE  PoolBounded'
<1>1. pool # << >> /\ pool' = Tail(pool)
  BY DEF PopInstance
<1>2. Len(pool') = Len(pool) - 1 /\ Len(pool) \in Nat
  BY <1>1, TypeIs, HeadTail
<1>3. Only(t) /\ th[t].pc = "idle" /\ th'[t].pc = "want"
  BY PopEffect
<1>4. t \notin Taking /\ Taking' = Taking \union {t}
  BY <1>3 DEF Only, Taking
<1>5. Cardinality(Taking') = Cardinality(Taking) + 1
  BY <1>4, TakingFinite, FS_AddElement
<1>6. QED
  BY <1>2, <1>5, TakingFinite DEF PoolBounded

(* The pool is empty when an instance is made.                             *)
LEMMA BoundMake ==
  ASSUME TInv, PoolBounded, NEW t \in Threads, NEW n \in Lens, MakeInstance(t, n)
  PROVE  PoolBounded'
<1>1. Len(pool') = 0
  BY MakeEffect
<1>2. Taking' \in SUBSET Threads
  BY DEF Taking
<1>3. Cardinality(Taking') \in Nat /\ Cardinality(Taking') <= Cardinality(Threads)
  BY <1>2, PoolAssumption, FS_Subset, FS_CardinalityType
<1>4. QED
  BY <1>1, <1>3, TakingFinite DEF PoolBounded

LEMMA BoundPush ==
  ASSUME TInv, PoolBounded, NEW t \in Threads, PushInstance(t)
  PROVE  PoolBounded'
<1>1. Only(t) /\ th[t].pc = "ok" /\ th'[t].pc = "pushed" /\ th[t].inst \in 1 .. made
  BY PushEffect
<1>2. pool' = Append(pool, th[t].inst)
  BY DEF PushInstance
<1>3. Len(pool') = Len(pool) + 1 /\ Len(pool) \in Nat
  BY <1>1, <1>2, TypeIs
<1>4. t \in Taking /\ Taking' = Taking \ {t}
  BY <1>1 DEF Only, Taking
<1>5. Cardinality(Taking') = Cardinality(Taking) - 1
  BY <1>4, TakingFinite, FS_RemoveElement
<1>6. QED
  BY <1>3, <1>5, TakingFinite DEF PoolBounded

LEMMA BoundStep ==
  ASSUME TInv, PoolBounded, [Next]_vars
  PROVE  PoolBounded'
<1>1. ASSUME NEW t \in Threads, Step(t)
      PROVE  PoolBounded'
  <2>1. CASE \E n \in Lens : PopInstance(t, n) \/ MakeInstance(t, n)
    BY <2>1, BoundPop, BoundMake
  <2>2. CASE PushInstance(t)
    BY <2>2, BoundPush
  <2>3. CASE LockInstance(t)
    BY <2>3, LockEffect, BoundKept DEF LockInstance, Only, Taking
  <2>4. CASE CallOk(t)
    BY <2>4, OkEffect, BoundKept DEF CallOk, Only, Taking
  <2>5. CASE CallErr(t)
    BY <2>5, ErrEffect, BoundKept DEF CallErr, Only, Taking
  <2>6. CASE ReturnIter(t)
    BY <2>6, ReturnEffect, BoundKept DEF ReturnIter, Only, Taking
  <2>7. CASE RetryOnNew(t)
    BY <2>7, RetryEffect, BoundKept DEF Only, Taking
  <2>8. CASE PanicOnRetry(t)
    BY <2>8, PanicEffect, BoundKept DEF Only, Taking
  <2>9. CASE NextBuffer(t)
    BY <2>9, NextBufferEffect, BoundKept DEF Only, Taking
  <2>10. CASE NextAborts(t)
    BY <2>10, AbortEffect, BoundKept DEF Taking
  <2>11. CASE DropIter(t)
    BY <2>11, DropIterEffect, BoundKept DEF Only, Taking
  <2>12. ASSUME NEW i \in 1 .. made, DropArray(t, i)
         PROVE  PoolBounded'
    BY <2>12, DropArrayEffect, BoundKept DEF Taking
  <2>13. QED
    BY <1>1, <2>1, <2>2, <2>3, <2>4, <2>5, <2>6, <2>7, <2>8, <2>9, <2>10, <2>11,
       <2>12 DEF Step, CallStep
<1>2. CASE UNCHANGED vars
  BY <1>2, StutterEffect, BoundKept DEF Taking
<1>3. QED
  BY <1>1, <1>2 DEF Next, Terminated

(* However many calls are made and fail, the pool and the running calls    *)
(* never have more instances than there are threads: call_multi_buf makes  *)
(* one only when the pool is empty, and a retry replaces the one it drops. *)
THEOREM PoolSizeBounded == Spec => []PoolBounded
<1>1. Init => PoolBounded
  <2> SUFFICES ASSUME Init PROVE PoolBounded
    OBVIOUS
  <2>1. Len(pool) = 0
    BY DEF Init
  <2>2. QED
    BY <2>1, TakingFinite DEF PoolBounded
<1>2. TInv /\ PoolBounded /\ [Next]_vars => PoolBounded'
  BY BoundStep
<1>3. QED
  BY <1>1, <1>2, TypeInvariant, PTL DEF Spec
=============================================================================

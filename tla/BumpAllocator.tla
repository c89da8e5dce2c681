--------------------------- MODULE BumpAllocator ---------------------------
(***************************************************************************)
(* The global allocator of the bare-metal images                           *)
(* (aarch64-baremetal-unwind/src/main.rs 103-153 and its copy in           *)
(* main_with_unwinding.rs 21-86): a bump pointer moved by compare_exchange,*)
(* no deallocation, and a handler that stops the caller when memory runs   *)
(* out.  The type is Sync, so callers interleave; the first load is        *)
(* Relaxed, so it may return an old value of next, but never one older     *)
(* than the caller has already seen.                                       *)
(***************************************************************************)
EXTENDS Integers

CONSTANTS
  Callers,
  HeapSize,               \* HEAP_SIZE
  HeapBase,               \* address of HeapStorage
  BaseAlign,              \* repr(align(16))
  Word,                   \* usize::MAX + 1
  Layouts                 \* the requests: records [size, align]

ASSUME HeapAssumption ==
  /\ HeapSize \in Nat /\ Word \in Nat /\ HeapBase \in Nat
  /\ BaseAlign \in Nat \ {0} /\ HeapBase % BaseAlign = 0
  /\ 2 * HeapSize <= Word

(* What Rust's Layout guarantees: the size rounded up to the alignment     *)
(* does not exceed isize::MAX, and GlobalAlloc is not asked for size 0.    *)
ASSUME LayoutAssumption ==
  \A l \in Layouts : /\ l.size \in Nat \ {0} /\ l.align \in Nat \ {0}
                     /\ 2 * (l.size + l.align) <= Word

VARIABLES
  next,                   \* BumpAllocator.next
  pc,                     \* "idle", "alloc" (in the loop), "halted" (in oom)
  req,                    \* the layout asked for
  cur,                    \* the local of alloc: the last value of next seen
  blocks                  \* blocks handed out

vars == <<next, pc, req, cur, blocks>>

(* Two mutants. *)
AlignDown(x, a) ==            \* & !(align - 1) without + align - 1
  x - (x % a)

AlignNone(x, a) == x          \* no rounding

(* (cur + align - 1) & !(align - 1), in machine arithmetic *)
AlignUp(x, a) == LET y == (x + a - 1) % Word IN y - (y % a)

BlockEnd(x, l) == AlignUp(x, l.align) + l.size

(* A mutant. *)
FitsOffByOne(x, l) ==         \* the bound is checked before the size is added
  AlignUp(x, l.align) <= HeapSize

(* checked_add does not overflow and the block ends inside the heap *)
Fits(x, l) == BlockEnd(x, l) < Word /\ BlockEnd(x, l) <= HeapSize

Block(t, x, l) == [by |-> t, start |-> AlignUp(x, l.align),
                   end |-> BlockEnd(x, l), layout |-> l]

BlockType == [by : Callers, start : Nat, end : Nat, layout : Layouts]

TypeOK ==
  /\ next \in 0 .. HeapSize
  /\ pc \in [Callers -> {"idle", "alloc", "halted"}]
  /\ req \in [Callers -> Layouts]
  /\ cur \in [Callers -> 0 .. HeapSize]
  /\ blocks \in SUBSET BlockType

Init ==
  /\ next = 0
  /\ pc = [t \in Callers |-> "idle"]
  /\ req \in [Callers -> Layouts]
  /\ cur = [t \in Callers |-> 0]
  /\ blocks = {}

(* Values that next has had. *)
Past == {0} \cup {b.end : b \in blocks}

-----------------------------------------------------------------------------
(* Mutants. *)

AllocRetryStale(t) ==         \* the retry does not use the value observed
  /\ pc[t] = "alloc" /\ Fits(cur[t], req[t])
  /\ next # cur[t]
  /\ UNCHANGED vars

AllocFailEager(t) ==          \* gives up when another caller was faster
  /\ pc[t] = "alloc" /\ (next # cur[t] \/ ~Fits(cur[t], req[t]))
  /\ pc' = [pc EXCEPT ![t] = "halted"]
  /\ UNCHANGED <<next, req, cur, blocks>>

-----------------------------------------------------------------------------
(* alloc is called and loads next. *)
AllocCall(t) ==
  /\ pc[t] = "idle"
  /\ \E l \in Layouts, x \in Past :
       /\ x >= cur[t]
       /\ req' = [req EXCEPT ![t] = l]
       /\ cur' = [cur EXCEPT ![t] = x]
  /\ pc' = [pc EXCEPT ![t] = "alloc"]
  /\ UNCHANGED <<next, blocks>>

(* The compare_exchange succeeds and the block is returned. *)
AllocTake(t) ==
  /\ pc[t] = "alloc" /\ Fits(cur[t], req[t])
  /\ next = cur[t]
  /\ next' = BlockEnd(cur[t], req[t])
  /\ cur' = [cur EXCEPT ![t] = next']
  /\ blocks' = blocks \cup {Block(t, cur[t], req[t])}
  /\ pc' = [pc EXCEPT ![t] = "idle"]
  /\ UNCHANGED req

(* It fails, and the loop goes on with the value observed. *)
AllocRetry(t) ==
  /\ pc[t] = "alloc" /\ Fits(cur[t], req[t])
  /\ next # cur[t]
  /\ cur' = [cur EXCEPT ![t] = next]
  /\ UNCHANGED <<next, pc, req, blocks>>

(* Null is returned; the alloc error handler never returns. *)
AllocFail(t) ==
  /\ pc[t] = "alloc" /\ ~Fits(cur[t], req[t])
  /\ pc' = [pc EXCEPT ![t] = "halted"]
  /\ UNCHANGED <<next, req, cur, blocks>>

AllHalted == (\A t \in Callers : pc[t] = "halted") /\ UNCHANGED vars

AllocStep(t) == AllocTake(t) \/ AllocRetry(t) \/ AllocFail(t)

Next == \/ \E t \in Callers : AllocCall(t) \/ AllocStep(t)
        \/ AllHalted

Spec == Init /\ [][Next]_vars

(* A caller inside alloc keeps running. *)
FairSpec == Spec /\ \A t \in Callers : WF_vars(AllocStep(t))

-----------------------------------------------------------------------------
(* No byte is handed out twice, whatever the race on next. *)
BlocksDisjoint ==
  \A b, c \in blocks : b # c => b.end <= c.start \/ c.end <= b.start

(* Every block lies inside the heap, has the size asked for, and starts at *)
(* an address of the alignment asked for as far as the static buffer's own *)
(* alignment carries (the code rounds the offset, not the address).        *)
BlocksServeRequest ==
  \A b \in blocks :
    /\ b.end <= HeapSize
    /\ b.end - b.start = b.layout.size
    /\ BaseAlign % b.layout.align = 0 => (HeapBase + b.start) % b.layout.align = 0

(* A caller is stopped for lack of memory only if its request does not fit *)
(* in what is left, even when it decided on an old value of next.          *)
FailureIsReal ==
  \A t \in Callers : pc[t] = "halted" => ~Fits(next, req[t])

(* alloc always ends: a lost race means that another caller has shortened  *)
(* the heap.                                                               *)
AllocReturns == \A t \in Callers : pc[t] = "alloc" ~> pc[t] # "alloc"

=============================================================================

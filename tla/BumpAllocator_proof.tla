------------------------ MODULE BumpAllocator_proof ------------------------
(***************************************************************************)
(* Proofs about BumpAllocator, for every set of callers, heap and set of   *)
(* layouts that satisfy the module's assumptions.                          *)
(***************************************************************************)
EXTENDS BumpAllocator, TLAPS

(* The rounding of alloc in plain arithmetic: the sum never reaches the    *)
(* machine's word size, the result is at least its argument, and less than *)
(* one alignment above it.                                                 *)
LEMMA AlignUpBounds ==
  ASSUME NEW x \in 0 .. HeapSize, NEW l \in Layouts
  PROVE  /\ AlignUp(x, l.align) = (x + l.align - 1) - ((x + l.align - 1) % l.align)
         /\ AlignUp(x, l.align) \in Nat
         /\ AlignUp(x, l.align) >= x
         /\ AlignUp(x, l.align) <= x + l.align - 1
         /\ BlockEnd(x, l) \in Nat
         /\ BlockEnd(x, l) > AlignUp(x, l.align)
         /\ BlockEnd(x, l) < Word
<1> DEFINE a == l.align
           y == x + a - 1
<1>1. a \in Nat \ {0} /\ l.size \in Nat \ {0} /\ 2 * (l.size + a) <= Word
  BY LayoutAssumption
<1>2. y \in Nat /\ y < Word
  BY <1>1, HeapAssumption
<1>3. y % Word = y
  BY <1>2, HeapAssumption
<1>4. y % a \in 0 .. a - 1
  BY <1>1, <1>2
<1>5. AlignUp(x, a) = y - (y % a)
  BY <1>3 DEF AlignUp
<1> HIDE DEF a
<1>6. AlignUp(x, a) \in Nat /\ AlignUp(x, a) >= x /\ AlignUp(x, a) <= x + a - 1
  BY <1>1, <1>2, <1>4, <1>5
<1>7. BlockEnd(x, l) = AlignUp(x, a) + l.size
  BY DEF BlockEnd, a
<1>8. /\ BlockEnd(x, l) \in Nat
      /\ BlockEnd(x, l) > AlignUp(x, a)
      /\ BlockEnd(x, l) < Word
  BY <1>1, <1>6, <1>7, HeapAssumption
<1> QED BY <1>5, <1>6, <1>8 DEF a

(* Rounding up is monotone, so a larger bump pointer never makes room. *)
LEMMA AlignUpMonotone ==
  ASSUME NEW x \in 0 .. HeapSize, NEW z \in 0 .. HeapSize, x <= z,
         NEW l \in Layouts
  PROVE  BlockEnd(x, l) <= BlockEnd(z, l)
<1> DEFINE a == l.align
           u == x + a - 1
           v == z + a - 1
<1>1. a \in Nat \ {0} /\ l.size \in Nat
  BY LayoutAssumption
<1>2. AlignUp(x, a) = u - (u % a) /\ AlignUp(z, a) = v - (v % a)
  BY AlignUpBounds
<1> HIDE DEF a
<1>3. u \in Nat /\ v \in Nat /\ u <= v
  BY <1>1
<1> HIDE DEF u, v
<1>4. u - (u % a) = a * (u \div a) /\ v - (v % a) = a * (v \div a)
  BY <1>1, <1>3
<1>5. (u \div a) \in Nat /\ (v \div a) \in Nat /\ (u \div a) <= (v \div a)
  BY <1>1, <1>3
<1>6. a * (u \div a) <= a * (v \div a)
  BY <1>1, <1>5
<1>7. BlockEnd(x, l) = AlignUp(x, a) + l.size /\ BlockEnd(z, l) = AlignUp(z, a) + l.size
  BY DEF BlockEnd, a
<1> QED BY <1>1, <1>2, <1>4, <1>5, <1>6, <1>7

-----------------------------------------------------------------------------
(* Everything handed out lies below next, and no caller's view of next is  *)
(* ahead of it.                                                            *)
BelowNext == \A b \in blocks : b.start < b.end /\ b.end <= next

ViewNotAhead == \A t \in Callers : cur[t] <= next

AllocInv == TypeOK /\ BelowNext /\ ViewNotAhead /\ BlocksDisjoint /\ FailureIsReal

(* The invariant holds initially. *)
LEMMA AllocInvInit == Init => AllocInv
<1> SUFFICES ASSUME Init PROVE AllocInv
  OBVIOUS
<1>1. TypeOK
  BY HeapAssumption DEF Init, TypeOK
<1>2. BelowNext /\ ViewNotAhead /\ BlocksDisjoint /\ FailureIsReal
  BY DEF Init, BelowNext, ViewNotAhead, BlocksDisjoint, FailureIsReal
<1> QED BY <1>1, <1>2 DEF AllocInv

(* Every step keeps it: the only step that moves next starts its block at  *)
(* or above the value the compare_exchange found there.                    *)
LEMMA AllocInvStep ==
  ASSUME AllocInv, [Next]_vars
  PROVE  AllocInv'
<1> USE HeapAssumption DEF AllocInv, TypeOK, BelowNext, ViewNotAhead
<1>1. ASSUME NEW t \in Callers, AllocCall(t)
      PROVE  AllocInv'
  <2>1. PICK l \in Layouts, x \in Past :
           /\ x >= cur[t]
           /\ req' = [req EXCEPT ![t] = l]
           /\ cur' = [cur EXCEPT ![t] = x]
    BY <1>1 DEF AllocCall
  <2>2. x \in 0 .. HeapSize /\ x <= next
    BY <2>1 DEF Past, BlockType
  <2>3. TypeOK' /\ BelowNext' /\ ViewNotAhead'
    BY <1>1, <2>1, <2>2 DEF AllocCall
  <2>4. BlocksDisjoint'
    BY <1>1 DEF AllocCall, BlocksDisjoint
  <2>5. FailureIsReal'
    BY <1>1, <2>1 DEF AllocCall, FailureIsReal
  <2> QED BY <2>3, <2>4, <2>5
<1>2. ASSUME NEW t \in Callers, AllocTake(t)
      PROVE  AllocInv'
  <2> DEFINE b == Block(t, cur[t], req[t])
  <2>1. cur[t] \in 0 .. HeapSize /\ req[t] \in Layouts /\ next = cur[t]
    BY <1>2 DEF AllocTake
  <2>2. /\ b \in BlockType /\ b.start >= next /\ b.start < b.end
        /\ b.end = next' /\ next' \in 0 .. HeapSize /\ next' >= next
    BY <1>2, <2>1, AlignUpBounds DEF AllocTake, Block, BlockType, Fits
  <2>3. blocks' = blocks \cup {b}
    BY <1>2 DEF AllocTake
  <2> HIDE DEF b
  <2>4. TypeOK'
    BY <1>2, <2>2, <2>3 DEF AllocTake
  <2>5. \A c \in blocks : c.start \in Nat /\ c.end \in Nat
    BY DEF BlockType
  <2>6. BelowNext' /\ ViewNotAhead'
    BY <1>2, <2>2, <2>3, <2>5 DEF AllocTake
  <2>7. BlocksDisjoint'
    BY <2>2, <2>3, <2>5 DEF BlocksDisjoint, BlockType
  <2>8. FailureIsReal'
    <3> SUFFICES ASSUME NEW u \in Callers, pc'[u] = "halted"
                 PROVE  ~Fits(next', req'[u])
      BY DEF FailureIsReal
    <3>1. pc[u] = "halted" /\ req'[u] = req[u] /\ req[u] \in Layouts
      BY <1>2 DEF AllocTake
    <3>2. ~Fits(next, req[u])
      BY <3>1 DEF FailureIsReal
    <3>3. BlockEnd(next, req[u]) <= BlockEnd(next', req[u])
      BY <2>2, <3>1, AlignUpMonotone
    <3> QED BY <2>2, <3>1, <3>2, <3>3, AlignUpBounds DEF Fits
  <2> QED BY <2>4, <2>6, <2>7, <2>8
<1>3. ASSUME NEW t \in Callers, AllocRetry(t)
      PROVE  AllocInv'
  BY <1>3 DEF AllocRetry, BlocksDisjoint, FailureIsReal
<1>4. ASSUME NEW t \in Callers, AllocFail(t)
      PROVE  AllocInv'
  <2>1. TypeOK' /\ BelowNext' /\ ViewNotAhead' /\ BlocksDisjoint'
    BY <1>4 DEF AllocFail, BlocksDisjoint
  <2>2. ~Fits(next, req[t])
    <3>1. cur[t] \in 0 .. HeapSize /\ req[t] \in Layouts /\ cur[t] <= next
      OBVIOUS
    <3>2. BlockEnd(cur[t], req[t]) <= BlockEnd(next, req[t])
      BY <3>1, AlignUpMonotone
    <3> QED BY <1>4, <3>1, <3>2, AlignUpBounds DEF AllocFail, Fits
  <2>3. FailureIsReal'
    BY <1>4, <2>2 DEF AllocFail, FailureIsReal
  <2> QED BY <2>1, <2>3
<1>5. CASE UNCHANGED vars
  BY <1>5 DEF vars, BlocksDisjoint, FailureIsReal
<1> QED BY <1>1, <1>2, <1>3, <1>4, <1>5 DEF Next, AllocStep, AllHalted

(* The invariant always holds. *)
LEMMA AllocInvAlways == Spec => []AllocInv
<1>1. AllocInv /\ [Next]_vars => AllocInv'
  BY AllocInvStep
<1> QED BY <1>1, AllocInvInit, PTL DEF Spec

(* The bump pointer and every caller's view of it stay inside the heap, so *)
(* the unchecked cur + align - 1 in alloc never wraps (AlignUpBounds).     *)
THEOREM AllocTypeCorrect == Spec => []TypeOK
<1>1. AllocInv => TypeOK
  BY DEF AllocInv
<1> QED BY <1>1, AllocInvAlways, PTL

(* Two blocks handed out never overlap, whatever callers race on next. *)
THEOREM NoByteTwice == Spec => []BlocksDisjoint
<1>1. AllocInv => BlocksDisjoint
  BY DEF AllocInv
<1> QED BY <1>1, AllocInvAlways, PTL

(* alloc answers null only when the request does not fit in what is left,  *)
(* although the Relaxed load may have read an old value of next.           *)
THEOREM NullMeansFull == Spec => []FailureIsReal
<1>1. AllocInv => FailureIsReal
  BY DEF AllocInv
<1> QED BY <1>1, AllocInvAlways, PTL

(* Memory is never given back: next only grows, by at least the size of    *)
(* the block handed out, and a failed alloc leaves it alone.               *)
NextOnlyGrows == [][next' >= next /\ (next' = next <=> blocks' = blocks)]_vars

(* next only grows, and moves exactly when a block is handed out. *)
THEOREM MemoryOnlyShrinks == Spec => NextOnlyGrows
<1>1. AllocInv /\ [Next]_vars =>
        [next' >= next /\ (next' = next <=> blocks' = blocks)]_vars
  <2> SUFFICES ASSUME AllocInv, [Next]_vars
               PROVE  next' >= next /\ (next' = next <=> blocks' = blocks)
    OBVIOUS
  <2> USE DEF AllocInv, TypeOK
  <2>1. ASSUME NEW t \in Callers, AllocTake(t)
        PROVE  next \in Nat /\ next' \in Nat /\ next' > next /\ blocks' # blocks
    <3>1. cur[t] \in 0 .. HeapSize /\ req[t] \in Layouts /\ next = cur[t]
      BY <2>1 DEF AllocTake
    <3>2. next \in Nat /\ next' \in Nat /\ next' > next
          /\ Block(t, cur[t], req[t]).end = next'
      BY <2>1, <3>1, AlignUpBounds DEF AllocTake, Block
    <3>3. Block(t, cur[t], req[t]) \notin blocks
      BY <3>2 DEF BelowNext
    <3> QED BY <2>1, <3>2, <3>3 DEF AllocTake
  <2>2. CASE ~ \E t \in Callers : AllocTake(t)
    BY <2>2, HeapAssumption DEF Next, AllocStep, AllocCall, AllocRetry, AllocFail, AllHalted, vars
  <2> QED BY <2>1, <2>2
<1> QED BY <1>1, AllocInvAlways, PTL DEF Spec, NextOnlyGrows

-----------------------------------------------------------------------------
(* The address of a rounded offset is aligned when the alignment divides   *)
(* that of the static buffer.                                              *)
LEMMA AddressAligned ==
  ASSUME NEW x \in 0 .. HeapSize, NEW l \in Layouts, BaseAlign % l.align = 0
  PROVE  (HeapBase + AlignUp(x, l.align)) % l.align = 0
<1> DEFINE a == l.align
           y == x + a - 1
           m == BaseAlign \div a
           k == HeapBase \div BaseAlign
           q == y \div a
<1>1. a \in Nat \ {0}
  BY LayoutAssumption
<1>2. AlignUp(x, a) = y - (y % a)
  BY AlignUpBounds
<1> HIDE DEF a
<1>3. y \in Nat
  BY <1>1
<1> HIDE DEF y
<1>4. q \in Nat /\ y - (y % a) = a * q
  BY <1>1, <1>3
<1>5. m \in Nat /\ BaseAlign = a * m
  BY <1>1, HeapAssumption DEF a
<1>6. k \in Nat /\ HeapBase = BaseAlign * k
  BY HeapAssumption
<1> HIDE DEF m, k, q
<1>7. HeapBase = a * (m * k)
  BY <1>1, <1>5, <1>6
<1>8. m * k + q \in Nat /\ HeapBase + AlignUp(x, a) = a * (m * k + q)
  BY <1>1, <1>2, <1>4, <1>5, <1>6, <1>7
<1>9. (a * (m * k + q)) % a = 0
  BY <1>1, <1>8
<1> QED BY <1>8, <1>9 DEF a

(* Every block handed out is what its caller asked for: inside the heap,   *)
(* of the size requested, and aligned as far as the buffer's own alignment *)
(* allows.                                                                 *)
THEOREM RequestsAreServed == Spec => []BlocksServeRequest
<1>1. Init => BlocksServeRequest
  BY DEF Init, BlocksServeRequest
<1>2. TypeOK /\ BlocksServeRequest /\ [Next]_vars => BlocksServeRequest'
  <2> SUFFICES ASSUME TypeOK, BlocksServeRequest, [Next]_vars
               PROVE  BlocksServeRequest'
    OBVIOUS
  <2>1. ASSUME NEW t \in Callers, AllocTake(t)
        PROVE  BlocksServeRequest'
    <3> DEFINE b == Block(t, cur[t], req[t])
    <3>1. cur[t] \in 0 .. HeapSize /\ req[t] \in Layouts
      BY DEF TypeOK
    <3>2. b.end <= HeapSize /\ b.end - b.start = b.layout.size
      BY <2>1, <3>1, AlignUpBounds, LayoutAssumption
         DEF AllocTake, Fits, Block, BlockEnd
    <3>3. BaseAlign % b.layout.align = 0 => (HeapBase + b.start) % b.layout.align = 0
      BY <3>1, AddressAligned DEF Block
    <3> HIDE DEF b
    <3>4. blocks' = blocks \cup {b}
      BY <2>1 DEF AllocTake, b
    <3> QED BY <3>2, <3>3, <3>4 DEF BlocksServeRequest
  <2>2. CASE ~ \E t \in Callers : AllocTake(t)
    <3>1. blocks' = blocks
      BY <2>2 DEF Next, AllocStep, AllocCall, AllocRetry, AllocFail, AllHalted, vars
    <3> QED BY <3>1 DEF BlocksServeRequest
  <2> QED BY <2>1, <2>2
<1> QED BY <1>1, <1>2, AllocTypeCorrect, PTL DEF Spec

=============================================================================

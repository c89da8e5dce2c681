-------------------------- MODULE SoftLock_proof --------------------------
(***************************************************************************)
(* Proofs about the soft lock, in three parts: what every use of it rests  *)
(* on, whatever its closures do (a step of one caller keeps the lock's     *)
(* types and the exactness of its flag); SoftLockOps, for every set of     *)
(* threads and every number of operations per thread; and SoftLockIsr, for *)
(* every set of contexts: with run-to-completion preemption the release    *)
(* loop never waits and nothing recorded is left behind.  What is proved   *)
(* about SoftLockOps holds there too, as every step of SoftLockIsr is one  *)
(* of its steps.                                                           *)
(***************************************************************************)
EXTENDS SoftLockIsr, SequenceTheorems, TLAPS

USE DEF Positions, Holding

-----------------------------------------------------------------------------
(* A step of one thread as the lock sees it. *)
LockStep(t) == \/ GuardFull(t) \/ GuardPendOnly(t) \/ OpReturned(t)
               \/ MarkPending(t) \/ SwapPending(t) \/ PendedOpReturned(t)
               \/ Unlock(t) \/ Recheck(t) \/ Reacquire(t)

(* The lock's variables keep their types. *)
LEMMA LockStepType ==
  ASSUME LockTypeOK, NEW t \in Threads, LockStep(t)
  PROVE  LockTypeOK'
BY DEF LockTypeOK, LockStep, Goto, GuardFull, GuardPendOnly, OpReturned,
       MarkPending, SwapPending, PendedOpReturned, Unlock, Recheck, Reacquire

(* A free lock is marked free and a taken one has one holder. *)
LockInv == LockedIffHeld /\ MutualExclusion

(* The lock's flag and its holder change together, in every lock step.     *)
LEMMA LockInvStep ==
  ASSUME LockTypeOK, LockInv, NEW t \in Threads, LockStep(t)
  PROVE  LockInv'
<1> USE DEF LockTypeOK, LockInv, LockedIffHeld, MutualExclusion, Holds, Goto
<1>1. CASE GuardFull(t) \/ Reacquire(t)
  <2>1. ~ \E u \in Threads : Holds(u)
    BY <1>1 DEF GuardFull, Reacquire
  <2>2. Holds(t)' /\ locked' /\ \A u \in Threads : u # t => Holds(u)' = Holds(u)
    BY <1>1 DEF GuardFull, Reacquire
  <2> QED BY <2>1, <2>2
<1>2. CASE GuardPendOnly(t) \/ MarkPending(t) \/ Recheck(t)
  BY <1>2 DEF GuardPendOnly, MarkPending, Recheck
<1>3. CASE OpReturned(t) \/ SwapPending(t) \/ PendedOpReturned(t)
  <2>1. locked' = locked /\ \A u \in Threads : Holds(u)' = Holds(u)
    BY <1>3 DEF OpReturned, SwapPending, PendedOpReturned
  <2> QED BY <2>1
<1>4. CASE Unlock(t)
  <2>1. Holds(t) /\ ~Holds(t)' /\ ~locked'
        /\ \A u \in Threads : u # t => Holds(u)' = Holds(u)
    BY <1>4 DEF Unlock
  <2> QED BY <2>1
<1> QED BY <1>1, <1>2, <1>3, <1>4 DEF LockStep

(* A new lock is well typed, and nobody holds it. *)
LEMMA LockInitial == LockInit => LockTypeOK /\ LockInv
BY DEF LockInit, LockTypeOK, LockInv, LockedIffHeld, MutualExclusion, Holds

-----------------------------------------------------------------------------
(* Every step of the system is a step of one thread in the lock, or leaves *)
(* the lock alone (the swap inside run_pended_op, termination).            *)
LEMMA NextIsLockStep ==
  ASSUME [Next]_vars
  PROVE  (\E t \in Threads : LockStep(t)) \/ UNCHANGED lockVars
BY DEF Next, vars, Enter, Step, SubmitDirect, PendSubmit, Release,
       RunPendedNothing, RunPendedTake, RunPendedPush, Terminating, LockStep

-----------------------------------------------------------------------------
(* A thread inside with_access carries an operation of its loop.  Without  *)
(* this part TypeOK is not inductive: the operation a closure records must *)
(* be one of Ops.                                                          *)
InsideIssued == \A t \in Threads : pc[t] # "idle" => issued[t] >= 1

TypeInv == TypeOK /\ InsideIssued

(* A thread inside with_access carries an element of Ops. *)
LEMMA OpOfType ==
  ASSUME TypeInv, NEW t \in Threads, pc[t] # "idle"
  PROVE  OpOf(t) \in Ops
BY OpsAssumption DEF TypeInv, InsideIssued, TypeOK, OpOf, Ops

(* The type invariant and its strengthening are kept by every step. *)
LEMMA TypeInvStep ==
  ASSUME TypeInv, [Next]_vars
  PROVE  TypeInv'
<1> USE OpsAssumption DEF TypeInv
<1>1. LockTypeOK'
  BY NextIsLockStep, LockStepType DEF TypeOK, LockTypeOK, lockVars
<1>2. ASSUME NEW t \in Threads, Enter(t)
      PROVE  TypeInv'
  <2>1. issued' \in [Threads -> 0 .. OpsPerThread] /\ issued'[t] >= 1
    BY <1>2 DEF Enter, TypeOK
  <2>2. \A u \in Threads : u # t => pc'[u] = pc[u] /\ issued'[u] = issued[u]
    BY <1>2 DEF Enter, GuardFull, GuardPendOnly, Goto, TypeOK, LockTypeOK
  <2> QED BY <1>1, <1>2, <2>1, <2>2 DEF Enter, contentVars, TypeOK, InsideIssued
<1>3. ASSUME NEW t \in Threads, Step(t)
      PROVE  TypeInv'
  <2>1. issued' = issued
    BY <1>3 DEF Step, SubmitDirect, PendSubmit, Release, RunPendedNothing,
                RunPendedTake, RunPendedPush
  <2>2. \A u \in Threads : pc[u] = "idle" => pc'[u] = "idle"
    BY <1>3 DEF Step, SubmitDirect, PendSubmit, Release, RunPendedNothing,
                RunPendedTake, RunPendedPush, OpReturned, MarkPending,
                SwapPending, PendedOpReturned, Unlock, Recheck, Reacquire,
                Goto, TypeOK, LockTypeOK, lockVars
  <2>3. recorded' \in SUBSET Ops /\ executed' \in SUBSET Ops
        /\ batch' \in [Threads -> SUBSET Ops]
    <3>1. CASE SubmitDirect(t)
      BY <3>1, OpOfType DEF SubmitDirect, TypeOK
    <3>2. CASE PendSubmit(t)
      BY <3>2, OpOfType DEF PendSubmit, TypeOK
    <3>3. CASE Release(t) \/ RunPendedNothing(t)
      BY <3>3 DEF Release, RunPendedNothing, contentVars, TypeOK
    <3>4. CASE RunPendedTake(t)
      BY <3>4 DEF RunPendedTake, TypeOK
    <3>5. CASE RunPendedPush(t)
      BY <3>5 DEF RunPendedPush, TypeOK
    <3> QED BY <1>3, <3>1, <3>2, <3>3, <3>4, <3>5 DEF Step
  <2> QED BY <1>1, <2>1, <2>2, <2>3 DEF TypeOK, InsideIssued
<1>4. CASE UNCHANGED vars
  BY <1>4 DEF vars, lockVars, contentVars, TypeOK, LockTypeOK, InsideIssued
<1> QED BY <1>2, <1>3, <1>4 DEF Next, Terminating

(* It holds initially. *)
LEMMA TypeInvInit == Init => TypeInv
<1> SUFFICES ASSUME Init PROVE TypeInv
  OBVIOUS
<1> USE DEF Init
<1>1. LockTypeOK
  BY DEF LockInit, LockTypeOK
<1>2. issued \in [Threads -> 0 .. OpsPerThread]
  BY OpsAssumption
<1>3. recorded \in SUBSET Ops /\ executed \in SUBSET Ops
  OBVIOUS
<1>4. batch \in [Threads -> SUBSET Ops]
  BY Zenon
<1>5. InsideIssued
  BY DEF LockInit, InsideIssued
<1> QED BY <1>1, <1>2, <1>3, <1>4, <1>5 DEF TypeInv, TypeOK

(* Type correctness of SoftLockOps: the intents recorded, taken and        *)
(* executed are operations of the program, and no thread makes more calls  *)
(* of with_access than its loop has iterations.                            *)
THEOREM TypeCorrect == Spec => []TypeOK
<1>1. Init => TypeInv
  BY TypeInvInit
<1>2. TypeInv /\ [Next]_vars => TypeInv'
  BY TypeInvStep
<1>3. TypeInv => TypeOK
  BY DEF TypeInv
<1> QED BY <1>1, <1>2, <1>3, PTL DEF Spec

(* The strengthening, for the theorems below. *)
LEMMA TypeInvAlways == Spec => []TypeInv
<1>1. Init => TypeInv
  BY TypeInvInit
<1>2. TypeInv /\ [Next]_vars => TypeInv'
  BY TypeInvStep
<1> QED BY <1>1, <1>2, PTL DEF Spec

-----------------------------------------------------------------------------
(* The lock invariant always holds. *)
LEMMA LockInvAlways == Spec => []LockInv
<1>1. Init => LockInv
  BY LockInitial DEF Init
<1>2. LockTypeOK /\ LockInv /\ [Next]_vars => LockInv'
  <2> SUFFICES ASSUME LockTypeOK, LockInv, [Next]_vars PROVE LockInv'
    OBVIOUS
  <2>1. CASE UNCHANGED lockVars
    BY <2>1 DEF lockVars, LockInv, LockedIffHeld, MutualExclusion, Holds
  <2> QED BY <2>1, NextIsLockStep, LockInvStep
<1>3. TypeOK => LockTypeOK
  BY DEF TypeOK
<1> QED BY <1>1, <1>2, <1>3, TypeCorrect, PTL DEF Spec

(* Two callers are never both between winning a compare_exchange of locked *)
(* and the store that frees it, for any number of threads.                 *)
THEOREM FullAccessIsExclusive == Spec => []MutualExclusion
<1>1. LockInv => MutualExclusion
  BY DEF LockInv
<1> QED BY <1>1, LockInvAlways, PTL

(* SoftLock.locked is set exactly while some caller is in that section:    *)
(* the lock is never left marked as taken when its last holder leaves.     *)
THEOREM LockFlagIsExact == Spec => []LockedIffHeld
<1>1. LockInv => LockedIffHeld
  BY DEF LockInv
<1> QED BY <1>1, LockInvAlways, PTL

-----------------------------------------------------------------------------
(* Intents are in the hands of a thread only inside its run_pended_op. *)
BatchOnlyInDrain == \A t \in Threads : batch[t] # {} => pc[t] = "drain"

IntentInv == IntentFlagged /\ BatchOnlyInDrain

(* No step leaves a recorded intent without its flag, its recorder or a    *)
(* thread about to take it.                                                *)
LEMMA IntentInvStep ==
  ASSUME TypeInv, IntentInv, [Next]_vars
  PROVE  IntentInv'
<1> USE DEF TypeInv, TypeOK, LockTypeOK, IntentInv, IntentFlagged,
            BatchOnlyInDrain, AboutToTake, Unflagged, OpOf, Goto
<1>1. \A o \in recorded : o[1] \in Threads
  BY DEF Ops
<1>2. ASSUME NEW t \in Threads, Enter(t)
      PROVE  IntentInv'
  <2>1. \A u \in Threads : u # t => pc'[u] = pc[u] /\ issued'[u] = issued[u]
    BY <1>2 DEF Enter, GuardFull, GuardPendOnly
  <2>2. pc[t] = "idle" /\ UNCHANGED <<pending, recorded, batch>>
    BY <1>2 DEF Enter, GuardFull, GuardPendOnly, contentVars
  <2> QED BY <1>1, <2>1, <2>2
<1>3. ASSUME NEW t \in Threads, SubmitDirect(t)
      PROVE  IntentInv'
  BY <1>1, <1>3 DEF SubmitDirect, OpReturned
<1>4. ASSUME NEW t \in Threads, PendSubmit(t)
      PROVE  IntentInv'
  BY <1>1, <1>4 DEF PendSubmit, OpReturned
<1>5. ASSUME NEW t \in Threads, Release(t)
      PROVE  IntentInv'
  <2>1. UNCHANGED <<issued, recorded, batch>>
    BY <1>5 DEF Release, contentVars
  <2>2. CASE MarkPending(t)
    BY <1>1, <2>1, <2>2 DEF MarkPending
  <2>3. CASE SwapPending(t)
    BY <1>1, <2>1, <2>3 DEF SwapPending
  <2>4. CASE Unlock(t) \/ Recheck(t) \/ Reacquire(t)
    BY <1>1, <2>1, <2>4 DEF Unlock, Recheck, Reacquire
  <2> QED BY <1>5, <2>2, <2>3, <2>4 DEF Release
<1>6. ASSUME NEW t \in Threads, RunPendedNothing(t)
      PROVE  IntentInv'
  BY <1>6 DEF RunPendedNothing, PendedOpReturned, contentVars
<1>7. ASSUME NEW t \in Threads, RunPendedTake(t)
      PROVE  IntentInv'
  BY <1>7 DEF RunPendedTake, lockVars
<1>8. ASSUME NEW t \in Threads, RunPendedPush(t)
      PROVE  IntentInv'
  BY <1>1, <1>8 DEF RunPendedPush, PendedOpReturned
<1>9. CASE UNCHANGED vars
  BY <1>9 DEF vars, lockVars, contentVars
<1> QED BY <1>2, <1>3, <1>4, <1>5, <1>6, <1>7, <1>8, <1>9
        DEF Next, Step, Terminating

(* The intent invariant always holds. *)
LEMMA IntentInvAlways == Spec => []IntentInv
<1>1. Init => IntentInv
  BY DEF Init, IntentInv, IntentFlagged, BatchOnlyInDrain
<1>2. TypeInv /\ IntentInv /\ [Next]_vars => IntentInv'
  BY IntentInvStep
<1> QED BY <1>1, <1>2, TypeInvAlways, PTL DEF Spec

(* An intent is recorded before it is flagged and the flag is taken before *)
(* the counter, and still no recorded intent is ever left without a flag,  *)
(* a recorder about to raise it, or a thread about to take the intent.     *)
THEOREM RecordedIntentsAreFlagged == Spec => []IntentFlagged
<1>1. IntentInv => IntentFlagged
  BY DEF IntentInv
<1> QED BY <1>1, IntentInvAlways, PTL

(* The release loop's guarantee between threads: whoever leaves it leaves  *)
(* behind no intent that was flagged, unless another thread is about to    *)
(* take it.                                                                *)
THEOREM ReleaseGuarantee == Spec => ReleaseLeavesOnlyUnflagged
<1>1. TypeInv /\ IntentInv /\ [Next]_vars =>
        [\A t \in Threads : pc[t] = "recheck" /\ pc'[t] = "idle" =>
           \A o \in recorded : Unflagged(o) \/ \E u \in Threads : AboutToTake(u)]_vars
  <2> SUFFICES ASSUME TypeInv, IntentInv, [Next]_vars, NEW t \in Threads,
                      pc[t] = "recheck", pc'[t] = "idle"
               PROVE  ~pending
    BY DEF IntentInv, IntentFlagged
  <2>1. PICK u \in Threads : LockStep(u)
    BY NextIsLockStep DEF lockVars
  <2> QED BY <2>1 DEF LockStep, TypeInv, TypeOK, LockTypeOK, Goto, GuardFull,
          GuardPendOnly, OpReturned, MarkPending, SwapPending,
          PendedOpReturned, Unlock, Recheck, Reacquire
<1> QED BY <1>1, TypeInvAlways, IntentInvAlways, PTL
        DEF Spec, ReleaseLeavesOnlyUnflagged

-----------------------------------------------------------------------------
(* Every step moves an operation from one place to the next one, or moves  *)
(* nothing.  One holder at a time is needed: two threads inside            *)
(* run_pended_op could otherwise both hold intents.                        *)
LEMMA OnePlaceStep ==
  ASSUME TypeInv, IntentInv, LockInv, InExactlyOnePlace, [Next]_vars
  PROVE  InExactlyOnePlace'
<1> USE DEF TypeInv, TypeOK, LockTypeOK, IntentInv, BatchOnlyInDrain,
            InExactlyOnePlace, Carried, Taken, TakenBy, OpOf, Goto
<1>1. \A o \in Ops : o[1] \in Threads /\ o[2] \in 1 .. OpsPerThread /\ o = <<o[1], o[2]>>
  BY DEF Ops
<1>2. ASSUME NEW t \in Threads, Enter(t)
      PROVE  InExactlyOnePlace'
  <2>1. UNCHANGED <<recorded, batch, executed>>
    BY <1>2 DEF Enter, contentVars
  <2>2. \A u \in Threads : u # t => pc'[u] = pc[u] /\ issued'[u] = issued[u]
    BY <1>2 DEF Enter, GuardFull, GuardPendOnly
  <2>3. pc[t] = "idle" /\ pc'[t] \in {"full", "pend"} /\ issued'[t] = issued[t] + 1
        /\ issued[t] \in Nat
    BY <1>2, OpsAssumption DEF Enter, GuardFull, GuardPendOnly
  <2>4. ASSUME NEW o \in Ops, o[1] # t
        PROVE  Carried(o)' = Carried(o) /\ issued'[o[1]] = issued[o[1]]
    BY <1>1, <2>2, <2>4
  <2>5. ASSUME NEW o \in Ops, o[1] = t
        PROVE  /\ ~Carried(o)
               /\ Carried(o)' <=> o[2] = issued[t] + 1
               /\ o[2] \in Nat
    BY <1>1, <2>3, <2>5
  <2> QED BY <2>1, <2>3, <2>4, <2>5
<1>3. ASSUME NEW t \in Threads, SubmitDirect(t)
      PROVE  InExactlyOnePlace'
  <2>1. /\ UNCHANGED <<issued, recorded, batch>>
        /\ executed' = executed \cup {OpOf(t)}
        /\ \A o \in Ops : Carried(o)' <=> Carried(o) /\ o # OpOf(t)
        /\ \A o \in Ops : o = OpOf(t) => Carried(o)
    BY <1>1, <1>3 DEF SubmitDirect, OpReturned
  <2> QED BY <2>1 DEF Carried
<1>4. ASSUME NEW t \in Threads, PendSubmit(t)
      PROVE  InExactlyOnePlace'
  <2>1. /\ UNCHANGED <<issued, batch, executed>>
        /\ recorded' = recorded \cup {OpOf(t)}
        /\ \A o \in Ops : Carried(o)' <=> Carried(o) /\ o # OpOf(t)
        /\ \A o \in Ops : o = OpOf(t) => Carried(o)
    BY <1>1, <1>4 DEF PendSubmit, OpReturned
  <2> QED BY <2>1 DEF Carried
<1>5. ASSUME NEW t \in Threads, Release(t) \/ RunPendedNothing(t)
      PROVE  InExactlyOnePlace'
  <2>1. UNCHANGED <<issued, recorded, batch, executed>>
    BY <1>5 DEF Release, RunPendedNothing, contentVars
  <2>2. \A o \in Ops : Carried(o)' = Carried(o)
    BY <1>1, <1>5 DEF Release, RunPendedNothing, PendedOpReturned, MarkPending,
                      SwapPending, Unlock, Recheck, Reacquire
  <2> QED BY <2>1, <2>2
<1>6. ASSUME NEW t \in Threads, RunPendedTake(t)
      PROVE  InExactlyOnePlace'
  <2>1. \A u \in Threads : batch[u] = {}
    BY <1>6 DEF RunPendedTake, LockInv, MutualExclusion, Holds
  <2>2. /\ UNCHANGED <<issued, executed>> /\ recorded' = {}
        /\ \A o \in Ops, u \in Threads : TakenBy(u, o)' <=> u = t /\ o \in recorded
        /\ \A o \in Ops : Carried(o)' = Carried(o)
    BY <1>6, <2>1 DEF RunPendedTake, lockVars
  <2> QED BY <2>1, <2>2 DEF TakenBy
<1>7. ASSUME NEW t \in Threads, RunPendedPush(t)
      PROVE  InExactlyOnePlace'
  <2>1. \A u \in Threads : u # t => batch[u] = {}
    BY <1>7 DEF RunPendedPush, PendedOpReturned, LockInv, MutualExclusion, Holds
  <2>2. /\ UNCHANGED <<issued, recorded>>
        /\ executed' = executed \cup batch[t]
        /\ \A u \in Threads : batch'[u] = {}
    BY <1>7, <2>1 DEF RunPendedPush
  <2>3. \A o \in Ops : Carried(o)' = Carried(o)
    BY <1>1, <1>7 DEF RunPendedPush, PendedOpReturned
  <2> QED BY <2>1, <2>2, <2>3
<1>8. CASE UNCHANGED vars
  BY <1>8 DEF vars, lockVars, contentVars
<1> QED BY <1>2, <1>3, <1>4, <1>5, <1>6, <1>7, <1>8 DEF Next, Step, Terminating

(* No operation submitted through the soft lock is lost or executed twice: *)
(* each is carried, recorded, taken or executed, and only one of them.     *)
THEOREM OperationsAreConserved == Spec => []InExactlyOnePlace
<1>1. Init => InExactlyOnePlace
  BY OpsAssumption DEF Init, LockInit, InExactlyOnePlace, Carried, Taken, TakenBy, Ops
<1>2. TypeInv /\ IntentInv /\ LockInv /\ InExactlyOnePlace /\ [Next]_vars
        => InExactlyOnePlace'
  BY OnePlaceStep
<1> QED BY <1>1, <1>2, TypeInvAlways, IntentInvAlways, LockInvAlways, PTL DEF Spec

-----------------------------------------------------------------------------
(* The contexts inside with_access are the ones on the stack, each once.   *)
StackShape ==
  /\ stack \in Seq(Threads)
  /\ \A i, j \in 1 .. Len(stack) : i # j => stack[i] # stack[j]
  /\ \A t \in Threads : pc[t] # "idle" <=> \E i \in 1 .. Len(stack) : stack[i] = t

(* Whoever preempts a holder lost the lock to it ...                       *)
AboveHolder ==
  \A i, j \in 1 .. Len(stack) :
    j < i /\ Holds(stack[i]) => pc[stack[j]] \in {"pend", "mark"}

(* ... and whoever lost the lock preempts its holder.                      *)
LoserHasHolder ==
  \A j \in 1 .. Len(stack) : pc[stack[j]] \in {"pend", "mark"} =>
    \E i \in 1 .. Len(stack) : j < i /\ Holds(stack[i])

(* A set flag has somebody who will look at it.                            *)
FlagHasTaker ==
  pending => \E t \in Threads : Holds(t) \/ pc[t] \in {"recheck", "spin"}

IsrInv == StackShape /\ AboveHolder /\ LoserHasHolder /\ FlagHasTaker

-----------------------------------------------------------------------------
(* Every step of the contexts is a step of the threads of SoftLockOps. *)
LEMMA IsrStepIsStep == [IsrNext]_isrVars => [Next]_vars
BY DEF IsrNext, isrVars, Preempt, RunTop, IsrTerminating, Next

(* What is proved there about every behaviour holds here. *)
LEMMA IsrImplementsOps == IsrSpec => Spec
<1>1. IsrInit => Init
  BY DEF IsrInit
<1> QED BY <1>1, IsrStepIsStep, PTL DEF IsrSpec, Spec

(* A context that preempts is put on top. *)
LEMMA PushOnTop ==
  ASSUME NEW s \in Seq(Threads), NEW t \in Threads
  PROVE  /\ <<t>> \o s \in Seq(Threads)
         /\ Len(s) \in Nat
         /\ Len(<<t>> \o s) = Len(s) + 1
         /\ (<<t>> \o s)[1] = t
         /\ \A i \in 1 .. Len(s) : (<<t>> \o s)[i + 1] = s[i]
         /\ \A i \in 2 .. Len(s) + 1 : (<<t>> \o s)[i] = s[i - 1]
<1>1. <<t>> \in Seq(Threads) /\ Len(<<t>>) = 1 /\ <<t>>[1] = t
  OBVIOUS
<1>2. Len(s) \in Nat
  BY LenProperties
<1>3. /\ <<t>> \o s \in Seq(Threads)
      /\ Len(<<t>> \o s) = 1 + Len(s)
      /\ \A i \in 1 .. 1 + Len(s) : (<<t>> \o s)[i] = IF i <= 1 THEN <<t>>[i] ELSE s[i - 1]
  BY <1>1, ConcatProperties
<1> QED BY <1>1, <1>2, <1>3

(* The invariant when a context preempts. *)
LEMMA PreemptKeeps ==
  ASSUME TypeInv, LockInv, IsrInv, NEW t \in Threads, Preempt(t)
  PROVE  IsrInv'
<1> USE DEF IsrInv, TypeInv, TypeOK, LockTypeOK, Holds
<1>0. stack \in Seq(Threads) /\ stack' = <<t>> \o stack
  BY DEF StackShape, Preempt
<1>1. /\ pc[t] = "idle" /\ pending' = pending
      /\ pc'[t] = IF locked THEN "pend" ELSE "full"
      /\ \A u \in Threads : u # t => pc'[u] = pc[u]
  <2>1. CASE GuardFull(t)
    BY <2>1 DEF GuardFull, Goto
  <2>2. CASE GuardPendOnly(t)
    BY <2>2 DEF GuardPendOnly, Goto
  <2> QED BY <2>1, <2>2 DEF Preempt, Enter
<1>2. /\ stack' \in Seq(Threads) /\ Len(stack) \in Nat /\ Len(stack') = Len(stack) + 1
      /\ stack'[1] = t
      /\ \A i \in 1 .. Len(stack) : stack'[i + 1] = stack[i]
      /\ \A i \in 2 .. Len(stack') : stack'[i] = stack[i - 1]
  BY <1>0, PushOnTop
<1>3. \A i \in 1 .. Len(stack) : stack[i] \in Threads /\ stack[i] # t
  BY <1>0, <1>1, ElementOfSeq DEF StackShape
<1>4. \A i \in 2 .. Len(stack') :
        /\ i - 1 \in 1 .. Len(stack) /\ stack'[i] = stack[i - 1]
        /\ stack'[i] \in Threads /\ stack'[i] # t
        /\ pc'[stack'[i]] = pc[stack[i - 1]]
  BY <1>1, <1>2, <1>3
<1>5. StackShape'
  <2>1. \A i, j \in 1 .. Len(stack') : i # j => stack'[i] # stack'[j]
    <3> SUFFICES ASSUME NEW i \in 1 .. Len(stack'), NEW j \in 1 .. Len(stack'), i < j
                 PROVE  stack'[i] # stack'[j]
      BY <1>2
    <3>1. j \in 2 .. Len(stack') /\ (i = 1 \/ i \in 2 .. Len(stack'))
      BY <1>2
    <3>2. CASE i = 1
      BY <1>2, <1>4, <3>1, <3>2
    <3>3. CASE i \in 2 .. Len(stack')
      <4>1. /\ i - 1 \in 1 .. Len(stack) /\ j - 1 \in 1 .. Len(stack) /\ i - 1 # j - 1
            /\ stack'[i] = stack[i - 1] /\ stack'[j] = stack[j - 1]
        BY <1>4, <3>1, <3>3
      <4>2. \A k, l \in 1 .. Len(stack) : k # l => stack[k] # stack[l]
        BY DEF StackShape
      <4>3. stack[i - 1] # stack[j - 1]
        BY <4>1, <4>2
      <4> QED BY <4>1, <4>3
    <3> QED BY <3>1, <3>2, <3>3
  <2>2. ASSUME NEW u \in Threads
        PROVE  pc'[u] # "idle" <=> \E i \in 1 .. Len(stack') : stack'[i] = u
    <3>1. CASE u = t
      BY <1>1, <1>2, <3>1
    <3>2. CASE u # t
      <4>1. (\E i \in 1 .. Len(stack') : stack'[i] = u) <=> \E i \in 1 .. Len(stack) : stack[i] = u
        <5>1. ASSUME NEW i \in 1 .. Len(stack'), stack'[i] = u
              PROVE  \E k \in 1 .. Len(stack) : stack[k] = u
          BY <1>2, <1>4, <3>2, <5>1
        <5>2. ASSUME NEW i \in 1 .. Len(stack), stack[i] = u
              PROVE  \E k \in 1 .. Len(stack') : stack'[k] = u
          <6>1. i + 1 \in 1 .. Len(stack') /\ stack'[i + 1] = u
            BY <1>2, <5>2
          <6> QED BY <6>1
        <5> QED BY <5>1, <5>2
      <4> QED BY <1>1, <3>2, <4>1 DEF StackShape
    <3> QED BY <3>1, <3>2
  <2> QED BY <1>2, <2>1, <2>2 DEF StackShape
<1>6. AboveHolder'
  <2> SUFFICES ASSUME NEW i \in 1 .. Len(stack'), NEW j \in 1 .. Len(stack'),
                      j < i, pc'[stack'[i]] \in Holding
               PROVE  pc'[stack'[j]] \in {"pend", "mark"}
    BY DEF AboveHolder
  <2>1. i \in 2 .. Len(stack') /\ Holds(stack[i - 1]) /\ i - 1 \in 1 .. Len(stack)
    BY <1>2, <1>4
  <2>2. locked
    BY <1>3, <2>1 DEF LockInv, LockedIffHeld
  <2>3. CASE j = 1
    BY <1>1, <1>2, <2>2, <2>3
  <2>4. CASE j # 1
    <3>1. j - 1 \in 1 .. Len(stack) /\ j - 1 < i - 1 /\ pc'[stack'[j]] = pc[stack[j - 1]]
      BY <1>2, <1>4, <2>4
    <3> QED BY <2>1, <3>1 DEF AboveHolder
  <2> QED BY <2>3, <2>4
<1>7. LoserHasHolder'
  <2> SUFFICES ASSUME NEW j \in 1 .. Len(stack'), pc'[stack'[j]] \in {"pend", "mark"}
               PROVE  \E i \in 1 .. Len(stack') : j < i /\ pc'[stack'[i]] \in Holding
    BY DEF LoserHasHolder
  <2>1. ASSUME NEW k \in 1 .. Len(stack), Holds(stack[k])
        PROVE  k + 1 \in 1 .. Len(stack') /\ pc'[stack'[k + 1]] \in Holding
    BY <1>1, <1>2, <1>3, <2>1
  <2>2. CASE j = 1
    <3>1. locked
      BY <1>1, <1>2, <2>2
    <3>2. PICK h \in Threads : Holds(h)
      BY <3>1 DEF LockInv, LockedIffHeld
    <3>3. PICK k \in 1 .. Len(stack) : stack[k] = h
      <4>1. pc[h] # "idle"
        BY <3>2
      <4> QED BY <4>1 DEF StackShape
    <3>4. k + 1 \in 1 .. Len(stack') /\ pc'[stack'[k + 1]] \in Holding /\ j < k + 1
      BY <2>1, <2>2, <3>2, <3>3
    <3> QED BY <3>4
  <2>3. CASE j # 1
    <3>1. j - 1 \in 1 .. Len(stack) /\ pc[stack[j - 1]] \in {"pend", "mark"}
      BY <1>2, <1>4, <2>3
    <3>2. PICK k \in 1 .. Len(stack) : j - 1 < k /\ Holds(stack[k])
      BY <3>1 DEF LoserHasHolder
    <3>3. k + 1 \in 1 .. Len(stack') /\ pc'[stack'[k + 1]] \in Holding /\ j < k + 1
      BY <1>2, <2>1, <3>2
    <3> QED BY <3>3
  <2> QED BY <2>2, <2>3
<1>8. FlagHasTaker'
  BY <1>1 DEF FlagHasTaker
<1> QED BY <1>5, <1>6, <1>7, <1>8

-----------------------------------------------------------------------------
(* A context that leaves with_access is taken off the stack. *)
LEMMA PopTop ==
  ASSUME NEW s \in Seq(Threads), s # <<>>
  PROVE  /\ Len(s) \in Nat /\ Len(s) >= 1 /\ Head(s) = s[1] /\ s[1] \in Threads
         /\ Tail(s) \in Seq(Threads)
         /\ Len(Tail(s)) = Len(s) - 1
         /\ \A i \in 1 .. Len(s) - 1 : Tail(s)[i] = s[i + 1]
<1>1. Len(s) \in Nat
  BY LenProperties
<1>2. /\ Head(s) = s[1] /\ Tail(s) \in Seq(Threads)
      /\ Len(Tail(s)) = Len(s) - 1
      /\ \A i \in 1 .. Len(Tail(s)) : Tail(s)[i] = s[i + 1]
  BY HeadTailProperties
<1>3. Len(s) >= 1
  BY <1>1, EmptySeq
<1>4. s[1] \in Threads
  BY <1>1, <1>3, ElementOfSeq
<1> QED BY <1>1, <1>2, <1>3, <1>4

(* The running context is the first one of the stack. *)
LEMMA TopIsFirst ==
  ASSUME StackShape, NEW t \in Threads, Running(t)
  PROVE  /\ Len(stack) \in Nat /\ 1 \in 1 .. Len(stack) /\ stack[1] = t
         /\ \A i \in 1 .. Len(stack) : stack[i] \in Threads /\ (i # 1 => stack[i] # t)
<1>1. stack \in Seq(Threads) /\ stack # <<>>
  BY DEF StackShape, Running
<1>2. Len(stack) \in Nat /\ Len(stack) >= 1 /\ stack[1] = t
  BY <1>1, PopTop DEF Running
<1>3. \A i \in 1 .. Len(stack) : stack[i] \in Threads
  BY <1>1, ElementOfSeq
<1> QED BY <1>2, <1>3 DEF StackShape

(* A running context that did not lose the lock has no holder below it. *)
LEMMA WinnerHasNoHolderBelow ==
  ASSUME StackShape, AboveHolder, NEW t \in Threads, Running(t),
         pc[t] \notin {"pend", "mark"},
         NEW u \in Threads, Holds(u)
  PROVE  u = t
<1>1. pc[u] # "idle"
  BY DEF Holds
<1>2. PICK i \in 1 .. Len(stack) : stack[i] = u
  BY <1>1 DEF StackShape
<1>3. CASE i = 1
  BY <1>2, <1>3, TopIsFirst
<1>4. CASE i # 1
  <2>1. 1 \in 1 .. Len(stack) /\ stack[1] = t /\ 1 < i
    BY <1>4, TopIsFirst
  <2> QED BY <1>2, <2>1 DEF AboveHolder
<1> QED BY <1>3, <1>4

(* What a step of the running context does to its own position. *)
LEMMA TopStep ==
  ASSUME TypeInv, NEW t \in Threads, Step(t)
  PROVE  /\ \A u \in Threads : u # t => pc'[u] = pc[u]
         /\ \/ pc[t] = "full" /\ pc'[t] = "swap" /\ pending' = pending
            \/ pc[t] = "pend" /\ pc'[t] = "mark" /\ pending' = pending
            \/ pc[t] = "mark" /\ pc'[t] = "idle"
            \/ pc[t] = "swap" /\ pc'[t] \in {"drain", "unlock"}
            \/ pc[t] = "drain" /\ pc'[t] \in {"drain", "unlock"}
            \/ pc[t] = "unlock" /\ pc'[t] = "recheck"
            \/ pc[t] = "recheck" /\ pc'[t] = "spin"
            \/ pc[t] = "recheck" /\ pc'[t] = "idle" /\ ~pending /\ pending' = pending
            \/ pc[t] = "spin" /\ pc'[t] = "swap"
<1> USE DEF TypeInv, TypeOK, LockTypeOK, Goto
<1>1. CASE SubmitDirect(t) \/ PendSubmit(t)
  BY <1>1 DEF SubmitDirect, PendSubmit, OpReturned
<1>2. CASE Release(t)
  <2>1. CASE MarkPending(t)
    BY <2>1 DEF MarkPending
  <2>2. CASE SwapPending(t)
    BY <2>2 DEF SwapPending
  <2>3. CASE Unlock(t)
    BY <2>3 DEF Unlock
  <2>4. CASE Recheck(t)
    BY <2>4 DEF Recheck
  <2>5. CASE Reacquire(t)
    BY <2>5 DEF Reacquire
  <2> QED BY <1>2, <2>1, <2>2, <2>3, <2>4, <2>5 DEF Release
<1>3. CASE RunPendedNothing(t) \/ RunPendedPush(t)
  BY <1>3 DEF RunPendedNothing, RunPendedPush, PendedOpReturned
<1>4. CASE RunPendedTake(t)
  BY <1>4 DEF RunPendedTake, lockVars
<1> QED BY <1>1, <1>2, <1>3, <1>4 DEF Step

(* The invariant when the running context takes a step inside the lock. *)
LEMMA StayKeeps ==
  ASSUME TypeInv, IsrInv, NEW t \in Threads, RunTop(t), pc'[t] # "idle"
  PROVE  IsrInv'
<1> USE DEF IsrInv, Holds
<1>1. Step(t) /\ Running(t) /\ stack' = stack
  BY DEF RunTop
<1>2. /\ Len(stack) \in Nat /\ 1 \in 1 .. Len(stack) /\ stack[1] = t
      /\ \A i \in 1 .. Len(stack) : stack[i] \in Threads /\ (i # 1 => stack[i] # t)
  BY <1>1, TopIsFirst
<1>3. \A u \in Threads : u # t => pc'[u] = pc[u]
  BY <1>1, TopStep
<1>4. \A i \in 1 .. Len(stack) : i # 1 => pc'[stack[i]] = pc[stack[i]]
  BY <1>2, <1>3
<1>5. StackShape'
  BY <1>1, <1>2, <1>3 DEF StackShape
<1>6. pc[t] \in {"pend", "mark"} => pc[t] = "pend" /\ pc'[t] = "mark" /\ pending' = pending
  BY <1>1, TopStep
<1>7. pc'[t] \in {"pend", "mark"} => pc[t] = "pend"
  BY <1>1, TopStep
<1>8. AboveHolder'
  <2> SUFFICES ASSUME NEW i \in 1 .. Len(stack), NEW j \in 1 .. Len(stack),
                      j < i, pc'[stack[i]] \in Holding
               PROVE  pc'[stack[j]] \in {"pend", "mark"}
    BY <1>1 DEF AboveHolder
  <2>1. i # 1 /\ pc[stack[i]] \in Holding
    BY <1>4
  <2>2. pc[stack[j]] \in {"pend", "mark"}
    BY <2>1 DEF AboveHolder
  <2>3. CASE j = 1
    BY <1>2, <1>6, <2>2, <2>3
  <2>4. CASE j # 1
    BY <1>4, <2>2, <2>4
  <2> QED BY <2>3, <2>4
<1>9. LoserHasHolder'
  <2> SUFFICES ASSUME NEW j \in 1 .. Len(stack), pc'[stack[j]] \in {"pend", "mark"}
               PROVE  \E i \in 1 .. Len(stack) : j < i /\ pc'[stack[i]] \in Holding
    BY <1>1 DEF LoserHasHolder
  <2>1. pc[stack[j]] \in {"pend", "mark"}
    BY <1>2, <1>4, <1>7
  <2>2. PICK i \in 1 .. Len(stack) : j < i /\ pc[stack[i]] \in Holding
    BY <2>1 DEF LoserHasHolder
  <2>3. i # 1
    BY <2>2
  <2> QED BY <1>4, <2>2, <2>3
<1>10. FlagHasTaker'
  <2>1. CASE pc[t] \in {"pend", "mark"}
    BY <1>3, <1>6, <2>1 DEF FlagHasTaker
  <2>2. CASE pc[t] \notin {"pend", "mark"}
    <3>1. pc'[t] \in Holding \/ pc'[t] \in {"recheck", "spin"}
      BY <1>1, <2>2, TopStep
    <3> QED BY <3>1 DEF FlagHasTaker
  <2> QED BY <2>1, <2>2
<1> QED BY <1>5, <1>8, <1>9, <1>10

(* The invariant when the running context leaves with_access. *)
LEMMA LeaveKeeps ==
  ASSUME TypeInv, IsrInv, NEW t \in Threads, RunTop(t), pc'[t] = "idle"
  PROVE  IsrInv'
<1> USE DEF IsrInv, Holds
<1>1. Step(t) /\ Running(t) /\ stack' = Tail(stack)
  BY DEF RunTop
<1>2. /\ Len(stack) \in Nat /\ 1 \in 1 .. Len(stack) /\ stack[1] = t
      /\ \A i \in 1 .. Len(stack) : stack[i] \in Threads /\ (i # 1 => stack[i] # t)
  BY <1>1, TopIsFirst
<1>3. \A u \in Threads : u # t => pc'[u] = pc[u]
  BY <1>1, TopStep
<1>4. /\ stack' \in Seq(Threads) /\ Len(stack') = Len(stack) - 1
      /\ \A i \in 1 .. Len(stack') : stack'[i] = stack[i + 1]
  BY <1>1, PopTop DEF StackShape, Running
<1>5. \A i \in 1 .. Len(stack') :
        /\ i + 1 \in 1 .. Len(stack) /\ i + 1 # 1 /\ stack'[i] = stack[i + 1]
        /\ stack'[i] \in Threads /\ stack'[i] # t
        /\ pc'[stack'[i]] = pc[stack[i + 1]]
  BY <1>2, <1>3, <1>4
<1>6. \A i \in 1 .. Len(stack) : i # 1 =>
        i - 1 \in 1 .. Len(stack') /\ stack'[i - 1] = stack[i]
  BY <1>2, <1>4
<1>7. StackShape'
  <2>1. \A i, j \in 1 .. Len(stack') : i # j => stack'[i] # stack'[j]
    <3> SUFFICES ASSUME NEW i \in 1 .. Len(stack'), NEW j \in 1 .. Len(stack'), i # j
                 PROVE  stack'[i] # stack'[j]
      OBVIOUS
    <3>1. i + 1 \in 1 .. Len(stack) /\ j + 1 \in 1 .. Len(stack) /\ i + 1 # j + 1
      BY <1>5
    <3> QED BY <1>5, <3>1 DEF StackShape
  <2>2. ASSUME NEW u \in Threads
        PROVE  pc'[u] # "idle" <=> \E i \in 1 .. Len(stack') : stack'[i] = u
    <3>1. CASE u = t
      BY <1>5, <3>1
    <3>2. CASE u # t
      <4>1. ASSUME NEW i \in 1 .. Len(stack'), stack'[i] = u
            PROVE  pc'[u] # "idle"
        <5>1. i + 1 \in 1 .. Len(stack) /\ stack[i + 1] = u
          BY <1>5, <4>1
        <5> QED BY <1>3, <3>2, <5>1 DEF StackShape
      <4>2. ASSUME pc'[u] # "idle"
            PROVE  \E i \in 1 .. Len(stack') : stack'[i] = u
        <5>1. PICK i \in 1 .. Len(stack) : stack[i] = u
          BY <1>3, <3>2, <4>2 DEF StackShape
        <5>2. i # 1
          BY <1>2, <3>2, <5>1
        <5>3. i - 1 \in 1 .. Len(stack') /\ stack'[i - 1] = u
          BY <1>6, <5>1, <5>2
        <5> QED BY <5>3
      <4> QED BY <4>1, <4>2
    <3> QED BY <3>1, <3>2
  <2> QED BY <1>4, <2>1, <2>2 DEF StackShape
<1>8. AboveHolder'
  <2> SUFFICES ASSUME NEW i \in 1 .. Len(stack'), NEW j \in 1 .. Len(stack'),
                      j < i, pc'[stack'[i]] \in Holding
               PROVE  pc'[stack'[j]] \in {"pend", "mark"}
    BY DEF AboveHolder
  <2>1. /\ i + 1 \in 1 .. Len(stack) /\ j + 1 \in 1 .. Len(stack) /\ j + 1 < i + 1
        /\ pc[stack[i + 1]] \in Holding /\ pc'[stack'[j]] = pc[stack[j + 1]]
    BY <1>5
  <2> QED BY <2>1 DEF AboveHolder
<1>9. LoserHasHolder'
  <2> SUFFICES ASSUME NEW j \in 1 .. Len(stack'), pc'[stack'[j]] \in {"pend", "mark"}
               PROVE  \E i \in 1 .. Len(stack') : j < i /\ pc'[stack'[i]] \in Holding
    BY DEF LoserHasHolder
  <2>1. j + 1 \in 1 .. Len(stack) /\ pc[stack[j + 1]] \in {"pend", "mark"}
    BY <1>5
  <2>2. PICK i \in 1 .. Len(stack) : j + 1 < i /\ pc[stack[i]] \in Holding
    BY <2>1 DEF LoserHasHolder
  <2>3. /\ i - 1 \in 1 .. Len(stack') /\ stack'[i - 1] = stack[i]
        /\ j < i - 1 /\ stack[i] \in Threads /\ stack[i] # t
    BY <1>2, <1>6, <2>2
  <2>4. pc'[stack'[i - 1]] \in Holding
    BY <1>3, <2>2, <2>3
  <2> QED BY <2>3, <2>4
<1>10. FlagHasTaker'
  <2>1. CASE pc[t] = "mark"
    <3>1. PICK i \in 1 .. Len(stack) : 1 < i /\ pc[stack[i]] \in Holding
      BY <1>2, <2>1 DEF LoserHasHolder
    <3>2. stack[i] \in Threads /\ pc'[stack[i]] \in Holding
      BY <1>2, <1>3, <3>1
    <3> QED BY <3>2 DEF FlagHasTaker
  <2>2. CASE pc[t] # "mark"
    BY <1>1, <2>2, TopStep DEF FlagHasTaker
  <2> QED BY <2>1, <2>2
<1> QED BY <1>7, <1>8, <1>9, <1>10

(* The four parts of the invariant always hold. *)
LEMMA IsrInvAlways == IsrSpec => []IsrInv
<1>1. IsrInit => IsrInv
  <2> SUFFICES ASSUME IsrInit PROVE IsrInv
    OBVIOUS
  <2>1. stack \in Seq(Threads) /\ Len(stack) = 0
    BY EmptySeq DEF IsrInit
  <2>2. pending = FALSE /\ \A t \in Threads : pc[t] = "idle"
    BY DEF IsrInit, Init, LockInit
  <2> QED BY <2>1, <2>2 DEF IsrInv, StackShape, AboveHolder, LoserHasHolder, FlagHasTaker
<1>2. TypeInv /\ LockInv /\ IsrInv /\ [IsrNext]_isrVars => IsrInv'
  <2> SUFFICES ASSUME TypeInv, LockInv, IsrInv, [IsrNext]_isrVars PROVE IsrInv'
    OBVIOUS
  <2>1. CASE UNCHANGED isrVars
    BY <2>1 DEF isrVars, vars, lockVars, IsrInv, StackShape, AboveHolder,
                LoserHasHolder, FlagHasTaker, Holds
  <2>2. ASSUME NEW t \in Threads, Preempt(t)
        PROVE  IsrInv'
    BY <2>2, PreemptKeeps
  <2>3. ASSUME NEW t \in Threads, RunTop(t)
        PROVE  IsrInv'
    BY <2>3, StayKeeps, LeaveKeeps
  <2> QED BY <2>1, <2>2, <2>3 DEF IsrNext, IsrTerminating
<1> QED BY <1>1, <1>2, IsrImplementsOps, TypeInvAlways, LockInvAlways, PTL DEF IsrSpec

-----------------------------------------------------------------------------
(* When nobody is inside with_access, no intent recorded with pend_submit  *)
(* waits for a replay: the sentence of the demo's README.md, line 7, for   *)
(* the run-to-completion contexts it was written for.                      *)
THEOREM IsrLeavesNothing == IsrSpec => []NoStrandedIntent
<1>1. IsrInv /\ IntentInv /\ TypeInv => NoStrandedIntent
  <2> SUFFICES ASSUME IsrInv, IntentInv, TypeInv, Quiescent, NEW o \in recorded PROVE FALSE
    BY DEF NoStrandedIntent
  <2>1. ~pending
    BY DEF Quiescent, IsrInv, FlagHasTaker, Holds
  <2>2. o[1] \in Threads
    BY DEF TypeInv, TypeOK, Ops
  <2> QED BY <2>1, <2>2 DEF IntentInv, IntentFlagged, Unflagged, AboutToTake, Quiescent
<1> QED BY <1>1, IsrInvAlways, IsrImplementsOps, IntentInvAlways, TypeInvAlways, PTL

(* The compare_exchange of the release loop's spin never fails, however    *)
(* deep the preemption: no holder is below a context that spins.           *)
THEOREM IsrSpinIsFree == IsrSpec => []SpinNeverWaits
<1>1. IsrInv /\ LockInv => SpinNeverWaits
  <2> SUFFICES ASSUME IsrInv, LockInv, NEW t \in Threads, Running(t), pc[t] = "spin", locked
               PROVE  FALSE
    BY DEF SpinNeverWaits
  <2>1. PICK u \in Threads : Holds(u)
    BY DEF LockInv, LockedIffHeld
  <2>2. u = t
    BY <2>1, WinnerHasNoHolderBelow DEF IsrInv
  <2> QED BY <2>1, <2>2 DEF Holds
<1> QED BY <1>1, IsrInvAlways, IsrImplementsOps, LockInvAlways, PTL

(* A context that was degraded to PendOnly runs on top of the holder that  *)
(* will replay its intent, until it returns.                               *)
THEOREM IsrHolderWaits == IsrSpec => []HolderStillActive
<1>1. IsrInv => HolderStillActive
  <2> SUFFICES ASSUME IsrInv, NEW t \in Threads, pc[t] \in {"pend", "mark"}
               PROVE  \E i \in DOMAIN stack : Holds(stack[i])
    BY DEF HolderStillActive
  <2>1. DOMAIN stack = 1 .. Len(stack)
    BY LenProperties DEF IsrInv, StackShape
  <2>2. pc[t] # "idle"
    OBVIOUS
  <2>3. PICK j \in 1 .. Len(stack) : stack[j] = t
    BY <2>2 DEF IsrInv, StackShape
  <2> QED BY <2>1, <2>3 DEF IsrInv, LoserHasHolder
<1> QED BY <1>1, IsrInvAlways, PTL

(* The step that leaves the release loop leaves nothing recorded: had an   *)
(* intent been unflagged, or about to be taken, its holder would be below  *)
(* the context that leaves, which then would have lost the lock.           *)
THEOREM IsrReleaseIsComplete == IsrSpec => ReleaseLeavesNothing
<1>1. TypeInv /\ IntentInv /\ IsrInv /\ [IsrNext]_isrVars =>
        [\A t \in Threads : pc[t] = "recheck" /\ pc'[t] = "idle" => recorded = {}]_isrVars
  <2> SUFFICES ASSUME TypeInv, IntentInv, IsrInv, [IsrNext]_isrVars, NEW t \in Threads,
                      pc[t] = "recheck", pc'[t] = "idle", NEW o \in recorded
               PROVE  FALSE
    OBVIOUS
  <2>1. ASSUME NEW u \in Threads, Preempt(u)
        PROVE  FALSE
    BY <2>1 DEF Preempt, Enter, GuardFull, GuardPendOnly, Goto, TypeInv, TypeOK, LockTypeOK
  <2>2. ASSUME NEW u \in Threads, RunTop(u)
        PROVE  u = t /\ Running(t) /\ ~pending
    <3>1. Step(u) /\ Running(u)
      BY <2>2 DEF RunTop
    <3>2. u = t
      BY <3>1, TopStep
    <3> QED BY <3>1, <3>2, TopStep
  <2>3. Running(t) /\ ~pending
    BY <2>1, <2>2 DEF IsrNext, IsrTerminating, isrVars, vars, lockVars
  <2>4. \A u \in Threads : ~Holds(u)
    BY <2>3, WinnerHasNoHolderBelow DEF IsrInv, Holds
  <2>5. o[1] \in Threads
    BY DEF TypeInv, TypeOK, Ops
  <2>6. \A u \in Threads : pc[u] # "drain"
    BY <2>4 DEF Holds
  <2>7. pc[o[1]] = "mark"
    BY <2>3, <2>6 DEF IntentInv, IntentFlagged, Unflagged, AboutToTake
  <2>8. PICK j \in 1 .. Len(stack) : stack[j] = o[1]
    <3>1. pc[o[1]] # "idle"
      BY <2>7
    <3> QED BY <2>5, <3>1 DEF IsrInv, StackShape
  <2>9. PICK i \in 1 .. Len(stack) : Holds(stack[i])
    BY <2>7, <2>8 DEF IsrInv, LoserHasHolder
  <2>10. stack[i] \in Threads
    BY <2>3, TopIsFirst DEF IsrInv
  <2> QED BY <2>4, <2>9, <2>10
<1> QED BY <1>1, IsrInvAlways, IsrImplementsOps, IntentInvAlways, TypeInvAlways, PTL
        DEF IsrSpec, ReleaseLeavesNothing

=============================================================================

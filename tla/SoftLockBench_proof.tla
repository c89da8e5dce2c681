------------------------ MODULE SoftLockBench_proof ------------------------
(***************************************************************************)
(* Proofs about SoftLockBench, for every set of producers, every number of *)
(* items and every budget: the assertions of run_softlock_bench and its    *)
(* unreachable!, the order of the ids, and the refinement of WorkQueue.    *)
(***************************************************************************)
EXTENDS SoftLockBench, FiniteSetTheorems, FunctionTheorems, SequenceTheorems, TLAPS

USE DEF Positions, Holding

-----------------------------------------------------------------------------
(* What every use of the lock rests on, as in SoftLock_proof: a step of    *)
(* one caller keeps the lock's types and the exactness of its flag.        *)

(* A step of one thread as the lock sees it. *)
LockStep(t) == \/ GuardFull(t) \/ GuardPendOnly(t) \/ OpReturned(t)
               \/ MarkPending(t) \/ SwapPending(t) \/ PendedOpReturned(t)
               \/ Unlock(t) \/ Recheck(t) \/ Reacquire(t)

(* The lock's variables keep their types. *)
LEMMA LockStepType ==
  ASSUME LockTypeOK, NEW t \in Threads, LockStep(t)
  PROVE  LockTypeOK'
BY DEF LockTypeOK, LockStep, Goto, GuardFull, GuardPendOnly, OpReturned,
       MarkPending, SwapPending, PendedOpReturned, Unlock, Recheck, Reacquire

(* A free lock is marked free and a taken one has one holder. *)
LockInv == LockedIffHeld /\ MutualExclusion

(* The lock's flag and its holder change together, in every lock step.     *)
LEMMA LockInvStep ==
  ASSUME LockTypeOK, LockInv, NEW t \in Threads, LockStep(t)
  PROVE  LockInv'
<1> USE DEF LockTypeOK, LockInv, LockedIffHeld, MutualExclusion, Holds, Goto
<1>1. CASE GuardFull(t) \/ Reacquire(t)
  <2>1. ~ \E u \in Threads : Holds(u)
    BY <1>1 DEF GuardFull, Reacquire
  <2>2. Holds(t)' /\ locked' /\ \A u \in Threads : u # t => Holds(u)' = Holds(u)
    BY <1>1 DEF GuardFull, Reacquire
  <2> QED BY <2>1, <2>2
<1>2. CASE GuardPendOnly(t) \/ MarkPending(t) \/ Recheck(t)
  BY <1>2 DEF GuardPendOnly, MarkPending, Recheck
<1>3. CASE OpReturned(t) \/ SwapPending(t) \/ PendedOpReturned(t)
  <2>1. locked' = locked /\ \A u \in Threads : Holds(u)' = Holds(u)
    BY <1>3 DEF OpReturned, SwapPending, PendedOpReturned
  <2> QED BY <2>1
<1>4. CASE Unlock(t)
  <2>1. Holds(t) /\ ~Holds(t)' /\ ~locked'
        /\ \A u \in Threads : u # t => Holds(u)' = Holds(u)
    BY <1>4 DEF Unlock
  <2> QED BY <2>1
<1> QED BY <1>1, <1>2, <1>3, <1>4 DEF LockStep

(* A new lock is well typed, and nobody holds it. *)
LEMMA LockInitial == LockInit => LockTypeOK /\ LockInv
BY DEF LockInit, LockTypeOK, LockInv, LockedIffHeld, MutualExclusion, Holds

-----------------------------------------------------------------------------
Places == {"start", "push", "replay", "process", "ask", "peek", "look"}

(* Types. *)
BenchTypeOK ==
  /\ LockTypeOK
  /\ pending_submit \in Nat
  /\ queue \in Seq(Nat)
  /\ queueOwner \in Threads \cup {NoThread}
  /\ next_id \in Nat
  /\ processed \in Nat
  /\ stats \in [Counters -> Nat]
  /\ id \in [Threads -> Nat]
  /\ left \in [Threads -> Nat]
  /\ issued \in [Producers -> 0 .. OpsPerProducer]
  /\ at \in [Threads -> Places]
  /\ again \in BOOLEAN /\ seenDone \in BOOLEAN /\ producers_done \in BOOLEAN
  /\ seenPending \in Nat

(* Where a thread is inside its closure tells where it is in the lock, and *)
(* what it has in its locals: whoever is past "start" holds the lock.      *)
PlaceInv ==
  /\ \A t \in Threads :
       /\ at[t] = "push" => t \in Producers /\ pc[t] = "full"
       /\ at[t] = "replay" => pc[t] = "drain" \/ (t = Consumer /\ pc[t] = "full")
       /\ at[t] \in {"process", "ask", "peek", "look"} => t = Consumer /\ pc[t] = "full"
       /\ left[t] > 0 <=> at[t] = "replay"
  /\ queueOwner # NoThread => at[queueOwner] = "replay"

(* What the joins of the main thread establish stays true. *)
JoinInv ==
  /\ seenDone => producers_done
  /\ producers_done => \A p \in Producers : ProducerReturned(p)
  /\ pc[Main] # "idle" => producers_done /\ ConsumerReturned
  /\ FinalAccessIsFull

(* What the consumer has read of pending_submit is still so when it leaves *)
(* because of it: nobody records once producers_done has been seen.        *)
SeenInv ==
  at[Consumer] = "look" /\ seenDone /\ seenPending = 0 => pending_submit = 0

ControlInv == BenchTypeOK /\ LockInv /\ PlaceInv /\ JoinInv

(* The next id is the number of the next item, but for the one id that a   *)
(* submit_direct has drawn and not pushed yet.                             *)
IdInv ==
  /\ \A i \in 1 .. Len(queue) : queue[i] = processed + i
  /\ (\A t \in Threads : at[t] # "push") => next_id = processed + Len(queue) + 1
  /\ \A t \in Threads : at[t] = "push" =>
       id[t] = processed + Len(queue) + 1 /\ next_id = processed + Len(queue) + 2

(* The counters add up: what was pushed directly or taken by a drain is    *)
(* queued, processed or being replayed.                                    *)
StatsInv ==
  /\ stats["direct_items"] + stats["drained_items"] = processed + Len(queue) + Sum(left)
  /\ stats["drained_items"] + pending_submit = stats["pend_entries"]
  /\ (\A t \in Threads : at[t] # "push") => stats["full_entries"] = stats["direct_items"]
  /\ \A t \in Threads : at[t] = "push" =>
       stats["full_entries"] = stats["direct_items"] + 1
  /\ stats["drained_batches"] <= stats["drained_items"]

BenchInv == /\ ControlInv
            /\ IdInv
            /\ NothingLost
            /\ StatsInv
            /\ SeenInv
            /\ ConsumerExitsDone
            /\ ResultIsRight

-----------------------------------------------------------------------------
(* An element of Units is a thread with one of the numbers it has counted. *)
LEMMA UnitsElement ==
  ASSUME NEW S, NEW f \in [S -> Nat]
  PROVE  \A u : u \in Units(f) <=>
           \E t \in S : \E k \in 1 .. f[t] : u = <<t, k>>
BY DEF Units

(* It is a finite set when the threads are. *)
LEMMA UnitsFinite ==
  ASSUME NEW S, IsFiniteSet(S), NEW f \in [S -> Nat]
  PROVE  IsFiniteSet(Units(f)) /\ Sum(f) \in Nat
<1> DEFINE R == {{t} \X (1 .. f[t]) : t \in S}
           g == [t \in S |-> {t} \X (1 .. f[t])]
<1>1. g \in Surjection(S, R)
  BY DEF Surjection
<1>2. IsFiniteSet(R)
  BY <1>1, FS_Surjection
<1>3. ASSUME NEW T \in R
      PROVE  IsFiniteSet(T)
  <2>1. PICK t \in S : T = {t} \X (1 .. f[t])
    OBVIOUS
  <2>2. IsFiniteSet({t})
    BY FS_Singleton
  <2>3. f[t] \in Int /\ 1 \in Int
    OBVIOUS
  <2>4. IsFiniteSet(1 .. f[t])
    BY <2>3, FS_Interval
  <2> QED BY <2>1, <2>2, <2>4, FS_Product
<1>4. Units(f) = UNION R
  BY DEF Units
<1>5. IsFiniteSet(Units(f))
  <2> HIDE DEF R
  <2> QED BY <1>2, <1>3, <1>4, FS_UNION
<1> QED BY <1>5, FS_CardinalityType DEF Sum

(* The sum is the count of one thread and the rest. *)
LEMMA SumSplit ==
  ASSUME NEW S, IsFiniteSet(S), NEW f \in [S -> Nat], NEW t \in S
  PROVE  Sum(f) = Sum([f EXCEPT ![t] = 0]) + f[t]
<1> DEFINE rest == [f EXCEPT ![t] = 0]
           own == {t} \X (1 .. f[t])
<1>1. rest \in [S -> Nat] /\ rest[t] = 0 /\ f[t] \in Nat
      /\ \A v \in S : v # t => rest[v] = f[v]
  OBVIOUS
<1>2. IsFiniteSet(Units(rest)) /\ Sum(rest) \in Nat
  BY <1>1, UnitsFinite
<1>3. IsFiniteSet(own) /\ Cardinality(own) = f[t]
  <2>1. IsFiniteSet({t}) /\ Cardinality({t}) = 1
    BY FS_Singleton
  <2>2. IsFiniteSet(1 .. f[t]) /\ Cardinality(1 .. f[t]) = f[t]
    BY <1>1, FS_Interval
  <2>3. IsFiniteSet(own) /\ Cardinality(own) = Cardinality({t}) * Cardinality(1 .. f[t])
    BY <2>1, <2>2, FS_Product
  <2> HIDE DEF own
  <2> QED BY <1>1, <2>1, <2>2, <2>3
<1>4. Units(f) = Units(rest) \cup own
  <2>1. \A u : u \in Units(f) <=> \E v \in S : \E k \in 1 .. f[v] : u = <<v, k>>
    BY UnitsElement
  <2>2. \A u : u \in Units(rest) <=> \E v \in S : \E k \in 1 .. rest[v] : u = <<v, k>>
    BY <1>1, UnitsElement
  <2>3. \A u : u \in own <=> \E k \in 1 .. f[t] : u = <<t, k>>
    OBVIOUS
  <2> HIDE DEF own, rest
  <2>4. ASSUME NEW u \in Units(f) PROVE u \in Units(rest) \cup own
    BY <1>1, <2>1, <2>2, <2>3
  <2>5. ASSUME NEW u \in Units(rest) \cup own PROVE u \in Units(f)
    BY <1>1, <2>1, <2>2, <2>3
  <2> QED BY <2>4, <2>5
<1>5. Units(rest) \cap own = {}
  <2>1. \A u : u \in Units(rest) <=> \E v \in S : \E k \in 1 .. rest[v] : u = <<v, k>>
    BY <1>1, UnitsElement
  <2>2. \A u : u \in own <=> \E k \in 1 .. f[t] : u = <<t, k>>
    OBVIOUS
  <2>3. 1 .. rest[t] = {}
    BY <1>1
  <2> HIDE DEF own, rest
  <2> SUFFICES ASSUME NEW u \in Units(rest), u \in own PROVE FALSE
    OBVIOUS
  <2>4. PICK v \in S : \E k \in 1 .. rest[v] : u = <<v, k>>
    BY <2>1
  <2>5. v = t
    BY <2>2, <2>4
  <2> QED BY <2>3, <2>4, <2>5
<1>6. Cardinality(Units(f)) = Cardinality(Units(rest)) + f[t]
  <2> HIDE DEF own, rest
  <2>1. Cardinality(Units(rest) \cup own)
          = Cardinality(Units(rest)) + Cardinality(own) - Cardinality(Units(rest) \cap own)
    BY <1>2, <1>3, FS_Union
  <2>2. Cardinality(Units(rest) \cap own) = 0
    BY <1>5, FS_EmptySet
  <2>3. Cardinality(Units(rest)) \in Nat
    BY <1>2 DEF Sum
  <2> QED BY <1>1, <1>3, <1>4, <2>1, <2>2, <2>3
<1> QED BY <1>6 DEF Sum

(* When one thread's count changes the sum changes by as much. *)
LEMMA SumUpdate ==
  ASSUME NEW S, IsFiniteSet(S), NEW f \in [S -> Nat], NEW g \in [S -> Nat],
         NEW t \in S, \A u \in S \ {t} : g[u] = f[u]
  PROVE  Sum(f) \in Nat /\ Sum(g) \in Nat /\ Sum(g) + f[t] = Sum(f) + g[t]
<1>1. [g EXCEPT ![t] = 0] = [f EXCEPT ![t] = 0]
  OBVIOUS
<1>2. Sum(f) = Sum([f EXCEPT ![t] = 0]) + f[t]
  BY SumSplit
<1>3. Sum(g) = Sum([f EXCEPT ![t] = 0]) + g[t]
  BY <1>1, SumSplit
<1>4. [f EXCEPT ![t] = 0] \in [S -> Nat]
  OBVIOUS
<1>5. Sum([f EXCEPT ![t] = 0]) \in Nat /\ Sum(f) \in Nat /\ Sum(g) \in Nat
  BY <1>4, UnitsFinite
<1> QED BY <1>2, <1>3, <1>5

(* Nothing counted adds up to nothing. *)
LEMMA SumZero ==
  ASSUME NEW S, NEW f \in [S -> Nat], \A t \in S : f[t] = 0
  PROVE  Sum(f) = 0
<1>1. Units(f) = {}
  BY UnitsElement
<1> QED BY <1>1, FS_EmptySet DEF Sum

(* The iterations of all producers, and how many have been started. *)
LEMMA IssuedBounds ==
  ASSUME NEW f \in [Producers -> 0 .. OpsPerProducer]
  PROVE  /\ total_ops \in Nat /\ Sum(f) \in Nat /\ Sum(f) <= total_ops
         /\ (\A p \in Producers : f[p] = OpsPerProducer) => Sum(f) = total_ops
<1> USE BenchAssumption
<1> DEFINE all == Producers \X (1 .. OpsPerProducer)
<1>1. IsFiniteSet(1 .. OpsPerProducer) /\ Cardinality(1 .. OpsPerProducer) = OpsPerProducer
  BY FS_Interval
<1>2. IsFiniteSet(all) /\ Cardinality(all) = total_ops
  BY <1>1, FS_Product DEF total_ops
<1>3. f \in [Producers -> Nat]
  OBVIOUS
<1>4. \A u : u \in Units(f) <=> \E t \in Producers : \E k \in 1 .. f[t] : u = <<t, k>>
  BY <1>3, UnitsElement
<1>5. Units(f) \in SUBSET all
  <2> SUFFICES ASSUME NEW u \in Units(f) PROVE u \in all
    OBVIOUS
  <2>1. PICK t \in Producers : \E k \in 1 .. f[t] : u = <<t, k>>
    BY <1>4
  <2>2. PICK k \in 1 .. f[t] : u = <<t, k>>
    BY <2>1
  <2>3. k \in 1 .. OpsPerProducer
    BY <2>2
  <2> QED BY <2>2, <2>3
<1>6. ASSUME \A p \in Producers : f[p] = OpsPerProducer
      PROVE  all \subseteq Units(f)
  <2> SUFFICES ASSUME NEW p \in Producers, NEW k \in 1 .. OpsPerProducer
               PROVE  <<p, k>> \in Units(f)
    OBVIOUS
  <2> QED BY <1>4, <1>6
<1> HIDE DEF all
<1>7. Cardinality(all) \in Nat
  BY <1>2, FS_CardinalityType
<1>8. Sum(f) <= Cardinality(all)
  BY <1>2, <1>5, FS_Subset DEF Sum
<1>9. Sum(f) \in Nat
  BY <1>3, UnitsFinite
<1>10. ASSUME \A p \in Producers : f[p] = OpsPerProducer
       PROVE  Units(f) = all
  BY <1>5, <1>6, <1>10
<1> QED BY <1>2, <1>7, <1>8, <1>9, <1>10 DEF Sum

(* The threads are finitely many. *)
LEMMA ThreadsFinite == IsFiniteSet(Threads)
<1>1. IsFiniteSet(Producers \cup {Consumer})
  BY BenchAssumption, FS_AddElement
<1>2. IsFiniteSet((Producers \cup {Consumer}) \cup {Main})
  BY <1>1, FS_AddElement
<1>3. Threads = (Producers \cup {Consumer}) \cup {Main}
  BY BenchAssumption
<1> QED BY <1>2, <1>3

-----------------------------------------------------------------------------
(* What the lock's steps do to the caller, and to nobody else. *)
LEMMA LockMoves ==
  ASSUME LockTypeOK, NEW t \in Threads
  PROVE  /\ LockStep(t) => \A u \in Threads : u # t => pc'[u] = pc[u]
         /\ GuardFull(t) \/ GuardPendOnly(t) => pc[t] = "idle" /\ pc'[t] \in {"full", "pend"}
         /\ OpReturned(t) => \/ pc[t] = "full" /\ pc'[t] = "swap"
                             \/ pc[t] = "pend" /\ pc'[t] = "mark"
         /\ PendedOpReturned(t) => pc[t] = "drain" /\ pc'[t] = "unlock"
<1> USE DEF LockTypeOK, Goto
<1>1. LockStep(t) => \A u \in Threads : u # t => pc'[u] = pc[u]
  BY DEF LockStep, GuardFull, GuardPendOnly, OpReturned, MarkPending, SwapPending,
         PendedOpReturned, Unlock, Recheck, Reacquire
<1>2. GuardFull(t) \/ GuardPendOnly(t) => pc[t] = "idle" /\ pc'[t] \in {"full", "pend"}
  BY DEF GuardFull, GuardPendOnly
<1>3. OpReturned(t) => \/ pc[t] = "full" /\ pc'[t] = "swap"
                       \/ pc[t] = "pend" /\ pc'[t] = "mark"
  BY DEF OpReturned
<1>4. PendedOpReturned(t) => pc[t] = "drain" /\ pc'[t] = "unlock"
  BY DEF PendedOpReturned
<1> QED BY <1>1, <1>2, <1>3, <1>4

(* The drop of a guard: the caller was past its closure and outside        *)
(* run_pended_op, and nothing but the lock changes.                        *)
LEMMA ReleaseMoves ==
  ASSUME LockTypeOK, NEW t \in Threads, Release(t)
  PROVE  /\ LockStep(t) /\ UNCHANGED <<innerVars, at, benchVars>>
         /\ \A u \in Threads : u # t => pc'[u] = pc[u]
         /\ pc[t] \in {"mark", "swap", "unlock", "recheck", "spin"}
         /\ pc'[t] \in {"idle", "drain", "unlock", "recheck", "spin", "swap"}
<1>1. LockStep(t) /\ UNCHANGED <<innerVars, at, benchVars>>
  BY DEF Release, LockStep
<1>2. /\ pc[t] \in {"mark", "swap", "unlock", "recheck", "spin"}
      /\ pc'[t] \in {"idle", "drain", "unlock", "recheck", "spin", "swap"}
  BY DEF Release, MarkPending, SwapPending, Unlock, Recheck, Reacquire, Goto, LockTypeOK
<1> QED BY <1>1, <1>2, LockMoves

(* Every step is a step of one caller in the lock or leaves the lock alone. *)
LEMMA BenchLockStep ==
  ASSUME [Next]_vars
  PROVE  (\E t \in Threads : LockStep(t)) \/ UNCHANGED lockVars
<1> USE BenchAssumption
<1>1. ASSUME NEW t \in Threads, WorkerStep(t)
      PROVE  LockStep(t) \/ UNCHANGED lockVars
  BY <1>1 DEF WorkerStep, Release, RunPendedTake, RunPendedPush, AfterPended, Move, LockStep
<1>2. ASSUME NEW p \in Producers, ProducerStep(p)
      PROVE  LockStep(p) \/ UNCHANGED lockVars
  BY <1>1, <1>2 DEF ProducerStep, ProducerEnter, ProducerAlloc, ProducerPush, ProducerPend,
                    Move, Return, LockStep
<1>3. ASSUME ConsumerStep
      PROVE  LockStep(Consumer) \/ UNCHANGED lockVars
  BY <1>1, <1>3 DEF ConsumerStep, ConsumerEnter, ConsumerProcess, ConsumerAsk, ConsumerPeek, ConsumerLook,
                    ConsumerPend, Move, Return, LockStep
<1>4. ASSUME MainStep
      PROVE  LockStep(Main) \/ UNCHANGED lockVars
  BY <1>1, <1>4 DEF MainStep, JoinProducers, FinalEnter, FinalRead, Return, LockStep
<1> QED BY <1>2, <1>3, <1>4 DEF Next, Terminating, vars

(* So the lock keeps its types and its flag stays exact. *)
LEMMA BenchLockInv ==
  ASSUME LockTypeOK, LockInv, [Next]_vars
  PROVE  LockTypeOK' /\ LockInv'
<1>1. CASE UNCHANGED lockVars
  BY <1>1 DEF lockVars, LockTypeOK, LockInv, LockedIffHeld, MutualExclusion, Holds
<1> QED BY <1>1, BenchLockStep, LockStepType, LockInvStep

(* Popping takes at most the budget and at most the queue, from its front. *)
LEMMA PoppedBounds ==
  ASSUME BenchTypeOK
  PROVE  /\ Len(queue) \in Nat
         /\ Popped(ConsumerBudget) \in Nat
         /\ Popped(ConsumerBudget) <= Len(queue) /\ Popped(ConsumerBudget) <= ConsumerBudget
         /\ SubSeq(queue, Popped(ConsumerBudget) + 1, Len(queue)) \in Seq(Nat)
         /\ Len(SubSeq(queue, Popped(ConsumerBudget) + 1, Len(queue)))
              = Len(queue) - Popped(ConsumerBudget)
         /\ \A i \in 1 .. Len(queue) - Popped(ConsumerBudget) :
              SubSeq(queue, Popped(ConsumerBudget) + 1, Len(queue))[i]
                = queue[Popped(ConsumerBudget) + i]
<1> DEFINE k == Popped(ConsumerBudget)
<1>1. Len(queue) \in Nat /\ \A i \in 1 .. Len(queue) : queue[i] \in Nat
  BY LenProperties, ElementOfSeq DEF BenchTypeOK
<1>2. k \in Nat /\ k <= Len(queue) /\ k <= ConsumerBudget
  BY <1>1, BenchAssumption DEF Popped
<1> HIDE DEF k
<1>3. k + 1 \in Int /\ Len(queue) \in Int /\ \A i \in k + 1 .. Len(queue) : queue[i] \in Nat
  BY <1>1, <1>2
<1>4. /\ SubSeq(queue, k + 1, Len(queue)) \in Seq(Nat)
      /\ Len(SubSeq(queue, k + 1, Len(queue)))
           = IF k + 1 <= Len(queue) THEN Len(queue) - (k + 1) + 1 ELSE 0
      /\ \A i \in 1 .. Len(queue) - (k + 1) + 1 :
           SubSeq(queue, k + 1, Len(queue))[i] = queue[k + 1 + i - 1]
  BY <1>3, SubSeqProperties
<1>5. \A i \in 1 .. Len(queue) - k : SubSeq(queue, k + 1, Len(queue))[i] = queue[k + i]
  <2> SUFFICES ASSUME NEW i \in 1 .. Len(queue) - k
               PROVE  SubSeq(queue, k + 1, Len(queue))[i] = queue[k + i]
    OBVIOUS
  <2>1. k + 1 + i - 1 = k + i /\ i \in 1 .. Len(queue) - (k + 1) + 1
    BY <1>1, <1>2
  <2> QED BY <1>4, <2>1
<1>6. Len(SubSeq(queue, k + 1, Len(queue))) = Len(queue) - k
  BY <1>1, <1>2, <1>4
<1> QED BY <1>1, <1>2, <1>4, <1>5, <1>6 DEF k

(* A counter that is increased stays a counter. *)
LEMMA StatsAdd ==
  ASSUME NEW f \in [Counters -> Nat], NEW c \in Counters, NEW n \in Nat
  PROVE  /\ [f EXCEPT ![c] = f[c] + n] \in [Counters -> Nat]
         /\ [f EXCEPT ![c] = f[c] + n][c] = f[c] + n
         /\ \A d \in Counters : d # c => [f EXCEPT ![c] = f[c] + n][d] = f[d]
OBVIOUS

(* Taking the recorded intents counts them, and counts a batch if there    *)
(* are any.                                                                *)
LEMMA TakeStats ==
  ASSUME BenchTypeOK, NEW t \in Threads, TakePended(t)
  PROVE  /\ stats' \in [Counters -> Nat]
         /\ stats'["drained_items"] = stats["drained_items"] + pending_submit
         /\ stats'["drained_batches"] =
              stats["drained_batches"] + (IF pending_submit > 0 THEN 1 ELSE 0)
         /\ \A c \in Counters \ {"drained_items", "drained_batches"} : stats'[c] = stats[c]
<1> DEFINE n == IF pending_submit > 0 THEN 1 ELSE 0
           f == [stats EXCEPT !["drained_batches"] = stats["drained_batches"] + n]
           g == [f EXCEPT !["drained_items"] = f["drained_items"] + pending_submit]
<1>1. n \in Nat /\ pending_submit \in Nat
  BY DEF BenchTypeOK
<1>2. "drained_batches" \in Counters /\ "drained_items" \in Counters
  BY DEF Counters
<1>3. stats \in [Counters -> Nat]
  BY DEF BenchTypeOK
<1>4. stats' = g
  BY <1>2, <1>3 DEF TakePended
<1> HIDE DEF n
<1>5. /\ f \in [Counters -> Nat]
      /\ f["drained_batches"] = stats["drained_batches"] + n
      /\ \A d \in Counters : d # "drained_batches" => f[d] = stats[d]
  BY <1>1, <1>2, <1>3, StatsAdd
<1> HIDE DEF f
<1>6. /\ g \in [Counters -> Nat]
      /\ g["drained_items"] = f["drained_items"] + pending_submit
      /\ \A d \in Counters : d # "drained_items" => g[d] = f[d]
  BY <1>1, <1>2, <1>5, StatsAdd
<1> HIDE DEF g
<1> QED BY <1>2, <1>4, <1>5, <1>6 DEF n

(* A thread that moves goes to one of the places. *)
LEMMA AtMoves ==
  ASSUME BenchTypeOK, NEW t \in Threads, NEW place \in Places
  PROVE  [at EXCEPT ![t] = place] \in [Threads -> Places]
BY DEF BenchTypeOK

(* Types are kept. *)
LEMMA BenchTypeStep ==
  ASSUME ControlInv, [Next]_vars
  PROVE  BenchTypeOK'
<1> USE BenchAssumption DEF ControlInv, BenchTypeOK
<1>0. LockTypeOK'
  BY BenchLockInv
<1>1. ASSUME NEW p \in Producers, ProducerEnter(p)
      PROVE  BenchTypeOK'
  BY <1>0, <1>1 DEF ProducerEnter, innerVars
<1>2. ASSUME NEW p \in Producers, ProducerAlloc(p)
      PROVE  BenchTypeOK'
  <2>1. stats' \in [Counters -> Nat]
    BY <1>2, StatsAdd DEF ProducerAlloc, AllocId, Counters
  <2>2. id' \in [Threads -> Nat] /\ next_id' \in Nat
    BY <1>2 DEF ProducerAlloc, AllocId
  <2>3. at' \in [Threads -> Places]
    BY <1>2, AtMoves DEF ProducerAlloc, Move, Places
  <2> QED BY <1>0, <1>2, <2>1, <2>2, <2>3 DEF ProducerAlloc, AllocId, benchVars
<1>3. ASSUME NEW p \in Producers, ProducerPush(p)
      PROVE  BenchTypeOK'
  <2>1. stats' \in [Counters -> Nat]
    BY <1>3, StatsAdd DEF ProducerPush, PushDirect, Counters
  <2>2. id' \in [Threads -> Nat]
    BY <1>3 DEF ProducerPush, PushDirect
  <2>3. queue' \in Seq(Nat)
    <3>1. id[p] \in Nat /\ queue' = Append(queue, id[p]) /\ queue \in Seq(Nat)
      BY <1>3 DEF ProducerPush, PushDirect
    <3> HIDE DEF ControlInv, BenchTypeOK
    <3> QED BY <3>1, AppendProperties
  <2>4. at' \in [Threads -> Places]
    BY <1>3, AtMoves DEF ProducerPush, Return, Places
  <2> QED BY <1>0, <1>3, <2>1, <2>2, <2>3, <2>4 DEF ProducerPush, PushDirect, benchVars
<1>4. ASSUME NEW p \in Producers, ProducerPend(p)
      PROVE  BenchTypeOK'
  <2>1. stats' \in [Counters -> Nat]
    BY <1>4, StatsAdd DEF ProducerPend, RecordIntent, Counters
  <2>2. pending_submit' \in Nat
    BY <1>4 DEF ProducerPend, RecordIntent
  <2>3. at' \in [Threads -> Places]
    BY <1>4, AtMoves DEF ProducerPend, Return, Places
  <2> QED BY <1>0, <1>4, <2>1, <2>2, <2>3 DEF ProducerPend, RecordIntent, benchVars
<1>5. ASSUME ConsumerEnter \/ FinalEnter \/ \E t \in Threads : Release(t)
      PROVE  BenchTypeOK'
  BY <1>0, <1>5 DEF ConsumerEnter, FinalEnter, Release, innerVars, benchVars
<1>6. ASSUME ConsumerProcess
      PROVE  BenchTypeOK'
  <2>1. queue' \in Seq(Nat) /\ processed' \in Nat
    <3>1. /\ queue' = SubSeq(queue, Popped(ConsumerBudget) + 1, Len(queue))
          /\ processed' = processed + Popped(ConsumerBudget) /\ processed \in Nat
          /\ BenchTypeOK
      BY <1>6 DEF ConsumerProcess, ProcessSome
    <3> HIDE DEF ControlInv, BenchTypeOK
    <3>2. /\ Popped(ConsumerBudget) \in Nat
          /\ SubSeq(queue, Popped(ConsumerBudget) + 1, Len(queue)) \in Seq(Nat)
      BY <3>1, PoppedBounds
    <3> QED BY <3>1, <3>2
  <2>2. at' \in [Threads -> Places] /\ again' \in BOOLEAN
    BY <1>6, AtMoves DEF ConsumerProcess, Move, Return, Places
  <2> QED BY <1>0, <1>6, <2>1, <2>2 DEF ConsumerProcess, ProcessSome
<1>7. ASSUME ConsumerAsk \/ ConsumerPeek \/ ConsumerLook \/ ConsumerPend
      PROVE  BenchTypeOK'
  BY <1>0, <1>7 DEF ConsumerAsk, ConsumerPeek, ConsumerLook, ConsumerPend, Move, Return, innerVars, Places
<1>8. ASSUME NEW t \in Threads, RunPendedTake(t)
      PROVE  BenchTypeOK'
  <2>1. stats' \in [Counters -> Nat]
    BY <1>8, TakeStats DEF RunPendedTake
  <2>2. at' \in [Threads -> Places]
    BY <1>8 DEF RunPendedTake, AfterPended, Move, Places
  <2>3. left' \in [Threads -> Nat] /\ pending_submit' \in Nat
    BY <1>8 DEF RunPendedTake, TakePended
  <2> QED BY <1>0, <1>8, <2>1, <2>2, <2>3 DEF RunPendedTake, TakePended, benchVars
<1>9. ASSUME NEW t \in Threads, RunPendedPush(t)
      PROVE  BenchTypeOK'
  <2>1. left' \in [Threads -> Nat]
    <3>1. left[t] \in Nat /\ left[t] > 0 /\ left' = [left EXCEPT ![t] = left[t] - 1]
      BY <1>9 DEF RunPendedPush, PushOne, PlaceInv
    <3>2. left[t] - 1 \in Nat /\ left \in [Threads -> Nat]
      BY <3>1
    <3> QED BY <3>1, <3>2
  <2>2. queue' \in Seq(Nat) /\ next_id' \in Nat
    <3>1. queue' = Append(queue, next_id) /\ next_id' = next_id + 1
          /\ next_id \in Nat /\ queue \in Seq(Nat)
      BY <1>9 DEF RunPendedPush, PushOne
    <3> HIDE DEF ControlInv, BenchTypeOK
    <3> QED BY <3>1, AppendProperties
  <2>3. at' \in [Threads -> Places]
    BY <1>9 DEF RunPendedPush, AfterPended, Move, Places
  <2>4. queueOwner' \in Threads \cup {NoThread}
    BY <1>9 DEF RunPendedPush, PushOne
  <2> QED BY <1>0, <1>9, <2>1, <2>2, <2>3, <2>4 DEF RunPendedPush, PushOne, benchVars
<1>10. ASSUME JoinProducers
       PROVE  BenchTypeOK'
  BY <1>0, <1>10 DEF JoinProducers, innerVars
<1>11. ASSUME FinalRead
       PROVE  BenchTypeOK'
  BY <1>0, <1>11 DEF FinalRead, Return, innerVars, Places
<1>12. CASE UNCHANGED vars
  BY <1>0, <1>12 DEF vars, innerVars, benchVars
<1> QED BY <1>1, <1>2, <1>3, <1>4, <1>5, <1>6, <1>7, <1>8, <1>9, <1>10, <1>11, <1>12
        DEF Next, ProducerStep, ConsumerStep, MainStep, WorkerStep, Terminating

(* Where a thread is, after every step. *)
LEMMA PlaceStep ==
  ASSUME ControlInv, [Next]_vars
  PROVE  PlaceInv'
<1> USE BenchAssumption DEF ControlInv, BenchTypeOK, PlaceInv
<1>1. ASSUME NEW p \in Producers, ProducerEnter(p)
      PROVE  PlaceInv'
  <2>1. pc[p] = "idle" /\ \A u \in Threads : u # p => pc'[u] = pc[u]
    BY <1>1, LockMoves DEF ProducerEnter, LockStep
  <2>2. UNCHANGED <<at, left, queueOwner>>
    BY <1>1 DEF ProducerEnter, innerVars
  <2> QED BY <2>1, <2>2
<1>2. ASSUME NEW p \in Producers, ProducerAlloc(p)
      PROVE  PlaceInv'
  BY <1>2 DEF ProducerAlloc, AllocId, Move, lockVars, Places
<1>3. ASSUME NEW p \in Producers, ProducerPush(p) \/ ProducerPend(p)
      PROVE  PlaceInv'
  <2>1. \A u \in Threads : u # p => pc'[u] = pc[u]
    BY <1>3, LockMoves DEF ProducerPush, ProducerPend, Return, LockStep
  <2>2. /\ at[p] # "replay" /\ at' = [at EXCEPT ![p] = "start"]
        /\ UNCHANGED <<left, queueOwner>>
    BY <1>3 DEF ProducerPush, PushDirect, ProducerPend, RecordIntent, Return
  <2> QED BY <2>1, <2>2
<1>4. ASSUME ConsumerEnter
      PROVE  PlaceInv'
  <2>1. pc[Consumer] = "idle" /\ \A u \in Threads : u # Consumer => pc'[u] = pc[u]
    BY <1>4, LockMoves DEF ConsumerEnter, LockStep
  <2>2. UNCHANGED <<at, left, queueOwner>>
    BY <1>4 DEF ConsumerEnter, innerVars
  <2> QED BY <2>1, <2>2
<1>5. ASSUME FinalEnter
      PROVE  PlaceInv'
  <2>1. pc[Main] = "idle" /\ \A u \in Threads : u # Main => pc'[u] = pc[u]
    BY <1>5, LockMoves DEF FinalEnter, LockStep
  <2>2. UNCHANGED <<at, left, queueOwner>>
    BY <1>5 DEF FinalEnter, innerVars
  <2> QED BY <2>1, <2>2
<1>6. ASSUME NEW t \in Threads, Release(t)
      PROVE  PlaceInv'
  <2>1. /\ pc[t] \in {"mark", "swap", "unlock", "recheck", "spin"}
        /\ \A u \in Threads : u # t => pc'[u] = pc[u]
        /\ UNCHANGED <<at, left, queueOwner>>
    BY <1>6, ReleaseMoves DEF innerVars
  <2> QED BY <2>1
<1>7. ASSUME ConsumerProcess \/ ConsumerAsk \/ ConsumerPeek \/ ConsumerLook \/ ConsumerPend
      PROVE  PlaceInv'
  <2>1. \A u \in Threads : u # Consumer => pc'[u] = pc[u]
    BY <1>7, LockMoves DEF ConsumerProcess, ConsumerAsk, ConsumerPeek, ConsumerLook, ConsumerPend,
                           Move, Return, LockStep, lockVars
  <2>2. /\ at[Consumer] # "replay" /\ UNCHANGED <<left, queueOwner>>
        /\ \/ at' = [at EXCEPT ![Consumer] = "start"]
           \/ /\ at[Consumer] \in {"process", "ask", "peek"} /\ pc'[Consumer] = pc[Consumer]
              /\ \E place \in {"ask", "peek", "look"} : at' = [at EXCEPT ![Consumer] = place]
    BY <1>7 DEF ConsumerProcess, ProcessSome, ConsumerAsk, ConsumerPeek, ConsumerLook, ConsumerPend,
                Move, Return, lockVars, innerVars
  <2> QED BY <2>1, <2>2
<1>8. ASSUME NEW t \in Threads, RunPendedTake(t)
      PROVE  PlaceInv'
  <2>1. \A u \in Threads : u # t => pc'[u] = pc[u] /\ at'[u] = at[u] /\ left'[u] = left[u]
    BY <1>8, LockMoves DEF RunPendedTake, TakePended, AfterPended, Move, LockStep, lockVars
  <2>2. left'[t] = pending_submit /\ queueOwner' = queueOwner /\ at[t] = "start"
    BY <1>8 DEF RunPendedTake, TakePended
  <2>3. CASE pending_submit > 0
    <3>1. at'[t] = "replay" /\ pc'[t] = pc[t]
      BY <1>8, <2>3 DEF RunPendedTake, Move, lockVars
    <3>2. pc[t] = "drain" \/ (t = Consumer /\ pc[t] = "full")
      BY <1>8 DEF RunPendedTake
    <3> QED BY <2>1, <2>2, <2>3, <3>1, <3>2
  <2>4. CASE ~(pending_submit > 0)
    <3>1. \/ at'[t] = "start"
          \/ at'[t] = "process" /\ pc[t] = "full" /\ pc'[t] = pc[t]
      BY <1>8, <2>4 DEF RunPendedTake, AfterPended, Move, lockVars
    <3>2. pc[t] = "full" => t = Consumer
      BY <1>8 DEF RunPendedTake
    <3> QED BY <2>1, <2>2, <2>4, <3>1, <3>2
  <2> QED BY <2>3, <2>4
<1>9. ASSUME NEW t \in Threads, RunPendedPush(t)
      PROVE  PlaceInv'
  <2>1. \A u \in Threads : u # t => pc'[u] = pc[u] /\ at'[u] = at[u] /\ left'[u] = left[u]
    BY <1>9, LockMoves DEF RunPendedPush, PushOne, AfterPended, Move, LockStep, lockVars
  <2>2. /\ left'[t] = left[t] - 1 /\ left[t] > 0 /\ at[t] = "replay" /\ left[t] \in Nat
        /\ queueOwner' = IF left[t] = 1 THEN NoThread ELSE t
    BY <1>9 DEF RunPendedPush, PushOne
  <2>3. CASE left[t] > 1
    <3>1. at'[t] = "replay" /\ pc'[t] = pc[t]
      BY <1>9, <2>2, <2>3 DEF RunPendedPush, lockVars
    <3>2. queueOwner' = t /\ left'[t] > 0
      BY <2>2, <2>3
    <3>3. pc[t] = "drain" \/ (t = Consumer /\ pc[t] = "full")
      BY <2>2
    <3>4. queueOwner' # NoThread => at'[queueOwner'] = "replay"
      BY <3>1, <3>2
    <3> QED BY <2>1, <3>1, <3>2, <3>3, <3>4
  <2>4. CASE ~(left[t] > 1)
    <3>1. \/ at'[t] = "start"
          \/ at'[t] = "process" /\ pc[t] = "full" /\ pc'[t] = pc[t]
      BY <1>9, <2>4 DEF RunPendedPush, AfterPended, Move, lockVars
    <3>2. pc[t] = "full" => t = Consumer
      BY <2>2
    <3>3. queueOwner' = NoThread /\ left'[t] = 0
      BY <2>2, <2>4
    <3>4. /\ at'[t] # "push" /\ at'[t] # "replay" /\ ~(left'[t] > 0)
          /\ at'[t] \in {"process", "ask", "peek", "look"} => t = Consumer /\ pc'[t] = "full"
      BY <3>1, <3>2, <3>3
    <3> QED BY <2>1, <3>3, <3>4
  <2> QED BY <2>3, <2>4
<1>10. ASSUME JoinProducers
       PROVE  PlaceInv'
  BY <1>10 DEF JoinProducers, innerVars, lockVars
<1>11. ASSUME FinalRead
       PROVE  PlaceInv'
  <2>1. /\ \A u \in Threads : u # Main => pc'[u] = pc[u]
        /\ at[Main] = "start" /\ at' = [at EXCEPT ![Main] = "start"]
        /\ UNCHANGED <<left, queueOwner>>
    BY <1>11, LockMoves DEF FinalRead, Return, LockStep, innerVars
  <2> QED BY <2>1
<1>12. CASE UNCHANGED vars
  BY <1>12 DEF vars, innerVars, lockVars
<1> QED BY <1>1, <1>2, <1>3, <1>4, <1>5, <1>6, <1>7, <1>8, <1>9, <1>10, <1>11, <1>12
        DEF Next, ProducerStep, ConsumerStep, MainStep, WorkerStep, Terminating

(* A thread that runs the release loop or run_pended_op is inside the      *)
(* lock, and does not become a loser of it.                                *)
LEMMA WorkerMoves ==
  ASSUME BenchTypeOK, PlaceInv, NEW t \in Threads, WorkerStep(t)
  PROVE  /\ pc[t] # "idle" /\ pc'[t] \notin {"pend", "mark"}
         /\ \A u \in Threads : u # t => pc'[u] = pc[u]
         /\ UNCHANGED benchVars
<1> USE DEF BenchTypeOK
<1>1. CASE Release(t)
  BY <1>1, ReleaseMoves
<1>2. CASE RunPendedTake(t)
  BY <1>2, LockMoves DEF RunPendedTake, AfterPended, Move, LockStep, lockVars
<1>3. CASE RunPendedPush(t)
  <2>1. pc[t] = "drain" \/ pc[t] = "full"
    BY <1>3 DEF RunPendedPush, PlaceInv
  <2> QED BY <1>3, <2>1, LockMoves DEF RunPendedPush, AfterPended, Move, LockStep, lockVars
<1> QED BY <1>1, <1>2, <1>3 DEF WorkerStep

(* A producer that takes a step has not returned. *)
LEMMA ProducerMoves ==
  ASSUME BenchTypeOK, PlaceInv, NEW p \in Producers, ProducerStep(p)
  PROVE  /\ ~ProducerReturned(p)
         /\ \A u \in Threads : u # p => pc'[u] = pc[u]
         /\ UNCHANGED <<again, seenDone, producers_done, result>>
<1> USE BenchAssumption DEF BenchTypeOK
<1>1. CASE ProducerEnter(p)
  BY <1>1, LockMoves DEF ProducerEnter, LockStep, ProducerReturned
<1>2. CASE ProducerAlloc(p)
  BY <1>2 DEF ProducerAlloc, Move, lockVars, benchVars, ProducerReturned
<1>3. CASE ProducerPush(p)
  BY <1>3, LockMoves DEF ProducerPush, Return, LockStep, benchVars, ProducerReturned
<1>4. CASE ProducerPend(p)
  BY <1>4, LockMoves DEF ProducerPend, Return, LockStep, benchVars, ProducerReturned
<1>5. CASE WorkerStep(p)
  BY <1>5, WorkerMoves DEF benchVars, ProducerReturned
<1> QED BY <1>1, <1>2, <1>3, <1>4, <1>5 DEF ProducerStep

(* Nor has the consumer, when it takes one. *)
LEMMA ConsumerMoves ==
  ASSUME BenchTypeOK, PlaceInv, ConsumerStep
  PROVE  /\ ~ConsumerReturned
         /\ \A u \in Threads : u # Consumer => pc'[u] = pc[u]
         /\ UNCHANGED <<issued, producers_done, result>>
         /\ seenDone' \in {seenDone, producers_done}
<1> USE BenchAssumption DEF BenchTypeOK, ConsumerReturned
<1>1. CASE ConsumerEnter
  BY <1>1, LockMoves DEF ConsumerEnter, LockStep, benchVars
<1>2. CASE ConsumerProcess
  BY <1>2, LockMoves DEF ConsumerProcess, Move, Return, LockStep, lockVars, PlaceInv
<1>3. CASE ConsumerAsk \/ ConsumerPeek
  BY <1>3 DEF ConsumerAsk, ConsumerPeek, Move, lockVars, PlaceInv
<1>4. CASE ConsumerLook \/ ConsumerPend
  BY <1>4, LockMoves DEF ConsumerLook, ConsumerPend, Return, LockStep
<1>5. CASE WorkerStep(Consumer)
  BY <1>5, WorkerMoves DEF benchVars
<1> QED BY <1>1, <1>2, <1>3, <1>4, <1>5 DEF ConsumerStep

(* The joins: nobody who has returned starts again, and the main thread    *)
(* finds the lock free.                                                    *)
LEMMA JoinStep ==
  ASSUME ControlInv, [Next]_vars
  PROVE  JoinInv'
<1> USE BenchAssumption DEF ControlInv
<1>1. ASSUME NEW p \in Producers, ProducerStep(p)
      PROVE  JoinInv'
  <2>1. ~producers_done /\ pc[Main] = "idle" /\ ~seenDone
    BY <1>1, ProducerMoves DEF JoinInv
  <2>2. ~producers_done' /\ pc'[Main] = "idle" /\ ~seenDone'
    BY <1>1, <2>1, ProducerMoves
  <2> QED BY <2>2 DEF JoinInv, FinalAccessIsFull
<1>2. ASSUME ConsumerStep
      PROVE  JoinInv'
  <2>1. pc[Main] = "idle"
    BY <1>2, ConsumerMoves DEF JoinInv
  <2>2. pc'[Main] = "idle" /\ producers_done' = producers_done
        /\ (seenDone' => producers_done)
    BY <1>2, <2>1, ConsumerMoves DEF JoinInv
  <2>3. \A p \in Producers : ProducerReturned(p)' = ProducerReturned(p)
    BY <1>2, ConsumerMoves DEF ProducerReturned
  <2> QED BY <2>2, <2>3 DEF JoinInv, FinalAccessIsFull
<1>3. ASSUME WorkerStep(Main)
      PROVE  JoinInv'
  <2>1. producers_done /\ ConsumerReturned /\ \A p \in Producers : ProducerReturned(p)
    BY <1>3, WorkerMoves DEF JoinInv
  <2>2. /\ UNCHANGED <<issued, again, seenDone, producers_done>>
        /\ pc'[Main] \notin {"pend", "mark"}
        /\ \A u \in Producers \cup {Consumer} : pc'[u] = pc[u]
    BY <1>3, WorkerMoves DEF benchVars
  <2> QED BY <2>1, <2>2 DEF JoinInv, FinalAccessIsFull, ProducerReturned, ConsumerReturned
<1>4. ASSUME JoinProducers
      PROVE  JoinInv'
  BY <1>4 DEF JoinProducers, lockVars, JoinInv, FinalAccessIsFull, ProducerReturned,
              ConsumerReturned
<1>5. ASSUME FinalEnter
      PROVE  JoinInv'
  <2>1. /\ pc[Main] = "idle" /\ pc'[Main] \in {"full", "pend"}
        /\ \A u \in Threads : u # Main => pc'[u] = pc[u]
    BY <1>5, LockMoves DEF FinalEnter, LockStep, BenchTypeOK
  <2>2. producers_done /\ ConsumerReturned /\ \A p \in Producers : ProducerReturned(p)
    BY <1>5 DEF FinalEnter, JoinInv
  <2>3. \A u \in Threads : pc[u] = "idle"
    BY <2>1, <2>2 DEF ConsumerReturned, ProducerReturned
  <2>4. ~locked
    BY <2>3 DEF LockInv, LockedIffHeld, Holds
  <2>5. pc'[Main] = "full"
    BY <1>5, <2>4 DEF FinalEnter, GuardFull, GuardPendOnly, Goto, BenchTypeOK, LockTypeOK
  <2>6. UNCHANGED <<issued, again, seenDone, producers_done>>
    BY <1>5 DEF FinalEnter, benchVars
  <2> QED BY <2>1, <2>2, <2>5, <2>6 DEF JoinInv, FinalAccessIsFull, ProducerReturned,
                                        ConsumerReturned
<1>6. ASSUME FinalRead
      PROVE  JoinInv'
  <2>1. /\ pc[Main] = "full" /\ pc'[Main] = "swap"
        /\ \A u \in Threads : u # Main => pc'[u] = pc[u]
        /\ UNCHANGED <<issued, again, seenDone, producers_done>>
    BY <1>6, LockMoves DEF FinalRead, Return, LockStep, BenchTypeOK
  <2> QED BY <2>1 DEF JoinInv, FinalAccessIsFull, ProducerReturned, ConsumerReturned
<1>7. CASE UNCHANGED vars
  BY <1>7 DEF vars, lockVars, benchVars, JoinInv, FinalAccessIsFull, ProducerReturned,
              ConsumerReturned
<1> QED BY <1>1, <1>2, <1>3, <1>4, <1>5, <1>6, <1>7 DEF Next, MainStep, Terminating

-----------------------------------------------------------------------------
(* Only the holder of the soft lock is past the start of its closure. *)
LEMMA OnlyHolderIsInside ==
  ASSUME ControlInv, NEW t \in Threads, Holds(t), NEW u \in Threads, at[u] # "start"
  PROVE  u = t
<1>1. at[u] \in Places
  BY DEF ControlInv, BenchTypeOK
<1>2. Holds(u)
  BY <1>1 DEF ControlInv, PlaceInv, Holds, Places
<1> QED BY <1>2 DEF ControlInv, LockInv, MutualExclusion

(* The steps that leave the content alone. *)
QuietStep ==
  \/ \E p \in Producers : ProducerEnter(p)
  \/ \E t \in Threads : Release(t)
  \/ ConsumerEnter \/ ConsumerAsk \/ ConsumerPeek \/ ConsumerLook \/ ConsumerPend
  \/ JoinProducers \/ FinalEnter \/ FinalRead
  \/ UNCHANGED vars

(* They move no thread to or from the push of submit_direct. *)
LEMMA QuietMoves ==
  ASSUME ControlInv, QuietStep
  PROVE  /\ UNCHANGED innerVars
         /\ \A t \in Threads : at'[t] = "push" <=> at[t] = "push"
<1> USE BenchAssumption DEF ControlInv, BenchTypeOK
<1>1. CASE \/ \E p \in Producers : ProducerEnter(p)
           \/ \E t \in Threads : Release(t)
           \/ ConsumerEnter \/ JoinProducers \/ FinalEnter \/ UNCHANGED vars
  BY <1>1 DEF ProducerEnter, Release, ConsumerEnter, JoinProducers, FinalEnter, vars
<1>2. CASE ConsumerAsk \/ ConsumerPeek \/ ConsumerLook \/ ConsumerPend
  BY <1>2 DEF ConsumerAsk, ConsumerPeek, ConsumerLook, ConsumerPend, Move, Return
<1>3. CASE FinalRead
  BY <1>3 DEF FinalRead, Return
<1> QED BY <1>1, <1>2, <1>3 DEF QuietStep

(* The other steps, each with what it does to the content. *)
LEMMA BenchCases ==
  ASSUME [Next]_vars
  PROVE  \/ QuietStep
         \/ \E p \in Producers : ProducerAlloc(p) \/ ProducerPush(p) \/ ProducerPend(p)
         \/ \E t \in Threads : RunPendedTake(t) \/ RunPendedPush(t)
         \/ ConsumerProcess
BY BenchAssumption
   DEF Next, ProducerStep, ConsumerStep, MainStep, WorkerStep, Terminating, QuietStep

(* Ids are queued in the order they are drawn: no two threads are between  *)
(* fetch_add and push_back at once.                                        *)
LEMMA IdStep ==
  ASSUME ControlInv, IdInv, [Next]_vars
  PROVE  IdInv'
<1> USE BenchAssumption
<1>0. /\ Len(queue) \in Nat /\ processed \in Nat /\ next_id \in Nat /\ queue \in Seq(Nat)
      /\ at \in [Threads -> Places] /\ id \in [Threads -> Nat] /\ Producers \subseteq Threads
      /\ Consumer \in Threads
  BY LenProperties DEF ControlInv, BenchTypeOK
<1>1. CASE QuietStep
  BY <1>1, QuietMoves DEF innerVars, IdInv
<1>2. ASSUME NEW p \in Producers, ProducerAlloc(p)
      PROVE  IdInv'
  <2>1. \A u \in Threads : at[u] # "push"
    BY <1>0, <1>2, OnlyHolderIsInside DEF ProducerAlloc, Move, Holds
  <2>2. next_id = processed + Len(queue) + 1
    BY <2>1 DEF IdInv
  <2>3. /\ UNCHANGED <<queue, processed>> /\ next_id' = next_id + 1 /\ id'[p] = next_id
        /\ at'[p] = "push" /\ \A u \in Threads : u # p => at'[u] = at[u]
    BY <1>0, <1>2 DEF ProducerAlloc, AllocId, Move
  <2> QED BY <1>0, <2>1, <2>2, <2>3 DEF IdInv
<1>3. ASSUME NEW p \in Producers, ProducerPush(p)
      PROVE  IdInv'
  <2>1. at[p] = "push" /\ Holds(p)
    BY <1>0, <1>3 DEF ProducerPush, Return, ControlInv, PlaceInv, Holds
  <2>2. /\ UNCHANGED <<processed, next_id>> /\ queue' = Append(queue, id[p])
        /\ at'[p] = "start" /\ \A u \in Threads : u # p => at'[u] = at[u]
    BY <1>0, <1>3 DEF ProducerPush, PushDirect, Return
  <2>3. \A u \in Threads : at'[u] # "push"
    BY <1>0, <2>1, <2>2, OnlyHolderIsInside
  <2>4. id[p] = processed + Len(queue) + 1 /\ next_id = processed + Len(queue) + 2
    BY <1>0, <2>1 DEF IdInv
  <2>5. Len(queue') = Len(queue) + 1 /\ queue'[Len(queue) + 1] = id[p]
        /\ \A i \in 1 .. Len(queue) : queue'[i] = queue[i]
    BY <1>0, <2>2
  <2>6. \A i \in 1 .. Len(queue') : queue'[i] = processed' + i
    <3>1. \A i \in 1 .. Len(queue) : queue[i] = processed + i
      BY DEF IdInv
    <3>2. \A i \in 1 .. Len(queue') : i \in 1 .. Len(queue) \/ i = Len(queue) + 1
      BY <1>0, <2>5
    <3>3. processed' = processed
      BY <2>2
    <3>4. queue'[Len(queue) + 1] = processed + (Len(queue) + 1)
      BY <1>0, <2>4, <2>5
    <3>5. \A i \in 1 .. Len(queue) : queue'[i] = processed + i
      BY <2>5, <3>1
    <3> QED BY <3>2, <3>3, <3>4, <3>5
  <2>7. next_id' = processed' + Len(queue') + 1
    BY <1>0, <2>2, <2>4, <2>5
  <2> QED BY <2>3, <2>6, <2>7 DEF IdInv
<1>4. ASSUME NEW p \in Producers, ProducerPend(p)
      PROVE  IdInv'
  <2>1. /\ UNCHANGED <<queue, processed, next_id, id>>
        /\ \A u \in Threads : at'[u] = at[u]
    BY <1>0, <1>4 DEF ProducerPend, RecordIntent, Return
  <2> QED BY <2>1 DEF IdInv
<1>5. ASSUME NEW t \in Threads, RunPendedTake(t)
      PROVE  IdInv'
  <2>1. /\ UNCHANGED <<queue, processed, next_id, id>>
        /\ at[t] # "push" /\ at'[t] # "push" /\ \A u \in Threads : u # t => at'[u] = at[u]
    BY <1>0, <1>5 DEF RunPendedTake, TakePended, AfterPended, Move
  <2> QED BY <2>1 DEF IdInv
<1>6. ASSUME NEW t \in Threads, RunPendedPush(t)
      PROVE  IdInv'
  <2>1. at[t] = "replay" /\ Holds(t)
    BY <1>6 DEF RunPendedPush, ControlInv, PlaceInv, Holds
  <2>2. /\ processed' = processed /\ queue' = Append(queue, next_id) /\ next_id' = next_id + 1
        /\ at'[t] # "push" /\ \A u \in Threads : u # t => at'[u] = at[u]
    BY <1>0, <1>6 DEF RunPendedPush, PushOne, AfterPended, Move
  <2>3. \A u \in Threads : at[u] # "push" /\ at'[u] # "push"
    BY <2>1, <2>2, OnlyHolderIsInside
  <2>4. next_id = processed + Len(queue) + 1
    BY <2>3 DEF IdInv
  <2>5. Len(queue') = Len(queue) + 1 /\ queue'[Len(queue) + 1] = next_id
        /\ \A i \in 1 .. Len(queue) : queue'[i] = queue[i]
    BY <1>0, <2>2
  <2>6. \A i \in 1 .. Len(queue') : queue'[i] = processed' + i
    <3>1. \A i \in 1 .. Len(queue) : queue[i] = processed + i
      BY DEF IdInv
    <3>2. \A i \in 1 .. Len(queue') : i \in 1 .. Len(queue) \/ i = Len(queue) + 1
      BY <1>0, <2>5
    <3>3. processed' = processed
      BY <2>2
    <3>4. queue'[Len(queue) + 1] = processed + (Len(queue) + 1)
      BY <1>0, <2>4, <2>5
    <3>5. \A i \in 1 .. Len(queue) : queue'[i] = processed + i
      BY <2>5, <3>1
    <3> QED BY <3>2, <3>3, <3>4, <3>5
  <2>7. next_id' = processed' + Len(queue') + 1
    BY <1>0, <2>2, <2>4, <2>5
  <2> QED BY <2>3, <2>6, <2>7 DEF IdInv
<1>7. ASSUME ConsumerProcess
      PROVE  IdInv'
  <2> DEFINE k == Popped(ConsumerBudget)
  <2>1. at[Consumer] = "process" /\ Holds(Consumer)
    BY <1>0, <1>7 DEF ConsumerProcess, Move, Return, ControlInv, PlaceInv, Holds
  <2>2. /\ next_id' = next_id /\ processed' = processed + k
        /\ queue' = SubSeq(queue, k + 1, Len(queue))
        /\ at'[Consumer] # "push" /\ \A u \in Threads : u # Consumer => at'[u] = at[u]
    BY <1>0, <1>7 DEF ConsumerProcess, ProcessSome, Move, Return
  <2>3. \A u \in Threads : at[u] # "push" /\ at'[u] # "push"
    BY <1>0, <2>1, <2>2, OnlyHolderIsInside
  <2>4. next_id = processed + Len(queue) + 1
    BY <2>3 DEF IdInv
  <2>5. /\ k \in Nat /\ k <= Len(queue) /\ Len(queue') = Len(queue) - k
        /\ \A i \in 1 .. Len(queue) - k : queue'[i] = queue[k + i]
    BY <2>2, PoppedBounds DEF ControlInv
  <2> HIDE DEF k
  <2>6. ASSUME NEW i \in 1 .. Len(queue')
        PROVE  queue'[i] = processed' + i
    <3>1. i \in 1 .. Len(queue) - k /\ k + i \in 1 .. Len(queue)
      BY <1>0, <2>5
    <3>2. queue[k + i] = processed + (k + i)
      BY <3>1 DEF IdInv
    <3> QED BY <1>0, <2>2, <2>5, <3>1, <3>2
  <2>7. next_id' = processed' + Len(queue') + 1
    <3>1. next_id' = processed + Len(queue) + 1 /\ processed' = processed + k
      BY <2>2, <2>4
    <3>2. Len(queue') = Len(queue) - k /\ k \in Nat /\ Len(queue) \in Nat /\ processed \in Nat
      BY <1>0, <2>5
    <3> QED BY <3>1, <3>2
  <2> QED BY <2>3, <2>6, <2>7 DEF IdInv
<1> QED BY <1>1, <1>2, <1>3, <1>4, <1>5, <1>6, <1>7, BenchCases

-----------------------------------------------------------------------------
(* The quantities of NothingLost are numbers. *)
LEMMA Quantities ==
  ASSUME ControlInv
  PROVE  /\ Len(queue) \in Nat /\ processed \in Nat /\ pending_submit \in Nat
         /\ Sum(left) \in Nat /\ Sum(issued) \in Nat /\ Sum(issued) <= total_ops
         /\ total_ops \in Nat
         /\ IsFiniteSet(Carrying) /\ Cardinality(Carrying) \in Nat
<1> USE DEF ControlInv, BenchTypeOK
<1>1. Len(queue) \in Nat /\ processed \in Nat /\ pending_submit \in Nat
  BY LenProperties
<1>2. Sum(left) \in Nat
  BY ThreadsFinite, UnitsFinite
<1>3. Sum(issued) \in Nat /\ Sum(issued) <= total_ops /\ total_ops \in Nat
  BY IssuedBounds
<1>4. IsFiniteSet(Carrying)
  BY BenchAssumption, FS_Subset DEF Carrying
<1> QED BY <1>1, <1>2, <1>3, <1>4, FS_CardinalityType

(* Entering starts an iteration and carries it. *)
LEMMA EnterEffect ==
  ASSUME ControlInv, NEW p \in Producers, ProducerEnter(p)
  PROVE  /\ UNCHANGED innerVars /\ UNCHANGED result
         /\ Sum(issued') = Sum(issued) + 1
         /\ Cardinality(Carrying') = Cardinality(Carrying) + 1
<1> USE BenchAssumption DEF ControlInv, BenchTypeOK
<1>1. UNCHANGED innerVars /\ UNCHANGED result
  BY DEF ProducerEnter
<1>2. /\ issued \in [Producers -> Nat] /\ issued' \in [Producers -> Nat]
      /\ issued[p] \in Nat /\ issued'[p] = issued[p] + 1
      /\ \A u \in Producers \ {p} : issued'[u] = issued[u]
  BY DEF ProducerEnter
<1>3. IsFiniteSet(Producers)
  OBVIOUS
<1>4. Sum(issued') = Sum(issued) + 1
  <2> HIDE DEF ControlInv, BenchTypeOK
  <2>1. /\ Sum(issued) \in Nat /\ Sum(issued') \in Nat
        /\ Sum(issued') + issued[p] = Sum(issued) + issued'[p]
    BY <1>2, <1>3, SumUpdate
  <2> QED BY <1>2, <2>1
<1>5. p \notin Carrying /\ Carrying' = Carrying \cup {p}
  BY LockMoves DEF ProducerEnter, LockStep, Carrying
<1> QED BY <1>1, <1>4, <1>5, Quantities, FS_AddElement

(* submit_direct moves the item it carries into the queue. *)
LEMMA PushEffect ==
  ASSUME ControlInv, NEW p \in Producers, ProducerPush(p)
  PROVE  /\ UNCHANGED <<pending_submit, left, processed, issued, result>>
         /\ Len(queue') = Len(queue) + 1
         /\ Cardinality(Carrying') = Cardinality(Carrying) - 1
<1> USE BenchAssumption DEF ControlInv, BenchTypeOK
<1>1. UNCHANGED <<pending_submit, left, processed, issued, result>>
  BY DEF ProducerPush, PushDirect, benchVars
<1>2. Len(queue') = Len(queue) + 1
  BY DEF ProducerPush, PushDirect
<1>3. p \in Carrying /\ Carrying' = Carrying \ {p}
  BY LockMoves DEF ProducerPush, Return, LockStep, Carrying
<1> QED BY <1>1, <1>2, <1>3, Quantities, FS_RemoveElement

(* pend_submit turns it into a recorded intent. *)
LEMMA PendEffect ==
  ASSUME ControlInv, NEW p \in Producers, ProducerPend(p)
  PROVE  /\ UNCHANGED <<queue, left, processed, issued, result>>
         /\ pending_submit' = pending_submit + 1
         /\ Cardinality(Carrying') = Cardinality(Carrying) - 1
<1> USE BenchAssumption DEF ControlInv, BenchTypeOK
<1>1. /\ UNCHANGED <<queue, left, processed, issued, result>>
      /\ pending_submit' = pending_submit + 1
  BY DEF ProducerPend, RecordIntent, benchVars
<1>2. p \in Carrying /\ Carrying' = Carrying \ {p}
  BY LockMoves DEF ProducerPend, Return, LockStep, Carrying
<1> QED BY <1>1, <1>2, Quantities, FS_RemoveElement

(* The swap of run_pended_op moves every recorded intent to its caller. *)
LEMMA TakeEffect ==
  ASSUME ControlInv, NEW t \in Threads, RunPendedTake(t)
  PROVE  /\ UNCHANGED <<queue, processed, issued, result>> /\ Carrying' = Carrying
         /\ pending_submit' = 0
         /\ Sum(left') = Sum(left) + pending_submit
<1> USE BenchAssumption DEF ControlInv, BenchTypeOK
<1>1. UNCHANGED <<queue, processed, issued, result>> /\ pending_submit' = 0
  BY DEF RunPendedTake, TakePended, benchVars
<1>2. Carrying' = Carrying
  <2>1. WorkerStep(t) /\ \A u \in Threads : u # t => pc'[u] = pc[u]
    BY WorkerMoves DEF WorkerStep
  <2>2. t \in Producers => pc[t] = "drain" /\ pc'[t] \in {"drain", "unlock"}
    BY LockMoves DEF RunPendedTake, AfterPended, Move, lockVars
  <2> QED BY <2>1, <2>2 DEF Carrying
<1>3. /\ left[t] = 0 /\ left'[t] = pending_submit
      /\ \A u \in Threads \ {t} : left'[u] = left[u]
  BY DEF RunPendedTake, TakePended, PlaceInv
<1>4. Sum(left') = Sum(left) + pending_submit
  <2>1. left \in [Threads -> Nat] /\ left' \in [Threads -> Nat] /\ pending_submit \in Nat
    BY DEF RunPendedTake, TakePended
  <2> HIDE DEF ControlInv, BenchTypeOK
  <2>2. /\ Sum(left) \in Nat /\ Sum(left') \in Nat
        /\ Sum(left') + left[t] = Sum(left) + left'[t]
    BY <1>3, <2>1, ThreadsFinite, SumUpdate
  <2> QED BY <1>3, <2>1, <2>2
<1> QED BY <1>1, <1>2, <1>4

(* One turn of its loop moves one of them into the queue. *)
LEMMA ReplayEffect ==
  ASSUME ControlInv, NEW t \in Threads, RunPendedPush(t)
  PROVE  /\ UNCHANGED <<pending_submit, processed, issued, result, stats>>
         /\ Carrying' = Carrying
         /\ Len(queue') = Len(queue) + 1
         /\ Sum(left') + 1 = Sum(left)
<1> USE BenchAssumption DEF ControlInv, BenchTypeOK
<1>1. UNCHANGED <<pending_submit, processed, issued, result, stats>>
  BY DEF RunPendedPush, PushOne, benchVars
<1>2. Carrying' = Carrying
  <2>1. WorkerStep(t) /\ \A u \in Threads : u # t => pc'[u] = pc[u]
    BY WorkerMoves DEF WorkerStep
  <2>2. t \in Producers => pc[t] = "drain"
    BY DEF RunPendedPush, PlaceInv
  <2>3. t \in Producers => pc'[t] \in {"drain", "unlock"}
    BY <2>2, LockMoves DEF RunPendedPush, AfterPended, Move, lockVars
  <2> QED BY <2>1, <2>2, <2>3 DEF Carrying
<1>3. Len(queue') = Len(queue) + 1
  BY DEF RunPendedPush, PushOne
<1>4. /\ left[t] \in Nat /\ left[t] - 1 \in Nat /\ left'[t] = left[t] - 1
      /\ left \in [Threads -> Nat] /\ left' \in [Threads -> Nat]
      /\ \A u \in Threads \ {t} : left'[u] = left[u]
  BY DEF RunPendedPush, PushOne, PlaceInv
<1>5. Sum(left') + 1 = Sum(left)
  <2> HIDE DEF ControlInv, BenchTypeOK
  <2>1. /\ Sum(left) \in Nat /\ Sum(left') \in Nat
        /\ Sum(left') + left[t] = Sum(left) + left'[t]
    BY <1>4, ThreadsFinite, SumUpdate
  <2> QED BY <1>4, <2>1
<1> QED BY <1>1, <1>2, <1>3, <1>5

(* process_some moves a number of items from the queue to the count. *)
LEMMA ProcessEffect ==
  ASSUME ControlInv, ConsumerProcess
  PROVE  /\ UNCHANGED <<pending_submit, left, issued, result, stats>>
         /\ Carrying' = Carrying
         /\ Len(queue') = Len(queue) - Popped(ConsumerBudget)
         /\ processed' = processed + Popped(ConsumerBudget)
         /\ Popped(ConsumerBudget) \in 0 .. Len(queue)
         /\ Popped(ConsumerBudget) <= ConsumerBudget
<1> USE BenchAssumption DEF ControlInv
<1>1. /\ UNCHANGED <<pending_submit, left, issued, result, stats>>
      /\ processed' = processed + Popped(ConsumerBudget)
      /\ queue' = SubSeq(queue, Popped(ConsumerBudget) + 1, Len(queue))
  BY DEF ConsumerProcess, ProcessSome
<1>2. Carrying' = Carrying
  <2>1. \A u \in Threads : u # Consumer => pc'[u] = pc[u]
    BY ConsumerMoves DEF ConsumerStep
  <2> QED BY <2>1 DEF Carrying
<1> QED BY <1>1, <1>2, PoppedBounds

(* Everything else leaves all of it alone. *)
LEMMA QuietEffect ==
  ASSUME ControlInv, QuietStep, ~ \E p \in Producers : ProducerEnter(p)
  PROVE  UNCHANGED innerVars /\ UNCHANGED issued /\ Carrying' = Carrying
<1> USE BenchAssumption DEF ControlInv, BenchTypeOK
<1>1. CASE \E t \in Threads : Release(t)
  <2>1. PICK t \in Threads : Release(t)
    BY <1>1
  <2>2. /\ UNCHANGED innerVars /\ UNCHANGED issued
        /\ \A u \in Threads : u # t => pc'[u] = pc[u]
        /\ pc[t] \notin {"full", "pend"} /\ pc'[t] \notin {"full", "pend"}
    BY <2>1, ReleaseMoves DEF benchVars
  <2> QED BY <2>2 DEF Carrying
<1>2. CASE ConsumerEnter \/ ConsumerAsk \/ ConsumerPeek \/ ConsumerLook \/ ConsumerPend
  <2>1. ConsumerStep
    BY <1>2 DEF ConsumerStep
  <2>2. UNCHANGED issued /\ \A u \in Producers : pc'[u] = pc[u]
    BY <2>1, ConsumerMoves
  <2> QED BY <2>2, QuietMoves DEF Carrying
<1>3. CASE JoinProducers \/ UNCHANGED vars
  BY <1>3 DEF JoinProducers, vars, lockVars, benchVars, Carrying
<1>4. CASE FinalEnter \/ FinalRead
  <2>1. UNCHANGED issued /\ \A u \in Threads : u # Main => pc'[u] = pc[u]
    BY <1>4, LockMoves DEF FinalEnter, FinalRead, Return, LockStep, benchVars
  <2>2. \A u \in Producers : pc'[u] = pc[u]
    BY <2>1
  <2> QED BY <2>1, <2>2, QuietMoves DEF Carrying
<1> QED BY <1>1, <1>2, <1>3, <1>4 DEF QuietStep

(* ProducerAlloc only draws an id. *)
LEMMA AllocEffect ==
  ASSUME ControlInv, NEW p \in Producers, ProducerAlloc(p)
  PROVE  /\ UNCHANGED <<pending_submit, queue, left, processed, issued, result>>
         /\ Carrying' = Carrying
BY DEF ProducerAlloc, AllocId, Move, lockVars, benchVars, Carrying

(* No step loses or invents an item. *)
LEMMA LostStep ==
  ASSUME ControlInv, NothingLost, [Next]_vars
  PROVE  NothingLost'
<1> USE Quantities DEF NothingLost
<1>1. CASE \E p \in Producers : ProducerEnter(p)
  BY <1>1, EnterEffect DEF innerVars
<1>2. CASE QuietStep /\ ~ \E p \in Producers : ProducerEnter(p)
  BY <1>2, QuietEffect DEF innerVars
<1>3. CASE \E p \in Producers : ProducerAlloc(p)
  BY <1>3, AllocEffect
<1>4. CASE \E p \in Producers : ProducerPush(p)
  BY <1>4, PushEffect
<1>5. CASE \E p \in Producers : ProducerPend(p)
  BY <1>5, PendEffect
<1>6. CASE \E t \in Threads : RunPendedTake(t)
  BY <1>6, TakeEffect
<1>7. CASE \E t \in Threads : RunPendedPush(t)
  <2>1. /\ UNCHANGED <<pending_submit, processed, issued>> /\ Carrying' = Carrying
        /\ Len(queue') = Len(queue) + 1 /\ Sum(left') + 1 = Sum(left)
    BY <1>7, ReplayEffect
  <2>2. Sum(left') \in Nat
    <3>1. left' \in [Threads -> Nat]
      BY BenchTypeStep DEF BenchTypeOK
    <3> QED BY <3>1, ThreadsFinite, UnitsFinite
  <2>3. /\ Cardinality(Carrying') = Cardinality(Carrying)
        /\ Sum(issued') = Sum(issued) /\ pending_submit' = pending_submit
        /\ processed' = processed /\ Len(queue') = Len(queue) + 1 /\ Sum(left) = Sum(left') + 1
    BY <2>1, <2>2
  <2>4. Sum(issued) = Cardinality(Carrying) + pending_submit
                        + (Sum(left') + 1) + Len(queue) + processed
    BY <2>3
  <2>5. Sum(issued') = Cardinality(Carrying') + pending_submit'
                         + Sum(left') + Len(queue') + processed'
    <3>1. /\ Cardinality(Carrying) \in Nat /\ pending_submit \in Nat /\ Len(queue) \in Nat
          /\ processed \in Nat
      BY Quantities
    <3> HIDE Quantities DEF NothingLost
    <3> QED BY <2>2, <2>3, <2>4, <3>1
  <2> QED BY <2>5
<1>8. CASE ConsumerProcess
  BY <1>8, ProcessEffect
<1> QED BY <1>1, <1>2, <1>3, <1>4, <1>5, <1>6, <1>7, <1>8, BenchCases

(* The counters of the result stay in step with the content. *)
LEMMA StatsStep ==
  ASSUME ControlInv, StatsInv, [Next]_vars
  PROVE  StatsInv'
<1>0. /\ \A c \in Counters : stats[c] \in Nat
      /\ stats \in [Counters -> Nat] /\ at \in [Threads -> Places] /\ Producers \subseteq Threads
      /\ {"full_entries", "pend_entries", "direct_items", "drained_items", "drained_batches"}
            = Counters
  BY BenchAssumption DEF ControlInv, BenchTypeOK, Counters
<1>1. /\ stats["full_entries"] \in Nat /\ stats["pend_entries"] \in Nat
      /\ stats["direct_items"] \in Nat /\ stats["drained_items"] \in Nat
      /\ stats["drained_batches"] \in Nat
  BY <1>0
<1>2. CASE QuietStep
  BY <1>2, QuietMoves DEF innerVars, StatsInv
<1>3. ASSUME NEW p \in Producers, ProducerAlloc(p)
      PROVE  StatsInv'
  <2>1. \A u \in Threads : at[u] # "push"
    BY <1>0, <1>3, OnlyHolderIsInside DEF ProducerAlloc, Move, Holds
  <2>2. /\ UNCHANGED <<queue, processed, left, pending_submit>>
        /\ at'[p] = "push" /\ \A u \in Threads : u # p => at'[u] = at[u]
    BY <1>0, <1>3 DEF ProducerAlloc, AllocId, Move
  <2>3. /\ stats'["full_entries"] = stats["full_entries"] + 1
        /\ stats'["pend_entries"] = stats["pend_entries"]
        /\ stats'["direct_items"] = stats["direct_items"]
        /\ stats'["drained_items"] = stats["drained_items"]
        /\ stats'["drained_batches"] = stats["drained_batches"]
    BY <1>0, <1>3 DEF ProducerAlloc, AllocId
  <2> QED BY <1>0, <2>1, <2>2, <2>3 DEF StatsInv
<1>4. ASSUME NEW p \in Producers, ProducerPush(p)
      PROVE  StatsInv'
  <2>1. at[p] = "push" /\ Holds(p)
    BY <1>0, <1>4 DEF ProducerPush, Return, ControlInv, PlaceInv, Holds
  <2>2. at'[p] = "start" /\ \A u \in Threads : u # p => at'[u] = at[u]
    BY <1>0, <1>4 DEF ProducerPush, Return
  <2>3. \A u \in Threads : at'[u] # "push"
    BY <1>0, <2>1, <2>2, OnlyHolderIsInside
  <2>4. /\ stats'["full_entries"] = stats["full_entries"]
        /\ stats'["pend_entries"] = stats["pend_entries"]
        /\ stats'["direct_items"] = stats["direct_items"] + 1
        /\ stats'["drained_items"] = stats["drained_items"]
        /\ stats'["drained_batches"] = stats["drained_batches"]
    BY <1>0, <1>4 DEF ProducerPush, PushDirect
  <2>5. /\ stats["full_entries"] = stats["direct_items"] + 1
        /\ stats["direct_items"] + stats["drained_items"] = processed + Len(queue) + Sum(left)
        /\ stats["drained_items"] + pending_submit = stats["pend_entries"]
        /\ stats["drained_batches"] <= stats["drained_items"]
    BY <1>0, <2>1 DEF StatsInv
  <2>6. /\ pending_submit' = pending_submit /\ processed' = processed /\ left' = left
        /\ Len(queue') = Len(queue) + 1
    BY <1>4, PushEffect
  <2>7. stats'["direct_items"] + stats'["drained_items"]
          = processed' + Len(queue') + Sum(left')
    <3>1. Len(queue) \in Nat /\ processed \in Nat /\ Sum(left) \in Nat
      BY Quantities
    <3> QED BY <1>1, <2>4, <2>5, <2>6, <3>1
  <2> QED BY <2>3, <2>4, <2>5, <2>6, <2>7 DEF StatsInv
<1>5. ASSUME NEW p \in Producers, ProducerPend(p)
      PROVE  StatsInv'
  <2>1. \A u \in Threads : at'[u] = at[u]
    BY <1>0, <1>5 DEF ProducerPend, Return
  <2>2. /\ stats'["full_entries"] = stats["full_entries"]
        /\ stats'["pend_entries"] = stats["pend_entries"] + 1
        /\ stats'["direct_items"] = stats["direct_items"]
        /\ stats'["drained_items"] = stats["drained_items"]
        /\ stats'["drained_batches"] = stats["drained_batches"]
    BY <1>0, <1>5 DEF ProducerPend, RecordIntent
  <2>3. /\ pending_submit' = pending_submit + 1 /\ processed' = processed /\ left' = left
        /\ queue' = queue
    BY <1>5, PendEffect
  <2>4. stats'["drained_items"] + pending_submit' = stats'["pend_entries"]
    <3>1. pending_submit \in Nat
      BY Quantities
    <3>2. stats["drained_items"] + pending_submit = stats["pend_entries"]
      BY DEF StatsInv
    <3> QED BY <1>1, <2>2, <2>3, <3>1, <3>2
  <2> QED BY <2>1, <2>2, <2>3, <2>4 DEF StatsInv
<1>6. ASSUME NEW t \in Threads, RunPendedTake(t)
      PROVE  StatsInv'
  <2>1. at[t] # "push" /\ at'[t] # "push" /\ \A u \in Threads : u # t => at'[u] = at[u]
    BY <1>0, <1>6 DEF RunPendedTake, AfterPended, Move
  <2>2. TakePended(t) /\ BenchTypeOK
    BY <1>6 DEF RunPendedTake, ControlInv
  <2>3. /\ stats'["drained_items"] = stats["drained_items"] + pending_submit
        /\ stats'["drained_batches"] =
             stats["drained_batches"] + (IF pending_submit > 0 THEN 1 ELSE 0)
        /\ stats'["full_entries"] = stats["full_entries"]
        /\ stats'["pend_entries"] = stats["pend_entries"]
        /\ stats'["direct_items"] = stats["direct_items"]
    BY <1>0, <2>2, TakeStats
  <2>4. /\ pending_submit' = 0 /\ queue' = queue /\ processed' = processed
        /\ Sum(left') = Sum(left) + pending_submit
    BY <1>6, TakeEffect
  <2>5. /\ pending_submit \in Nat /\ Len(queue) \in Nat /\ processed \in Nat
        /\ Sum(left) \in Nat
    BY Quantities
  <2>6. /\ stats["direct_items"] + stats["drained_items"] = processed + Len(queue) + Sum(left)
        /\ stats["drained_items"] + pending_submit = stats["pend_entries"]
        /\ stats["drained_batches"] <= stats["drained_items"]
    BY DEF StatsInv
  <2>7. /\ stats'["direct_items"] + stats'["drained_items"]
            = processed' + Len(queue') + Sum(left')
        /\ stats'["drained_items"] + pending_submit' = stats'["pend_entries"]
        /\ stats'["drained_batches"] <= stats'["drained_items"]
    <3>1. stats'["direct_items"] + stats'["drained_items"]
            = processed' + Len(queue') + Sum(left')
      BY <1>1, <2>3, <2>4, <2>5, <2>6
    <3>2. stats'["drained_items"] + pending_submit' = stats'["pend_entries"]
      BY <1>1, <2>3, <2>4, <2>5, <2>6
    <3>3. stats'["drained_batches"] <= stats'["drained_items"]
      BY <1>1, <2>3, <2>5, <2>6
    <3> QED BY <3>1, <3>2, <3>3
  <2>8. /\ (\A u \in Threads : at'[u] # "push") => stats'["full_entries"] = stats'["direct_items"]
        /\ \A u \in Threads : at'[u] = "push" =>
             stats'["full_entries"] = stats'["direct_items"] + 1
    BY <2>1, <2>3 DEF StatsInv
  <2> QED BY <2>7, <2>8 DEF StatsInv
<1>7. ASSUME NEW t \in Threads, RunPendedPush(t)
      PROVE  StatsInv'
  <2>1. at[t] = "replay" /\ at'[t] # "push" /\ \A u \in Threads : u # t => at'[u] = at[u]
    BY <1>0, <1>7 DEF RunPendedPush, AfterPended, Move
  <2>2. /\ UNCHANGED <<pending_submit, processed, stats>>
        /\ Len(queue') = Len(queue) + 1 /\ Sum(left') + 1 = Sum(left)
    BY <1>7, ReplayEffect
  <2>3. Sum(left') \in Nat
    <3>1. left' \in [Threads -> Nat]
      BY BenchTypeStep DEF BenchTypeOK
    <3> QED BY <3>1, ThreadsFinite, UnitsFinite
  <2>4. processed + Len(queue) + Sum(left) = processed' + Len(queue') + Sum(left')
    <3>1. Len(queue) \in Nat /\ processed \in Nat
      BY Quantities
    <3> QED BY <2>2, <2>3, <3>1
  <2> QED BY <2>1, <2>2, <2>4 DEF StatsInv
<1>8. ASSUME ConsumerProcess
      PROVE  StatsInv'
  <2>1. \A u \in Threads : at'[u] = "push" <=> at[u] = "push"
    BY <1>0, <1>8 DEF ConsumerProcess, Move, Return
  <2>2. /\ UNCHANGED <<pending_submit, left, stats>>
        /\ Len(queue') = Len(queue) - Popped(ConsumerBudget)
        /\ processed' = processed + Popped(ConsumerBudget)
        /\ Popped(ConsumerBudget) \in Nat
    BY <1>8, ProcessEffect
  <2>3. processed + Len(queue) = processed' + Len(queue')
    BY <2>2, Quantities
  <2> QED BY <2>1, <2>2, <2>3 DEF StatsInv
<1> QED BY <1>2, <1>3, <1>4, <1>5, <1>6, <1>7, <1>8, BenchCases

-----------------------------------------------------------------------------
(* Once the producers have returned and nobody replays intents, all items  *)
(* are recorded, queued or processed.                                      *)
LEMMA AllAccounted ==
  ASSUME ControlInv, NothingLost, \A p \in Producers : ProducerReturned(p),
         \A t \in Threads : at[t] # "replay"
  PROVE  /\ Sum(left) = 0
         /\ pending_submit + Len(queue) + processed = total_ops
<1>1. Sum(left) = 0
  <2>1. left \in [Threads -> Nat]
    BY DEF ControlInv, BenchTypeOK
  <2>2. ASSUME NEW t \in Threads
        PROVE  left[t] = 0
    <3>1. left[t] \in Nat
      BY <2>1
    <3>2. ~(left[t] > 0)
      BY DEF ControlInv, PlaceInv
    <3> QED BY <3>1, <3>2
  <2> QED BY <2>1, <2>2, SumZero
<1>2. Sum(issued) = total_ops
  BY IssuedBounds DEF ControlInv, BenchTypeOK, ProducerReturned
<1>3. Cardinality(Carrying) = 0
  <2>1. Carrying = {}
    BY DEF Carrying, ProducerReturned
  <2> QED BY <2>1, FS_EmptySet
<1>4. Len(queue) \in Nat /\ processed \in Nat /\ pending_submit \in Nat
  BY Quantities
<1> QED BY <1>1, <1>2, <1>3, <1>4 DEF NothingLost

(* No intent is recorded between the reads of an exit condition that has   *)
(* seen producers_done: only producers record, and they have returned.     *)
LEMMA SeenStep ==
  ASSUME ControlInv, SeenInv, [Next]_vars
  PROVE  SeenInv'
<1> USE BenchAssumption DEF SeenInv
<1>0. at \in [Threads -> Places] /\ Consumer \in Threads
  BY DEF ControlInv, BenchTypeOK
<1>1. ASSUME NEW p \in Producers, ProducerStep(p)
      PROVE  SeenInv'
  <2>1. ~producers_done /\ UNCHANGED <<seenDone, producers_done>>
    BY <1>1, ProducerMoves DEF ControlInv, JoinInv
  <2> QED BY <2>1 DEF ControlInv, JoinInv
<1>2. CASE ConsumerPeek
  BY <1>2 DEF ConsumerPeek, innerVars
<1>3. CASE ConsumerAsk \/ ConsumerProcess
  <2>1. at'[Consumer] # "look"
    BY <1>0, <1>3 DEF ConsumerAsk, ConsumerProcess, Move, Return
  <2> QED BY <2>1
<1>4. CASE ConsumerLook \/ ConsumerPend
  <2>1. at'[Consumer] = "start"
    BY <1>0, <1>4 DEF ConsumerLook, ConsumerPend, Return
  <2> QED BY <2>1
<1>5. ASSUME NEW t \in Threads, RunPendedTake(t)
      PROVE  SeenInv'
  BY <1>5 DEF RunPendedTake, TakePended
<1>6. ASSUME NEW t \in Threads, RunPendedPush(t)
      PROVE  SeenInv'
  <2>1. /\ UNCHANGED <<pending_submit, seenDone, seenPending>>
        /\ at'[Consumer] \in {at[Consumer], "start", "process"}
    BY <1>0, <1>6 DEF RunPendedPush, PushOne, AfterPended, Move, benchVars
  <2> QED BY <2>1
<1>7. CASE ConsumerEnter \/ JoinProducers \/ FinalEnter \/ (\E t \in Threads : Release(t))
  BY <1>7 DEF ConsumerEnter, JoinProducers, FinalEnter, Release, innerVars, benchVars
<1>8. CASE FinalRead
  <2>1. /\ UNCHANGED <<pending_submit, seenDone, seenPending>>
        /\ at'[Consumer] = at[Consumer]
    BY <1>0, <1>8 DEF FinalRead, Return, innerVars
  <2> QED BY <2>1
<1>9. CASE UNCHANGED vars
  BY <1>9 DEF vars, innerVars, benchVars
<1> QED BY <1>1, <1>2, <1>3, <1>4, <1>5, <1>6, <1>7, <1>8, <1>9
        DEF Next, ConsumerStep, MainStep, WorkerStep, Terminating

(* The consumer's two exits. *)
LEMMA ExitStep ==
  ASSUME ControlInv, NothingLost, SeenInv, ConsumerExitsDone, [Next]_vars
  PROVE  ConsumerExitsDone'
<1> USE BenchAssumption
<1>1. ASSUME ConsumerProcess
      PROVE  ConsumerExitsDone'
  <2> SUFFICES ASSUME ~again' PROVE processed' = total_ops
    BY DEF ConsumerExitsDone, total_ops
  <2>1. /\ Len(queue) \in Nat /\ processed \in Nat /\ pending_submit \in Nat
        /\ Sum(left) \in Nat /\ Sum(issued) \in Nat /\ Sum(issued) <= total_ops
        /\ total_ops \in Nat /\ Cardinality(Carrying) \in Nat
    BY Quantities
  <2>2. processed + Len(queue) <= total_ops
    BY <2>1 DEF NothingLost
  <2>3. /\ processed' = processed + Popped(ConsumerBudget)
        /\ Popped(ConsumerBudget) \in 0 .. Len(queue)
    BY <1>1, ProcessEffect
  <2>4. processed' \in Nat /\ processed' <= total_ops
    BY <2>1, <2>2, <2>3
  <2>5. again' = (processed' < total_ops)
    BY <1>1 DEF ConsumerProcess
  <2>6. ~(processed' < total_ops)
    BY <2>5
  <2> QED BY <2>1, <2>4, <2>6
<1>2. ASSUME ConsumerLook
      PROVE  ConsumerExitsDone'
  <2> SUFFICES ASSUME ~again' PROVE processed' = total_ops
    BY DEF ConsumerExitsDone, total_ops
  <2>1. seenDone /\ seenPending = 0 /\ queue = <<>> /\ processed' = processed
        /\ at[Consumer] = "look"
    BY <1>2 DEF ConsumerLook, Return, innerVars
  <2>2. \A p \in Producers : ProducerReturned(p)
    BY <2>1 DEF ControlInv, JoinInv
  <2>3. Holds(Consumer)
    BY <2>1 DEF ControlInv, PlaceInv, Holds
  <2>4. \A t \in Threads : at[t] # "replay"
    BY <2>1, <2>3, OnlyHolderIsInside
  <2>5. pending_submit + Len(queue) + processed = total_ops
    BY <2>2, <2>4, AllAccounted
  <2>6. Len(queue) = 0 /\ processed \in Nat /\ pending_submit = 0
    BY <2>1, Quantities DEF SeenInv
  <2> QED BY <2>1, <2>5, <2>6
<1>3. CASE ConsumerEnter \/ ConsumerAsk \/ ConsumerPeek \/ ConsumerPend
  BY <1>3 DEF ConsumerEnter, ConsumerAsk, ConsumerPeek, ConsumerPend, benchVars, innerVars,
              ConsumerExitsDone, total_ops
<1>4. CASE \/ \E p \in Producers : ProducerEnter(p)
           \/ \E t \in Threads : Release(t)
           \/ JoinProducers \/ FinalEnter \/ FinalRead \/ UNCHANGED vars
  BY <1>4 DEF ProducerEnter, Release, JoinProducers, FinalEnter, FinalRead, vars,
              benchVars, innerVars, ConsumerExitsDone, total_ops
<1>5. CASE \E p \in Producers : ProducerAlloc(p) \/ ProducerPush(p) \/ ProducerPend(p)
  BY <1>5 DEF ProducerAlloc, AllocId, ProducerPush, PushDirect, ProducerPend, RecordIntent,
              benchVars, ConsumerExitsDone, total_ops
<1>6. CASE \E t \in Threads : RunPendedTake(t) \/ RunPendedPush(t)
  BY <1>6 DEF RunPendedTake, TakePended, RunPendedPush, PushOne, benchVars,
              ConsumerExitsDone, total_ops
<1> QED BY <1>1, <1>2, <1>3, <1>4, <1>5, <1>6, BenchCases DEF QuietStep

(* What the main thread reads in its final access. *)
LEMMA FinalContent ==
  ASSUME ControlInv, NothingLost, StatsInv, ConsumerExitsDone, FinalRead
  PROVE  /\ processed = total_ops /\ pending_submit = 0 /\ Len(queue) = 0
         /\ stats["full_entries"] + stats["pend_entries"] = total_ops
         /\ stats["direct_items"] = stats["full_entries"]
         /\ stats["drained_items"] = stats["pend_entries"]
         /\ stats["drained_batches"] <= stats["drained_items"]
<1> USE BenchAssumption
<1>1. pc[Main] = "full" /\ at[Main] = "start"
  BY DEF FinalRead, Return
<1>2. \A t \in Threads : at[t] = "start"
  <2>1. Holds(Main)
    BY <1>1 DEF Holds
  <2> QED BY <1>1, <2>1, OnlyHolderIsInside
<1>3. ~again /\ \A p \in Producers : ProducerReturned(p)
  BY <1>1 DEF ControlInv, JoinInv, ConsumerReturned
<1>4. processed = total_ops
  BY <1>3 DEF ConsumerExitsDone
<1>5. Sum(left) = 0 /\ pending_submit + Len(queue) + processed = total_ops
  BY <1>2, <1>3, AllAccounted
<1>6. /\ Len(queue) \in Nat /\ processed \in Nat /\ pending_submit \in Nat
      /\ total_ops \in Nat
  BY Quantities
<1>7. pending_submit = 0 /\ Len(queue) = 0
  BY <1>4, <1>5, <1>6
<1>8. /\ stats["full_entries"] \in Nat /\ stats["pend_entries"] \in Nat
      /\ stats["direct_items"] \in Nat /\ stats["drained_items"] \in Nat
  BY DEF ControlInv, BenchTypeOK, Counters
<1>9. /\ stats["direct_items"] + stats["drained_items"] = processed + Len(queue) + Sum(left)
      /\ stats["drained_items"] + pending_submit = stats["pend_entries"]
      /\ stats["full_entries"] = stats["direct_items"]
      /\ stats["drained_batches"] <= stats["drained_items"]
  BY <1>2 DEF StatsInv
<1>10. stats["drained_items"] = stats["pend_entries"]
  BY <1>7, <1>8, <1>9
<1>11. stats["full_entries"] + stats["pend_entries"] = total_ops
  BY <1>4, <1>5, <1>6, <1>7, <1>8, <1>9, <1>10
<1> QED BY <1>4, <1>7, <1>9, <1>10, <1>11

(* The result is written once, by that access. *)
LEMMA ResultFrozen ==
  ASSUME ControlInv, [Next]_vars, ~FinalRead
  PROVE  result' = result
<1>1. CASE \E p \in Producers : ProducerStep(p)
  BY <1>1, ProducerMoves DEF ControlInv
<1>2. CASE ConsumerStep
  BY <1>2, ConsumerMoves DEF ControlInv
<1>3. CASE WorkerStep(Main)
  BY <1>3, WorkerMoves, BenchAssumption DEF ControlInv, benchVars
<1>4. CASE JoinProducers \/ FinalEnter \/ UNCHANGED vars
  BY <1>4 DEF JoinProducers, FinalEnter, vars, benchVars
<1> QED BY <1>1, <1>2, <1>3, <1>4 DEF Next, MainStep, Terminating

(* So the assertions after the join hold in every later state. *)
LEMMA ResultStep ==
  ASSUME ControlInv, NothingLost, StatsInv, ConsumerExitsDone, ResultIsRight, [Next]_vars
  PROVE  ResultIsRight'
<1>1. CASE FinalRead
  <2>1. result' = [processed |-> processed, pending |-> pending_submit,
                   queue_left |-> Len(queue), stats |-> stats, read |-> TRUE]
    BY <1>1 DEF FinalRead
  <2>2. /\ result'.processed = processed /\ result'.pending = pending_submit
        /\ result'.queue_left = Len(queue) /\ result'.stats = stats
    BY <2>1
  <2> QED BY <1>1, <2>2, FinalContent DEF ResultIsRight, total_ops
<1>2. CASE ~FinalRead
  BY <1>2, ResultFrozen DEF ResultIsRight, total_ops
<1> QED BY <1>1, <1>2

-----------------------------------------------------------------------------
(* BenchInv holds initially. *)
LEMMA BenchInvInit == Init => BenchInv
<1> SUFFICES ASSUME Init PROVE BenchInv
  OBVIOUS
<1> USE BenchAssumption DEF Init
<1>1. LockTypeOK /\ LockInv
  BY LockInitial
<1>2. /\ queue \in Seq(Nat) /\ Len(queue) = 0 /\ pending_submit = 0 /\ processed = 0
      /\ next_id = 1 /\ queueOwner = NoThread
  BY EmptySeq DEF InnerInit
<1>3. stats \in [Counters -> Nat] /\ \A c \in Counters : stats[c] = 0
  BY DEF InnerInit
<1>4. /\ id \in [Threads -> Nat] /\ left \in [Threads -> Nat]
      /\ \A t \in Threads : left[t] = 0
  BY DEF InnerInit
<1>5. /\ issued \in [Producers -> 0 .. OpsPerProducer] /\ issued \in [Producers -> Nat]
      /\ \A p \in Producers : issued[p] = 0
  OBVIOUS
<1>6. at \in [Threads -> Places] /\ \A t \in Threads : at[t] = "start"
  BY DEF Places
<1>7. \A t \in Threads : pc[t] = "idle"
  BY DEF LockInit
<1>8. again = TRUE /\ seenDone = FALSE /\ producers_done = FALSE /\ result.read = FALSE
      /\ seenPending = 0 /\ seenPending \in Nat
  BY DEF NoResult
<1>9. BenchTypeOK
  BY <1>1, <1>2, <1>3, <1>4, <1>5, <1>6, <1>8 DEF BenchTypeOK
<1>10. PlaceInv /\ JoinInv
  BY <1>2, <1>4, <1>6, <1>7, <1>8 DEF PlaceInv, JoinInv, FinalAccessIsFull
<1>11. Sum(left) = 0 /\ Sum(issued) = 0 /\ Cardinality(Carrying) = 0
  <2>1. Carrying = {}
    BY <1>7 DEF Carrying
  <2> QED BY <1>4, <1>5, <2>1, SumZero, FS_EmptySet
<1>12. IdInv
  BY <1>2, <1>6 DEF IdInv
<1>13. NothingLost
  BY <1>2, <1>11 DEF NothingLost
<1>14. StatsInv
  BY <1>2, <1>3, <1>6, <1>11 DEF StatsInv, Counters
<1>15. ConsumerExitsDone /\ ResultIsRight /\ SeenInv
  BY <1>8 DEF ConsumerExitsDone, ResultIsRight, SeenInv
<1> QED BY <1>1, <1>9, <1>10, <1>12, <1>13, <1>14, <1>15 DEF BenchInv, ControlInv

(* BenchInv always holds. *)
LEMMA BenchInvAlways == Spec => []BenchInv
<1>1. Init => BenchInv
  BY BenchInvInit
<1>2. BenchInv /\ [Next]_vars => BenchInv'
  <2> SUFFICES ASSUME BenchInv, [Next]_vars PROVE BenchInv'
    OBVIOUS
  <2>1. ControlInv'
    <3>1. LockTypeOK' /\ LockInv'
      BY BenchLockInv DEF BenchInv, ControlInv, BenchTypeOK
    <3> QED BY <3>1, BenchTypeStep, PlaceStep, JoinStep DEF BenchInv, ControlInv
  <2>2. IdInv' /\ NothingLost' /\ StatsInv' /\ SeenInv'
    BY IdStep, LostStep, StatsStep, SeenStep DEF BenchInv
  <2>3. ConsumerExitsDone' /\ ResultIsRight'
    BY ExitStep, ResultStep DEF BenchInv
  <2> QED BY <2>1, <2>2, <2>3 DEF BenchInv
<1> QED BY <1>1, <1>2, PTL DEF Spec

(* The queue's Mutex is never contended: whoever comes to lock it holds    *)
(* the soft lock, and so does whoever holds the Mutex across steps.        *)
THEOREM BenchMutexIsFree == Spec => []QueueNeverContended
<1>1. BenchInv => QueueNeverContended
  <2> SUFFICES ASSUME BenchInv, NEW t \in Threads, WantsQueue(t), queueOwner # NoThread
               PROVE  queueOwner = t
    BY DEF QueueNeverContended, MayLockQueue
  <2>1. at[t] \in Places
    BY DEF BenchInv, ControlInv, BenchTypeOK
  <2>2. Holds(t)
    BY <2>1 DEF BenchInv, ControlInv, PlaceInv, WantsQueue, Holds
  <2>3. queueOwner \in Threads /\ at[queueOwner] = "replay"
    BY DEF BenchInv, ControlInv, BenchTypeOK, PlaceInv
  <2> QED BY <2>2, <2>3, OnlyHolderIsInside DEF BenchInv
<1> QED BY <1>1, BenchInvAlways, PTL

(* Ids reach the queue in the order they are drawn and without a gap,      *)
(* though submit_direct draws its id before it takes the queue's Mutex.    *)
THEOREM BenchIdsInOrder == Spec => []IdsInOrder
<1>1. BenchInv => IdsInOrder
  <2> SUFFICES ASSUME BenchInv PROVE IdsInOrder
    OBVIOUS
  <2>1. DOMAIN queue = 1 .. Len(queue)
    BY LenProperties DEF BenchInv, ControlInv, BenchTypeOK
  <2> QED BY <2>1 DEF BenchInv, IdInv, IdsInOrder
<1> QED BY <1>1, BenchInvAlways, PTL

(* No submission is lost or doubled between the pend counter, a batch      *)
(* being replayed, the queue and the processed count.                      *)
THEOREM BenchLosesNothing == Spec => []NothingLost
<1>1. BenchInv => NothingLost
  BY DEF BenchInv
<1> QED BY <1>1, BenchInvAlways, PTL

(* The consumer leaves its loop only when everything has been processed.   *)
THEOREM BenchConsumerExits == Spec => []ConsumerExitsDone
<1>1. BenchInv => ConsumerExitsDone
  BY DEF BenchInv
<1> QED BY <1>1, BenchInvAlways, PTL

(* unreachable!("all workers joined") is unreachable. *)
THEOREM BenchFinalIsFull == Spec => []FinalAccessIsFull
<1>1. BenchInv => FinalAccessIsFull
  BY DEF BenchInv, ControlInv, JoinInv
<1> QED BY <1>1, BenchInvAlways, PTL

(* The assertions after the join hold, and the printed counters agree.     *)
THEOREM BenchResult == Spec => []ResultIsRight
<1>1. BenchInv => ResultIsRight
  BY DEF BenchInv
<1> QED BY <1>1, BenchInvAlways, PTL

-----------------------------------------------------------------------------
(* What a submission needs: the item carried is one of total_ops. *)
LEMMA RoomForOne ==
  ASSUME ControlInv, NothingLost, NEW p \in Producers, p \in Carrying
  PROVE  pending_submit + Sum(left) + Len(queue) + processed < total_ops
<1>1. /\ Len(queue) \in Nat /\ processed \in Nat /\ pending_submit \in Nat
      /\ Sum(left) \in Nat /\ Sum(issued) \in Nat /\ Sum(issued) <= total_ops
      /\ total_ops \in Nat /\ IsFiniteSet(Carrying) /\ Cardinality(Carrying) \in Nat
  BY Quantities
<1>2. Cardinality(Carrying) >= 1
  BY <1>1, FS_EmptySet
<1>3. Sum(issued) = Cardinality(Carrying) + pending_submit + Sum(left) + Len(queue) + processed
  BY DEF NothingLost
<1> QED BY <1>1, <1>2, <1>3

(* submit_direct's push_back and pend_submit submit, what the consumer     *)
(* pops is processed, the final access finishes, and taking and replaying  *)
(* intents only moves items that wait.                                     *)
LEMMA BenchStepRefines ==
  ASSUME BenchInv, [Next]_vars
  PROVE  [Queue!Next]_(Queue!vars)
<1> USE DEF Queue!vars
<1>0. /\ Len(queue) \in Nat /\ processed \in Nat /\ pending_submit \in Nat
      /\ Sum(left) \in Nat /\ total_ops \in Nat
  BY Quantities DEF BenchInv
<1>1. ASSUME NEW p \in Producers, ProducerPush(p)
      PROVE  Queue!Submit
  <2>1. p \in Carrying
    BY <1>1 DEF ProducerPush, Return, BenchInv, ControlInv, PlaceInv, Carrying, OpReturned, Goto
  <2>2. pending_submit + Sum(left) + Len(queue) + processed < total_ops
    BY <2>1, RoomForOne DEF BenchInv
  <2>3. /\ pending_submit' = pending_submit /\ left' = left /\ processed' = processed
        /\ result' = result /\ Len(queue') = Len(queue) + 1
    BY <1>1, PushEffect DEF BenchInv
  <2> QED BY <1>0, <2>2, <2>3 DEF Queue!Submit
<1>2. ASSUME NEW p \in Producers, ProducerPend(p)
      PROVE  Queue!Submit
  <2>1. p \in Carrying
    BY <1>2 DEF ProducerPend, Carrying
  <2>2. pending_submit + Sum(left) + Len(queue) + processed < total_ops
    BY <2>1, RoomForOne DEF BenchInv
  <2>3. /\ pending_submit' = pending_submit + 1 /\ left' = left /\ processed' = processed
        /\ result' = result /\ queue' = queue
    BY <1>2, PendEffect DEF BenchInv
  <2> QED BY <1>0, <2>2, <2>3 DEF Queue!Submit
<1>3. ASSUME ConsumerProcess
      PROVE  Queue!Process \/ UNCHANGED Queue!vars
  <2> DEFINE k == Popped(ConsumerBudget)
  <2>1. /\ pending_submit' = pending_submit /\ left' = left /\ result' = result
        /\ Len(queue') = Len(queue) - k /\ processed' = processed + k
        /\ k \in 0 .. Len(queue) /\ k <= ConsumerBudget
    BY <1>3, ProcessEffect DEF BenchInv
  <2> HIDE DEF k
  <2>2. CASE k = 0
    BY <1>0, <2>1, <2>2
  <2>3. CASE k # 0
    <3>1. k \in 1 .. ConsumerBudget /\ k <= pending_submit + Sum(left) + Len(queue)
      BY <1>0, <2>1, <2>3, BenchAssumption
    <3>2. pending_submit' + Sum(left') + Len(queue')
            = (pending_submit + Sum(left) + Len(queue)) - k
      BY <1>0, <2>1
    <3>3. \E n \in 1 .. ConsumerBudget :
            /\ n <= pending_submit + Sum(left) + Len(queue)
            /\ pending_submit' + Sum(left') + Len(queue')
                 = (pending_submit + Sum(left) + Len(queue)) - n
            /\ processed' = processed + n
            /\ result'.read = result.read
      BY <2>1, <3>1, <3>2
    <3> QED BY <3>3, Zenon DEF Queue!Process
  <2> QED BY <2>2, <2>3
<1>4. ASSUME FinalRead
      PROVE  Queue!Finish
  <2>1. processed = total_ops
    BY <1>4, FinalContent DEF BenchInv
  <2>2. UNCHANGED innerVars /\ result'.read = TRUE
    BY <1>4 DEF FinalRead
  <2> QED BY <2>1, <2>2 DEF Queue!Finish, innerVars
<1>5. ASSUME NEW t \in Threads, RunPendedTake(t)
      PROVE  UNCHANGED Queue!vars
  <2>1. /\ queue' = queue /\ processed' = processed /\ result' = result
        /\ pending_submit' = 0 /\ Sum(left') = Sum(left) + pending_submit
    BY <1>5, TakeEffect DEF BenchInv
  <2> QED BY <1>0, <2>1
<1>6. ASSUME NEW t \in Threads, RunPendedPush(t)
      PROVE  UNCHANGED Queue!vars
  <2>1. /\ pending_submit' = pending_submit /\ processed' = processed /\ result' = result
        /\ Len(queue') = Len(queue) + 1 /\ Sum(left') + 1 = Sum(left)
    BY <1>6, ReplayEffect DEF BenchInv
  <2>2. Sum(left') \in Nat
    <3>1. left' \in [Threads -> Nat]
      BY BenchTypeStep DEF BenchInv, BenchTypeOK
    <3> QED BY <3>1, ThreadsFinite, UnitsFinite
  <2> QED BY <1>0, <2>1, <2>2
<1>7. ASSUME \E p \in Producers : ProducerAlloc(p)
      PROVE  UNCHANGED Queue!vars
  BY <1>7, AllocEffect DEF BenchInv
<1>8. ASSUME QuietStep, ~FinalRead
      PROVE  UNCHANGED Queue!vars
  BY <1>8, QuietMoves, ResultFrozen DEF BenchInv, innerVars
<1> QED BY <1>1, <1>2, <1>3, <1>4, <1>5, <1>6, <1>7, <1>8, BenchCases DEF Queue!Next

(* The soft lock benchmark is a work queue, for any producers, items and   *)
(* budget: though intents take a detour through a counter that threads     *)
(* race for, nothing is processed that was not submitted, never more than  *)
(* the budget at once, and the result is reported when all is processed.   *)
THEOREM BenchRefinesWorkQueue == Spec => ImplementsWorkQueue
<1>1. Init => Queue!Init
  <2> SUFFICES ASSUME Init PROVE Queue!Init
    OBVIOUS
  <2>1. pending_submit = 0 /\ Len(queue) = 0 /\ processed = 0 /\ result.read = FALSE
    BY EmptySeq DEF Init, InnerInit, NoResult
  <2>2. Sum(left) = 0
    <3>1. left \in [Threads -> Nat] /\ \A t \in Threads : left[t] = 0
      BY DEF Init, InnerInit
    <3> QED BY <3>1, SumZero
  <2> QED BY <2>1, <2>2 DEF Queue!Init
<1>2. BenchInv /\ [Next]_vars => [Queue!Next]_(Queue!vars)
  BY BenchStepRefines
<1> QED BY <1>1, <1>2, BenchInvAlways, PTL DEF Spec, ImplementsWorkQueue, Queue!Spec

=============================================================================

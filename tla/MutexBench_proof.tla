-------------------------- MODULE MutexBench_proof --------------------------
(***************************************************************************)
(* Proofs about MutexBench, for every set of producers and every number of *)
(* items and every budget: the consumer's exit, the assertions after the   *)
(* joins, and the refinement of WorkQueue.                                 *)
(***************************************************************************)
EXTENDS MutexBench, FiniteSetTheorems, SequenceTheorems, TLAPS

-----------------------------------------------------------------------------
(* Types. *)
MutexTypeOK ==
  /\ owner \in Producers \cup {Consumer, NoThread}
  /\ queue \in Seq(Nat)
  /\ next_id \in Nat
  /\ processed \in Nat
  /\ issued \in [Producers -> 0 .. OpsPerProducer]
  /\ at \in {"lock", "process", "ask", "exited"}
  /\ producers_done \in BOOLEAN

(* The iterations done, of all there are.  Their number is a sum over the  *)
(* producers, stated as a cardinality so that one push adds one element.   *)
AllIterations == Producers \X (1 .. OpsPerProducer)

Done == {i \in AllIterations : i[2] <= issued[i[1]]}

(* Every push is in the queue or processed. *)
NothingLost == Cardinality(Done) = processed + Len(queue)

(* The Mutex is the consumer's exactly while it works on the queue, and a  *)
(* producer that has it still has an item to push.                         *)
OwnerBusy ==
  /\ owner = Consumer <=> at \in {"process", "ask"}
  /\ \A p \in Producers : owner = p => issued[p] < OpsPerProducer

DoneIsTrue ==
  producers_done => \A p \in Producers : issued[p] = OpsPerProducer

MutexInv == /\ MutexTypeOK
            /\ NothingLost
            /\ OwnerBusy
            /\ DoneIsTrue
            /\ ConsumerExitsDone

-----------------------------------------------------------------------------
(* There are total_ops iterations, and never more than that are done. *)
LEMMA AllIterationsCount ==
  /\ IsFiniteSet(AllIterations)
  /\ Cardinality(AllIterations) = total_ops
  /\ total_ops \in Nat
<1>1. IsFiniteSet(1 .. OpsPerProducer) /\ Cardinality(1 .. OpsPerProducer) = OpsPerProducer
  BY MutexAssumption, FS_Interval
<1>2. IsFiniteSet(AllIterations)
      /\ Cardinality(AllIterations) = Cardinality(Producers) * OpsPerProducer
  BY <1>1, MutexAssumption, FS_Product DEF AllIterations
<1>3. Cardinality(AllIterations) \in Nat
  BY <1>2, FS_CardinalityType
<1> QED BY <1>2, <1>3 DEF total_ops

(* Any set of iterations is finite and no larger than all of them. *)
LEMMA DoneCount ==
  ASSUME NEW D \in SUBSET AllIterations
  PROVE  /\ IsFiniteSet(D)
         /\ Cardinality(D) \in Nat
         /\ Cardinality(D) <= total_ops
<1>1. IsFiniteSet(D) /\ Cardinality(D) <= Cardinality(AllIterations)
  BY AllIterationsCount, FS_Subset
<1>2. Cardinality(D) \in Nat
  BY <1>1, FS_CardinalityType
<1> QED BY <1>1, <1>2, AllIterationsCount

(* The iterations done are some of all, before a step and after it. *)
LEMMA DoneIsSome == Done \in SUBSET AllIterations /\ Done' \in SUBSET AllIterations
BY DEF Done

(* When every producer has returned, all iterations are done. *)
LEMMA AllDone ==
  ASSUME MutexTypeOK, \A p \in Producers : issued[p] = OpsPerProducer
  PROVE  Cardinality(Done) = total_ops
<1>1. Done = AllIterations
  BY MutexAssumption DEF Done, AllIterations
<1> QED BY <1>1, AllIterationsCount

(* A push completes one iteration more. *)
LEMMA PushCounts ==
  ASSUME MutexTypeOK, OwnerBusy, NEW p \in Producers, ProducerPush(p)
  PROVE  Cardinality(Done') = Cardinality(Done) + 1
<1> DEFINE new == <<p, issued[p] + 1>>
<1>1. issued[p] \in Nat /\ issued[p] < OpsPerProducer
  BY MutexAssumption DEF ProducerPush, OwnerBusy, MutexTypeOK
<1>2. new \in AllIterations /\ new \notin Done
  BY <1>1, MutexAssumption DEF AllIterations, Done
<1>3. ASSUME NEW i \in AllIterations
      PROVE  i[2] <= issued'[i[1]] <=> i[2] <= issued[i[1]] \/ i = new
  <2>1. i[1] \in Producers /\ i[2] \in Nat /\ i = <<i[1], i[2]>>
    BY <1>3, MutexAssumption DEF AllIterations
  <2>2. issued' = [issued EXCEPT ![p] = @ + 1]
    BY DEF ProducerPush
  <2>3. CASE i[1] = p
    BY <1>1, <2>1, <2>2, <2>3 DEF MutexTypeOK
  <2>4. CASE i[1] # p
    BY <2>1, <2>2, <2>4 DEF MutexTypeOK
  <2> QED BY <2>3, <2>4
<1>4. Done' = Done \cup {new}
  BY <1>2, <1>3 DEF Done
<1> QED BY <1>2, <1>4, DoneIsSome, DoneCount, FS_AddElement

(* What the consumer pops is at most its budget and at most the queue. *)
LEMMA PoppedBounds ==
  ASSUME MutexTypeOK
  PROVE  /\ Popped \in Nat /\ Popped <= Len(queue) /\ Popped <= ConsumerBudget
         /\ SubSeq(queue, Popped + 1, Len(queue)) \in Seq(Nat)
         /\ Len(SubSeq(queue, Popped + 1, Len(queue))) = Len(queue) - Popped
<1>1. Len(queue) \in Nat /\ \A i \in 1 .. Len(queue) : queue[i] \in Nat
  BY LenProperties, ElementOfSeq DEF MutexTypeOK
<1>2. Popped \in Nat /\ Popped <= Len(queue) /\ Popped <= ConsumerBudget
  BY <1>1, MutexAssumption DEF Popped
<1>3. Popped + 1 \in Int /\ Len(queue) \in Int
      /\ \A i \in Popped + 1 .. Len(queue) : queue[i] \in Nat
  BY <1>1, <1>2
<1>4. SubSeq(queue, Popped + 1, Len(queue)) \in Seq(Nat)
      /\ Len(SubSeq(queue, Popped + 1, Len(queue)))
           = IF Popped + 1 <= Len(queue) THEN Len(queue) - (Popped + 1) + 1 ELSE 0
  BY <1>3, SubSeqProperties
<1> QED BY <1>1, <1>2, <1>4

-----------------------------------------------------------------------------
(* MutexInv holds initially. *)
LEMMA MutexInvInit == Init => MutexInv
<1> SUFFICES ASSUME Init PROVE MutexInv
  OBVIOUS
<1> USE MutexAssumption DEF Init
<1>1. MutexTypeOK
  <2>1. queue \in Seq(Nat)
    BY EmptySeq
  <2>2. issued \in [Producers -> 0 .. OpsPerProducer]
    OBVIOUS
  <2>3. producers_done \in BOOLEAN /\ at \in {"lock", "process", "ask", "exited"}
    OBVIOUS
  <2> QED BY <2>1, <2>2, <2>3 DEF MutexTypeOK
<1>2. Done = {}
  BY DEF Done, AllIterations
<1>3. NothingLost
  BY <1>2, FS_EmptySet DEF NothingLost
<1> QED BY <1>1, <1>3 DEF MutexInv, OwnerBusy, DoneIsTrue, ConsumerExitsDone

(* Every step keeps it. *)
LEMMA MutexInvStep ==
  ASSUME MutexInv, [Next]_vars
  PROVE  MutexInv'
<1> USE MutexAssumption DEF MutexInv, MutexTypeOK
<1>0. Len(queue) \in Nat
  BY LenProperties
<1>1. ASSUME issued' = issued PROVE Done' = Done
  BY <1>1 DEF Done
<1>2. ASSUME NEW p \in Producers, ProducerLock(p)
      PROVE  MutexInv'
  BY <1>1, <1>2 DEF ProducerLock, NothingLost, OwnerBusy, DoneIsTrue, ConsumerExitsDone
<1>3. ASSUME NEW p \in Producers, ProducerPush(p)
      PROVE  MutexInv'
  <2>1. MutexTypeOK'
    BY <1>3 DEF ProducerPush, OwnerBusy
  <2>2. NothingLost'
    <3>1. Len(queue') = Len(queue) + 1 /\ processed' = processed
      BY <1>3 DEF ProducerPush
    <3> QED BY <1>0, <1>3, <3>1, PushCounts DEF NothingLost
  <2>3. OwnerBusy'
    BY <1>3 DEF ProducerPush, OwnerBusy
  <2>4. DoneIsTrue'
    BY <1>3 DEF ProducerPush, OwnerBusy, DoneIsTrue
  <2>5. ConsumerExitsDone'
    BY <1>3 DEF ProducerPush, ConsumerExitsDone
  <2> QED BY <2>1, <2>2, <2>3, <2>4, <2>5
<1>4. ASSUME ConsumerLock
      PROVE  MutexInv'
  BY <1>1, <1>4 DEF ConsumerLock, NothingLost, OwnerBusy, DoneIsTrue, ConsumerExitsDone
<1>5. ASSUME ConsumerProcess
      PROVE  MutexInv'
  <2>0. /\ Popped \in Nat /\ Popped <= Len(queue)
        /\ queue' \in Seq(Nat) /\ Len(queue') = Len(queue) - Popped
        /\ processed' = processed + Popped
    <3>1. queue' = SubSeq(queue, Popped + 1, Len(queue)) /\ processed' = processed + Popped
      BY <1>5 DEF ConsumerProcess
    <3> QED BY <3>1, PoppedBounds
  <2>1. MutexTypeOK' /\ Len(queue') = Len(queue) - Popped /\ processed' = processed + Popped
    BY <1>5, <2>0 DEF ConsumerProcess
  <2>2. NothingLost'
    BY <1>0, <1>1, <1>5, <2>1, PoppedBounds DEF ConsumerProcess, NothingLost
  <2>3. processed' <= total_ops
    <3>1. Len(queue') \in Nat /\ processed' \in Nat
      BY <2>1, LenProperties
    <3>2. Cardinality(Done') <= total_ops
      BY DoneCount, DoneIsSome
    <3> QED BY <2>2, <3>1, <3>2, AllIterationsCount DEF NothingLost
  <2>4. ConsumerExitsDone'
    BY <1>5, <2>1, <2>3, AllIterationsCount DEF ConsumerProcess, ConsumerExitsDone
  <2> QED BY <1>5, <2>1, <2>2, <2>4 DEF ConsumerProcess, OwnerBusy, DoneIsTrue
<1>6. ASSUME ConsumerAsk
      PROVE  MutexInv'
  <2>1. producers_done /\ queue = <<>> => processed = total_ops
    BY AllDone, EmptySeq DEF DoneIsTrue, NothingLost
  <2>2. ConsumerExitsDone'
    BY <1>6, <2>1 DEF ConsumerAsk, ConsumerExitsDone, total_ops
  <2> QED BY <1>1, <1>6, <2>2 DEF ConsumerAsk, NothingLost, OwnerBusy, DoneIsTrue
<1>7. ASSUME MainStep
      PROVE  MutexInv'
  BY <1>1, <1>7 DEF MainStep, JoinProducers, FinalRead, NothingLost, OwnerBusy,
                    DoneIsTrue, ConsumerExitsDone
<1>8. CASE UNCHANGED vars
  BY <1>1, <1>8 DEF vars, NothingLost, OwnerBusy, DoneIsTrue, ConsumerExitsDone
<1> QED BY <1>2, <1>3, <1>4, <1>5, <1>6, <1>7, <1>8
        DEF Next, ProducerStep, ConsumerStep, Terminating

(* MutexInv always holds. *)
LEMMA MutexInvAlways == Spec => []MutexInv
<1>1. Init => MutexInv
  BY MutexInvInit
<1>2. MutexInv /\ [Next]_vars => MutexInv'
  BY MutexInvStep
<1> QED BY <1>1, <1>2, PTL DEF Spec

(* The consumer of the Mutex benchmark leaves its loop only when every     *)
(* item has been processed, though producers_done is set by another thread *)
(* than the ones that fill the queue.                                      *)
THEOREM MutexConsumerExits == Spec => []ConsumerExitsDone
<1>1. MutexInv => ConsumerExitsDone
  BY DEF MutexInv
<1> QED BY <1>1, MutexInvAlways, PTL

-----------------------------------------------------------------------------
(* Every step is a step of the abstract queue or changes nothing there: a  *)
(* push submits, a turn of the consumer that pops something processes, and *)
(* the final read finishes.                                                *)
LEMMA MutexStepRefines ==
  ASSUME MutexInv, [Next]_vars
  PROVE  [Queue!Next]_(Queue!vars)
<1> USE DEF Queue!vars
<1>0. Len(queue) \in Nat /\ processed \in Nat
  BY LenProperties DEF MutexInv, MutexTypeOK
<1>1. ASSUME NEW p \in Producers, ProducerPush(p)
      PROVE  Queue!Submit
  <2>1. Len(queue') = Len(queue) + 1 /\ UNCHANGED <<processed, result>>
    BY <1>1 DEF ProducerPush, MutexInv, MutexTypeOK
  <2>2. Cardinality(Done') <= total_ops
    BY DoneCount, DoneIsSome
  <2>3. Len(queue) + processed + 1 <= total_ops
    BY <1>0, <1>1, <2>2, PushCounts DEF MutexInv, NothingLost
  <2> QED BY <1>0, <2>1, <2>3, AllIterationsCount DEF Queue!Submit
<1>2. ASSUME ConsumerProcess
      PROVE  Queue!Process \/ UNCHANGED Queue!vars
  <2>1. /\ Len(queue') = Len(queue) - Popped
        /\ processed' = processed + Popped
        /\ UNCHANGED result
    BY <1>2, PoppedBounds DEF ConsumerProcess, MutexInv
  <2>2. Popped \in 0 .. ConsumerBudget /\ Popped <= Len(queue)
    BY MutexAssumption, PoppedBounds DEF MutexInv
  <2>3. CASE Popped = 0
    BY <1>0, <2>1, <2>3
  <2>4. CASE Popped # 0
    BY <1>0, <2>1, <2>2, <2>4, MutexAssumption DEF Queue!Process
  <2> QED BY <2>3, <2>4
<1>3. ASSUME FinalRead
      PROVE  Queue!Finish
  BY <1>3 DEF FinalRead, MutexInv, ConsumerExitsDone, Queue!Finish
<1>4. CASE \/ \E p \in Producers : ProducerLock(p)
           \/ ConsumerLock \/ ConsumerAsk \/ JoinProducers \/ UNCHANGED vars
  BY <1>4 DEF ProducerLock, ConsumerLock, ConsumerAsk, JoinProducers, vars
<1> QED BY <1>1, <1>2, <1>3, <1>4
        DEF Next, ProducerStep, ConsumerStep, MainStep, Terminating, Queue!Next

(* The Mutex benchmark is a work queue, for any producers, items and       *)
(* budget: it never processes an item that was not submitted, never more   *)
(* than the budget at once, and reports only when all are processed.       *)
THEOREM MutexRefinesWorkQueue == Spec => ImplementsWorkQueue
<1>1. Init => Queue!Init
  BY DEF Init, Queue!Init
<1>2. MutexInv /\ [Next]_vars => [Queue!Next]_(Queue!vars)
  BY MutexStepRefines
<1> QED BY <1>1, <1>2, MutexInvAlways, PTL DEF Spec, ImplementsWorkQueue, Queue!Spec

=============================================================================

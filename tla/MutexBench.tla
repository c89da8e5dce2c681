----------------------------- MODULE MutexBench -----------------------------
(***************************************************************************)
(* run_mutex_bench (main.rs 258-276 and 384-460): the same work as in      *)
(* SoftLockBench with the queue behind a plain Mutex.                      *)
(*                                                                         *)
(* Left out: the two lock counters, which are only printed, and what only  *)
(* takes time (spin_n, yield_now, Instant).                                *)
(***************************************************************************)
EXTENDS Naturals, Sequences, FiniteSets

CONSTANTS Producers, Consumer, NoThread,
          OpsPerProducer,         \* Scenario.ops_per_producer
          ConsumerBudget          \* Scenario.consumer_budget

ASSUME MutexAssumption ==
  /\ Consumer \notin Producers /\ NoThread \notin Producers \cup {Consumer}
  /\ IsFiniteSet(Producers)
  /\ OpsPerProducer \in Nat /\ ConsumerBudget \in Nat

VARIABLES
  owner,                  \* holder of the queue's Mutex, or NoThread
  queue, next_id, processed,
  issued,                 \* pushes of each producer
  at,                     \* the consumer: "lock", "process", "ask", "exited"
  producers_done,
  result                  \* <<processed, queue_left>> once read, else <<>>

vars == <<owner, queue, next_id, processed, issued, at, producers_done, result>>

total_ops == Cardinality(Producers) * OpsPerProducer

(* MutexInner::new and the start of run_mutex_bench *)
Init ==
  /\ owner = NoThread
  /\ queue = <<>>
  /\ next_id = 1
  /\ processed = 0
  /\ issued = [p \in Producers |-> 0]
  /\ at = "lock"
  /\ producers_done = FALSE
  /\ result = <<>>

-----------------------------------------------------------------------------
(* Mutants. *)

ConsumerProcessOneMore ==     \* 0..=consumer_budget
  /\ at = "process"
  /\ LET n == IF Len(queue) <= ConsumerBudget THEN Len(queue) ELSE ConsumerBudget + 1
     IN /\ queue' = SubSeq(queue, n + 1, Len(queue))
        /\ processed' = processed + n
  /\ IF processed' >= total_ops THEN at' = "exited" /\ owner' = NoThread
                                ELSE at' = "ask" /\ UNCHANGED owner
  /\ UNCHANGED <<next_id, issued, producers_done, result>>

ConsumerAskNoEmpty ==         \* leaves as soon as the producers are done
  /\ at = "ask"
  /\ at' = IF producers_done THEN "exited" ELSE "lock"
  /\ owner' = NoThread
  /\ UNCHANGED <<queue, next_id, processed, issued, producers_done, result>>

-----------------------------------------------------------------------------
(* A producer's iteration: lock, then draw an id, push and unlock. *)
ProducerLock(p) ==
  /\ issued[p] < OpsPerProducer
  /\ owner = NoThread
  /\ owner' = p
  /\ UNCHANGED <<queue, next_id, processed, issued, at, producers_done, result>>

ProducerPush(p) ==
  /\ owner = p
  /\ queue' = Append(queue, next_id)
  /\ next_id' = next_id + 1
  /\ issued' = [issued EXCEPT ![p] = @ + 1]
  /\ owner' = NoThread
  /\ UNCHANGED <<processed, at, producers_done, result>>

(* The consumer's loop: lock, pop up to the budget, leave when everything  *)
(* has been processed or the producers are done and the queue is empty.    *)
ConsumerLock ==
  /\ at = "lock" /\ owner = NoThread
  /\ at' = "process"
  /\ owner' = Consumer
  /\ UNCHANGED <<queue, next_id, processed, issued, producers_done, result>>

Popped == IF Len(queue) < ConsumerBudget THEN Len(queue) ELSE ConsumerBudget

ConsumerProcess ==
  /\ at = "process"
  /\ queue' = SubSeq(queue, Popped + 1, Len(queue))
  /\ processed' = processed + Popped
  /\ IF processed' >= total_ops THEN at' = "exited" /\ owner' = NoThread
                                ELSE at' = "ask" /\ UNCHANGED owner
  /\ UNCHANGED <<next_id, issued, producers_done, result>>

ConsumerAsk ==
  /\ at = "ask"
  /\ at' = IF producers_done /\ queue = <<>> THEN "exited" ELSE "lock"
  /\ owner' = NoThread
  /\ UNCHANGED <<queue, next_id, processed, issued, producers_done, result>>

(* The main thread joins the producers, then the consumer, and reads. *)
JoinProducers ==
  /\ ~producers_done
  /\ \A p \in Producers : issued[p] = OpsPerProducer
  /\ producers_done' = TRUE
  /\ UNCHANGED <<owner, queue, next_id, processed, issued, at, result>>

FinalRead ==
  /\ producers_done /\ at = "exited" /\ result = <<>>
  /\ owner = NoThread
  /\ result' = <<processed, Len(queue)>>
  /\ UNCHANGED <<owner, queue, next_id, processed, issued, at, producers_done>>

Terminating == result # <<>> /\ UNCHANGED vars

ProducerStep(p) == ProducerLock(p) \/ ProducerPush(p)
ConsumerStep == ConsumerLock \/ ConsumerProcess \/ ConsumerAsk
MainStep == JoinProducers \/ FinalRead

Next == \/ \E p \in Producers : ProducerStep(p)
        \/ ConsumerStep
        \/ MainStep
        \/ Terminating

Spec == Init /\ [][Next]_vars

-----------------------------------------------------------------------------
(* The consumer gives up only when everything has been processed, though   *)
(* it reads producers_done after it has looked at the queue.               *)
ConsumerExitsDone == at = "exited" => processed = total_ops

(* The mutex benchmark is a work queue. *)
Queue == INSTANCE WorkQueue WITH
           Total <- total_ops, Budget <- ConsumerBudget,
           waiting <- Len(queue), handled <- processed,
           finished <- result # <<>>

ImplementsWorkQueue == Queue!Spec

=============================================================================

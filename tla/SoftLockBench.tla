--------------------------- MODULE SoftLockBench ---------------------------
(***************************************************************************)
(* run_softlock_bench (main.rs 284-382): producers submit through the soft *)
(* lock, one consumer drains and processes, the main thread joins them and *)
(* asserts the result.  The lock is SoftLock, its content DemoInner; the   *)
(* closures given to with_access are the actions of this module.           *)
(*                                                                         *)
(* Left out: spin_n, yield_now and the Instant readings, which only take   *)
(* time, and the pending_before read that decides whether to spin.         *)
(***************************************************************************)
EXTENDS SoftLock, DemoInner, FiniteSets

CONSTANTS Producers, Consumer, Main,
          OpsPerProducer,         \* Scenario.ops_per_producer
          ConsumerBudget          \* Scenario.consumer_budget

ASSUME BenchAssumption ==
  /\ Threads = Producers \cup {Consumer, Main}
  /\ Consumer \notin Producers /\ Main \notin Producers /\ Consumer # Main
  /\ NoThread \notin Threads
  /\ IsFiniteSet(Producers)
  /\ OpsPerProducer \in Nat /\ ConsumerBudget \in Nat

VARIABLES
  issued,                 \* iterations each producer has started
  at,                     \* where a thread is inside its closure or run_pended_op
  again,                  \* what the consumer's closure last returned
  seenDone, seenPending,  \* its locals producers_finished and pending
  producers_done,
  result                  \* what the main thread read in its final access

benchVars == <<issued, again, seenDone, seenPending, producers_done, result>>
vars == <<lockVars, innerVars, at, benchVars>>

total_ops == Cardinality(Producers) * OpsPerProducer

NoResult == [processed |-> 0, pending |-> 0, queue_left |-> 0,
             stats |-> [c \in Counters |-> 0], read |-> FALSE]

Init ==
  /\ LockInit
  /\ InnerInit(Threads)
  /\ issued = [p \in Producers |-> 0]
  /\ at = [t \in Threads |-> "start"]
  /\ again = TRUE
  /\ seenDone = FALSE
  /\ seenPending = 0
  /\ producers_done = FALSE
  /\ result = NoResult

(* The thread moves inside its closure; the lock sees nothing of it. *)
Move(t, from, to) == /\ at[t] = from
                     /\ at' = [at EXCEPT ![t] = to]
                     /\ UNCHANGED lockVars

(* The closure returns from the given place. *)
Return(t, from) == /\ at[t] = from
                   /\ at' = [at EXCEPT ![t] = "start"]
                   /\ OpReturned(t)

-----------------------------------------------------------------------------
(* Mutants. *)

FinalEnterEarly ==            \* consumer.join is missing
  /\ producers_done /\ ~result.read
  /\ GuardFull(Main) \/ GuardPendOnly(Main)
  /\ UNCHANGED <<innerVars, at, benchVars>>

ConsumerLookNoQueue ==        \* queue_len is not part of the exit condition
  /\ pc[Consumer] = "full"
  /\ MayLockQueue(Consumer)
  /\ again' = ~(seenDone /\ seenPending = 0)
  /\ Return(Consumer, "look")
  /\ UNCHANGED <<innerVars, issued, seenDone, seenPending, producers_done, result>>

ConsumerProcessUnbudgeted ==  \* the budget is not respected
  /\ ProcessSome(Consumer, ConsumerBudget + 1)
  /\ again' = (processed' < total_ops)
  /\ IF again' THEN Move(Consumer, "process", "ask") ELSE Return(Consumer, "process")
  /\ UNCHANGED <<issued, seenDone, seenPending, producers_done, result>>

RunPendedTakeDropped(t) ==    \* the count taken is forgotten
  /\ at[t] = "start"
  /\ pc[t] = "drain"
  /\ TakePended(t)
  /\ PendedOpReturned(t)
  /\ UNCHANGED <<at, benchVars>>

-----------------------------------------------------------------------------
(* The consumer's loop or a producer's next iteration calls with_access. *)
ProducerEnter(p) ==
  /\ issued[p] < OpsPerProducer
  /\ GuardFull(p) \/ GuardPendOnly(p)
  /\ issued' = [issued EXCEPT ![p] = @ + 1]
  /\ UNCHANGED <<innerVars, at, again, seenDone, seenPending, producers_done, result>>

ConsumerEnter ==
  /\ again
  /\ GuardFull(Consumer) \/ GuardPendOnly(Consumer)
  /\ UNCHANGED <<innerVars, at, benchVars>>

(* Producer with Access::Full: submit_direct. *)
ProducerAlloc(p) ==
  /\ pc[p] = "full"
  /\ Move(p, "start", "push")
  /\ AllocId(p)
  /\ UNCHANGED benchVars

ProducerPush(p) ==
  /\ PushDirect(p)
  /\ Return(p, "push")
  /\ UNCHANGED benchVars

(* Producer with Access::PendOnly: pend_submit. *)
ProducerPend(p) ==
  /\ pc[p] = "pend"
  /\ RecordIntent
  /\ Return(p, "start")
  /\ UNCHANGED benchVars

(* run_pended_op returns: to the release loop, or to the consumer's closure. *)
AfterPended(t) ==
  \/ /\ PendedOpReturned(t)
     /\ at' = [at EXCEPT ![t] = "start"]
  \/ /\ pc[t] = "full"
     /\ Move(t, at[t], "process")

(* run_pended_op, called by the release loop of any Full guard and by the  *)
(* consumer at the start of its closure.                                   *)
RunPendedTake(t) ==
  /\ at[t] = "start"
  /\ pc[t] = "drain" \/ (t = Consumer /\ pc[t] = "full")
  /\ TakePended(t)
  /\ IF pending_submit > 0 THEN Move(t, "start", "replay") ELSE AfterPended(t)
  /\ UNCHANGED benchVars

RunPendedPush(t) ==
  /\ at[t] = "replay"
  /\ PushOne(t)
  /\ IF left[t] > 1 THEN UNCHANGED <<lockVars, at>> ELSE AfterPended(t)
  /\ UNCHANGED benchVars

(* Consumer with Access::Full: process a budget of items, and stop when    *)
(* everything has been processed.                                          *)
ConsumerProcess ==
  /\ ProcessSome(Consumer, ConsumerBudget)
  /\ again' = (processed' < total_ops)
  /\ IF again' THEN Move(Consumer, "process", "ask") ELSE Return(Consumer, "process")
  /\ UNCHANGED <<issued, seenDone, seenPending, producers_done, result>>

(* The second exit condition reads three things one after the other. *)
ConsumerAsk ==
  /\ Move(Consumer, "ask", "peek")
  /\ seenDone' = producers_done
  /\ UNCHANGED <<innerVars, issued, again, seenPending, producers_done, result>>

ConsumerPeek ==
  /\ Move(Consumer, "peek", "look")
  /\ seenPending' = pending_submit
  /\ UNCHANGED <<innerVars, issued, again, seenDone, producers_done, result>>

ConsumerLook ==
  /\ MayLockQueue(Consumer)
  /\ again' = ~(seenDone /\ seenPending = 0 /\ queue = <<>>)
  /\ Return(Consumer, "look")
  /\ UNCHANGED <<innerVars, issued, seenDone, seenPending, producers_done, result>>

(* Consumer with Access::PendOnly: nothing recorded, try again. *)
ConsumerPend ==
  /\ pc[Consumer] = "pend"
  /\ Return(Consumer, "start")
  /\ again' = TRUE
  /\ UNCHANGED <<innerVars, issued, seenDone, seenPending, producers_done, result>>

(* Drop of any guard, but for run_pended_op. *)
Release(t) ==
  /\ \/ MarkPending(t)
     \/ SwapPending(t)
     \/ Unlock(t)
     \/ Recheck(t)
     \/ Reacquire(t)
  /\ UNCHANGED <<innerVars, at, benchVars>>

ProducerReturned(p) == pc[p] = "idle" /\ issued[p] = OpsPerProducer

ConsumerReturned == pc[Consumer] = "idle" /\ ~again

(* The main thread joins the producers and tells the consumer. *)
JoinProducers ==
  /\ ~producers_done
  /\ \A p \in Producers : ProducerReturned(p)
  /\ producers_done' = TRUE
  /\ UNCHANGED <<lockVars, innerVars, at, issued, again, seenDone, seenPending, result>>

(* It joins the consumer and makes the final access. *)
FinalEnter ==
  /\ producers_done /\ ConsumerReturned /\ ~result.read
  /\ GuardFull(Main) \/ GuardPendOnly(Main)
  /\ UNCHANGED <<innerVars, at, benchVars>>

(* The final access reads the result.  There is no step for PendOnly: the  *)
(* code has unreachable! there.                                            *)
FinalRead ==
  /\ pc[Main] = "full"
  /\ MayLockQueue(Main)
  /\ Return(Main, "start")
  /\ result' = [processed |-> processed, pending |-> pending_submit,
                queue_left |-> Len(queue), stats |-> stats, read |-> TRUE]
  /\ UNCHANGED <<innerVars, issued, again, seenDone, seenPending, producers_done>>

Finished == result.read /\ pc[Main] = "idle"

Terminating == Finished /\ UNCHANGED vars

WorkerStep(t) == Release(t) \/ RunPendedTake(t) \/ RunPendedPush(t)

ProducerStep(p) == \/ ProducerEnter(p) \/ ProducerAlloc(p) \/ ProducerPush(p)
                   \/ ProducerPend(p) \/ WorkerStep(p)

ConsumerStep == \/ ConsumerEnter \/ ConsumerProcess \/ ConsumerAsk
                \/ ConsumerPeek \/ ConsumerLook \/ ConsumerPend \/ WorkerStep(Consumer)

MainStep == JoinProducers \/ FinalEnter \/ FinalRead \/ WorkerStep(Main)

Next == \/ \E p \in Producers : ProducerStep(p)
        \/ ConsumerStep
        \/ MainStep
        \/ Terminating

Spec == Init /\ [][Next]_vars

(* Every runnable thread runs again and again. *)
Fairness ==
  /\ \A p \in Producers : WF_vars(ProducerStep(p))
  /\ WF_vars(ConsumerStep)
  /\ WF_vars(MainStep)

FairSpec == Spec /\ Fairness

(* More than the code can count on: a producer in the spin loop of its     *)
(* release also does not lose every compare_exchange to a consumer that    *)
(* keeps taking and freeing the lock.                                      *)
SpinFairness == \A p \in Producers : SF_vars(pc[p] = "spin" /\ Release(p))

GenerousSpec == FairSpec /\ SpinFairness

-----------------------------------------------------------------------------
(* The queue's Mutex costs nothing: a thread that comes to lock it finds   *)
(* it free, because the soft lock already keeps everybody else out.        *)
WantsQueue(t) == \/ at[t] \in {"push", "replay", "process", "look"}
                 \/ t = Main /\ pc[t] = "full"

QueueNeverContended == \A t \in Threads : WantsQueue(t) => MayLockQueue(t)

(* Ids reach the queue in the order they were drawn, without a gap, though *)
(* submit_direct draws its id outside the queue's Mutex: the i-th waiting  *)
(* item is item number processed + i.                                      *)
IdsInOrder == \A i \in DOMAIN queue : queue[i] = processed + i

(* The sum of a counter over the threads, as the size of a set: one        *)
(* element for every unit counted.                                         *)
Units(counter) == UNION {{t} \X (1 .. counter[t]) : t \in DOMAIN counter}

Sum(counter) == Cardinality(Units(counter))

(* No submission is lost between the pend counter, a batch being replayed, *)
(* the queue and the processed count.                                      *)
Carrying == {p \in Producers : pc[p] \in {"full", "pend"}}

NothingLost ==
  Sum(issued) = Cardinality(Carrying) + pending_submit
                  + Sum(left) + Len(queue) + processed

(* The consumer leaves its loop only when everything has been processed,   *)
(* although its second exit condition reads three things one by one while  *)
(* producers go on recording.                                              *)
ConsumerExitsDone == ~again => processed = total_ops

(* unreachable!("all workers joined"): the final access is a Full one. *)
FinalAccessIsFull == pc[Main] \notin {"pend", "mark"}

(* The assertions after the join, and the printed counters: every item was *)
(* submitted directly or recorded and drained, and a drain batch is never  *)
(* empty (so the average batch is at least one).                           *)
ResultIsRight ==
  result.read =>
    /\ result.processed = total_ops
    /\ result.pending = 0
    /\ result.queue_left = 0
    /\ result.stats["full_entries"] + result.stats["pend_entries"] = total_ops
    /\ result.stats["direct_items"] = result.stats["full_entries"]
    /\ result.stats["drained_items"] = result.stats["pend_entries"]
    /\ result.stats["drained_batches"] <= result.stats["drained_items"]

(* The soft lock benchmark is a work queue. *)
Queue == INSTANCE WorkQueue WITH
           Total <- total_ops, Budget <- ConsumerBudget,
           waiting <- pending_submit + Sum(left) + Len(queue),
           handled <- processed, finished <- result.read

ImplementsWorkQueue == Queue!Spec

(* "This demo stays correct" though tasks "can race arbitrarily"           *)
(* (softlock-std-demo/README.md): the benchmark comes to its assertions,   *)
(* both joins and the final access included, whenever the threads run.     *)
BenchEnds == <>Finished

(* What the code does guarantee: from the join of the producers on, the    *)
(* consumer's next polls win the lock, what the last producers recorded    *)
(* while it held the lock is drained by its own release loop or closure,   *)
(* an exit condition becomes true, and main makes its final access.        *)
EndsOnceJoined == producers_done ~> Finished

=============================================================================

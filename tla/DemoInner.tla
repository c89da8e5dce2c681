----------------------------- MODULE DemoInner -----------------------------
(***************************************************************************)
(* The content of the demo's soft lock: DemoInner and its two accessors    *)
(* (main.rs 127-227).  The operators below are the effects of the accessor *)
(* methods on the content, split at the atomics and mutex acquisitions     *)
(* that another thread could come between; the module that extends this    *)
(* one says when a thread executes them.                                   *)
(*                                                                         *)
(* The counters that are written and only read after every worker has been *)
(* joined (full_entries, pend_entries, direct_items, drained_items,        *)
(* drained_batches) change together with the access next to them.          *)
(***************************************************************************)
EXTENDS Naturals, Sequences

CONSTANT NoThread

VARIABLES
  pending_submit,         \* intents recorded and not taken
  queue,                  \* the VecDeque of ids
  queueOwner,             \* holder of the queue's Mutex across steps, or NoThread
  next_id,
  processed,
  stats,                  \* full_entries, pend_entries, direct_items, drained_*
  id,                     \* local of submit_direct
  left                    \* local of run_pended_op: ids still to push

innerVars == <<pending_submit, queue, queueOwner, next_id, processed, stats, id, left>>

Counters == {"full_entries", "pend_entries", "direct_items",
             "drained_items", "drained_batches"}

(* DemoInner::new; workers is the set of threads that use the accessors. *)
InnerInit(workers) ==
  /\ pending_submit = 0
  /\ queue = <<>>
  /\ queueOwner = NoThread
  /\ next_id = 1
  /\ processed = 0
  /\ stats = [c \in Counters |-> 0]
  /\ id = [t \in workers |-> 0]
  /\ left = [t \in workers |-> 0]

(* A thread can take the queue's Mutex, or has it already. *)
MayLockQueue(t) == queueOwner \in {NoThread, t}

-----------------------------------------------------------------------------
(* Mutants. *)

TakePendedByLoad(t) ==        \* load in place of swap(0)
  /\ left' = [left EXCEPT ![t] = pending_submit]
  /\ stats' = [stats EXCEPT !["drained_batches"] = @ + IF pending_submit > 0 THEN 1 ELSE 0,
                            !["drained_items"] = @ + pending_submit]
  /\ UNCHANGED <<pending_submit, queue, queueOwner, next_id, processed, id>>

TakePendedCountsCalls(t) ==   \* a batch is counted before the early return
  /\ left' = [left EXCEPT ![t] = pending_submit]
  /\ pending_submit' = 0
  /\ stats' = [stats EXCEPT !["drained_batches"] = @ + 1,
                            !["drained_items"] = @ + pending_submit]
  /\ UNCHANGED <<queue, queueOwner, next_id, processed, id>>

PushOneStaleId(t) ==          \* the id is read but not advanced
  /\ MayLockQueue(t)
  /\ queue' = Append(queue, next_id)
  /\ left' = [left EXCEPT ![t] = @ - 1]
  /\ queueOwner' = IF left[t] = 1 THEN NoThread ELSE t
  /\ UNCHANGED <<pending_submit, next_id, processed, stats, id>>

PushOneKeepsMutex(t) ==       \* the queue's guard outlives run_pended_op
  /\ MayLockQueue(t)
  /\ queue' = Append(queue, next_id)
  /\ next_id' = next_id + 1
  /\ left' = [left EXCEPT ![t] = @ - 1]
  /\ queueOwner' = t
  /\ UNCHANGED <<pending_submit, processed, stats, id>>

-----------------------------------------------------------------------------
(* submit_direct: the id is drawn before the queue's Mutex is taken. *)
AllocId(t) ==
  /\ id' = [id EXCEPT ![t] = next_id]
  /\ next_id' = next_id + 1
  /\ stats' = [stats EXCEPT !["full_entries"] = @ + 1]
  /\ UNCHANGED <<pending_submit, queue, queueOwner, processed, left>>

(* submit_direct: push_back under the Mutex. *)
PushDirect(t) ==
  /\ MayLockQueue(t)
  /\ queue' = Append(queue, id[t])
  /\ id' = [id EXCEPT ![t] = 0]            \* the local goes out of scope
  /\ stats' = [stats EXCEPT !["direct_items"] = @ + 1]
  /\ UNCHANGED <<pending_submit, queueOwner, next_id, processed, left>>

(* pend_submit *)
RecordIntent ==
  /\ pending_submit' = pending_submit + 1
  /\ stats' = [stats EXCEPT !["pend_entries"] = @ + 1]
  /\ UNCHANGED <<queue, queueOwner, next_id, processed, id, left>>

(* run_pended_op: swap(0), and the early return when it yields nothing. *)
TakePended(t) ==
  /\ left' = [left EXCEPT ![t] = pending_submit]
  /\ pending_submit' = 0
  /\ stats' = [stats EXCEPT !["drained_batches"] = @ + IF pending_submit > 0 THEN 1 ELSE 0,
                            !["drained_items"] = @ + pending_submit]
  /\ UNCHANGED <<queue, queueOwner, next_id, processed, id>>

(* run_pended_op: one turn of the loop, under the Mutex until the last. *)
PushOne(t) ==
  /\ MayLockQueue(t)
  /\ queue' = Append(queue, next_id)
  /\ next_id' = next_id + 1
  /\ left' = [left EXCEPT ![t] = @ - 1]
  /\ queueOwner' = IF left[t] = 1 THEN NoThread ELSE t
  /\ UNCHANGED <<pending_submit, processed, stats, id>>

(* process_some(budget): pop and count until the budget or the queue ends. *)
Popped(budget) == IF Len(queue) < budget THEN Len(queue) ELSE budget

ProcessSome(t, budget) ==
  /\ MayLockQueue(t)
  /\ queue' = SubSeq(queue, Popped(budget) + 1, Len(queue))
  /\ processed' = processed + Popped(budget)
  /\ UNCHANGED <<pending_submit, queueOwner, next_id, stats, id, left>>

=============================================================================

---------------------------- MODULE SoftLockOps ----------------------------
(***************************************************************************)
(* Threads that submit operations through the soft lock the way the demo's *)
(* producers do (main.rs 320-331): with Full access the operation is       *)
(* executed at once (submit_direct), with PendOnly access it is recorded   *)
(* (pend_submit) and left to run_pended_op.                                *)
(*                                                                         *)
(* DemoInner keeps a number of recorded intents; here the intents have the *)
(* names of the operations they stand for, so that losing one and doing    *)
(* one twice are visible.  Cardinality(recorded) is pending_submit.        *)
(***************************************************************************)
EXTENDS SoftLock

CONSTANT OpsPerThread     \* Scenario.ops_per_producer

ASSUME OpsAssumption == OpsPerThread \in Nat \ {0}

VARIABLES
  issued,                 \* with_access calls each thread has made
  recorded,               \* intents no run_pended_op has taken yet
  batch,                  \* intents a run_pended_op has taken and not yet queued
  executed                \* operations that reached the queue

contentVars == <<recorded, batch, executed>>
vars == <<lockVars, issued, contentVars>>

Ops == Threads \X (1 .. OpsPerThread)

(* The operation a thread carries while it is inside with_access. *)
OpOf(t) == <<t, issued[t]>>

TypeOK == /\ LockTypeOK
          /\ issued \in [Threads -> 0 .. OpsPerThread]
          /\ recorded \in SUBSET Ops
          /\ batch \in [Threads -> SUBSET Ops]
          /\ executed \in SUBSET Ops

Init == /\ LockInit
        /\ issued = [t \in Threads |-> 0]
        /\ recorded = {}
        /\ batch = [t \in Threads |-> {}]
        /\ executed = {}

-----------------------------------------------------------------------------
(* Mutants. *)

RunPendedTakeByLoad(t) ==     \* load where the code has swap(0)
  /\ pc[t] = "drain" /\ batch[t] = {} /\ recorded # {}
  /\ batch' = [batch EXCEPT ![t] = recorded]
  /\ UNCHANGED <<lockVars, issued, recorded, executed>>

-----------------------------------------------------------------------------
(* The next iteration of the producer's loop calls with_access. *)
Enter(t) ==
  /\ issued[t] < OpsPerThread
  /\ GuardFull(t) \/ GuardPendOnly(t)
  /\ issued' = [issued EXCEPT ![t] = @ + 1]
  /\ UNCHANGED contentVars

(* Access::Full: submit_direct executes the operation. *)
SubmitDirect(t) ==
  /\ pc[t] = "full"
  /\ OpReturned(t)
  /\ executed' = executed \cup {OpOf(t)}
  /\ UNCHANGED <<issued, recorded, batch>>

(* Access::PendOnly: pend_submit records it. *)
PendSubmit(t) ==
  /\ pc[t] = "pend"
  /\ OpReturned(t)
  /\ recorded' = recorded \cup {OpOf(t)}
  /\ UNCHANGED <<issued, batch, executed>>

(* Drop of either guard, but for what run_pended_op does. *)
Release(t) ==
  /\ \/ MarkPending(t)
     \/ SwapPending(t)
     \/ Unlock(t)
     \/ Recheck(t)
     \/ Reacquire(t)
  /\ UNCHANGED <<issued, contentVars>>

(* run_pended_op: pending_submit.swap(0) finds nothing and it returns. *)
RunPendedNothing(t) ==
  /\ batch[t] = {} /\ recorded = {}
  /\ PendedOpReturned(t)
  /\ UNCHANGED <<issued, contentVars>>

(* run_pended_op: pending_submit.swap(0) takes every intent recorded. *)
RunPendedTake(t) ==
  /\ pc[t] = "drain" /\ batch[t] = {} /\ recorded # {}
  /\ batch' = [batch EXCEPT ![t] = recorded]
  /\ recorded' = {}
  /\ UNCHANGED <<lockVars, issued, executed>>

(* run_pended_op: the loop that queues the intents taken. *)
RunPendedPush(t) ==
  /\ batch[t] # {}
  /\ PendedOpReturned(t)
  /\ executed' = executed \cup batch[t]
  /\ batch' = [batch EXCEPT ![t] = {}]
  /\ UNCHANGED <<issued, recorded>>

Step(t) == \/ SubmitDirect(t)
           \/ PendSubmit(t)
           \/ Release(t)
           \/ RunPendedNothing(t)
           \/ RunPendedTake(t)
           \/ RunPendedPush(t)

Quiescent == \A t \in Threads : pc[t] = "idle"

Finished == Quiescent /\ \A t \in Threads : issued[t] = OpsPerThread

(* All threads have returned from their loops. *)
Terminating == Finished /\ UNCHANGED vars

Next == \/ \E t \in Threads : Enter(t) \/ Step(t)
        \/ Terminating

Spec == Init /\ [][Next]_vars

(* The operating system runs every runnable thread again and again. *)
Fairness == \A t \in Threads : WF_vars(Enter(t) \/ Step(t))

-----------------------------------------------------------------------------
(* Every operation handed to with_access is in exactly one place: still    *)
(* carried by its caller, recorded, taken by one run_pended_op, or         *)
(* executed.  None is lost and none is executed twice, whatever the        *)
(* interleaving of record, flag, swap and drain.                           *)
Carried(o) == pc[o[1]] \in {"full", "pend"} /\ o = OpOf(o[1])

TakenBy(t, o) == o \in batch[t]

Taken(o) == \E t \in Threads : TakenBy(t, o)

InExactlyOnePlace ==
  \A o \in Ops :
    /\ o[2] <= issued[o[1]]
         <=> Carried(o) \/ o \in recorded \/ Taken(o) \/ o \in executed
    /\ Carried(o) => o \notin recorded /\ ~Taken(o) /\ o \notin executed
    /\ o \in recorded => ~Taken(o) /\ o \notin executed
    /\ Taken(o) => o \notin executed
    /\ \A t, u \in Threads : TakenBy(t, o) /\ TakenBy(u, o) => t = u

(* A recorded intent always has somebody or something that stands for it: *)
(* the pending flag is set, or its own recorder is about to set it, or a   *)
(* holder that took the flag has yet to swap the counter.  Hence the next  *)
(* Full access that reaches its swap replays it.                           *)
Unflagged(o) == pc[o[1]] = "mark" /\ o = OpOf(o[1])

AboutToTake(t) == pc[t] = "drain" /\ batch[t] = {}

IntentFlagged ==
  \A o \in recorded :
    pending \/ Unflagged(o) \/ \E t \in Threads : AboutToTake(t)

(* What the release loop does guarantee between threads: a winner that     *)
(* leaves with_access leaves behind only intents whose recorder has not    *)
(* set the flag yet, and intents that another winner is about to take.     *)
ReleaseLeavesOnlyUnflagged ==
  [][\A t \in Threads : pc[t] = "recheck" /\ pc'[t] = "idle" =>
       \A o \in recorded : Unflagged(o) \/ \E u \in Threads : AboutToTake(u)]_vars

(* README.md of the demo, line 7: "winner consumes all pended intents      *)
(* before fully releasing".  Read where it matters: once nobody is inside  *)
(* with_access, no recorded intent is left waiting for a replay.           *)
NoStrandedIntent == Quiescent => recorded = {}

(* A caller that lost the compare_exchange never waits for anybody: as     *)
(* long as it is scheduled itself it gets out of with_access, even if the  *)
(* winner, and everybody else, has stopped for good where it was.          *)
PendOnlyReturns ==
  \A t \in Threads : WF_vars(Step(t)) => (pc[t] = "pend" ~> pc[t] = "idle")

(* The release loop ends: finitely many accesses set the pending flag      *)
(* finitely often, so under a fair scheduler every thread gets out of its  *)
(* last with_access.                                                       *)
AllReturn == Fairness => <>Finished

=============================================================================

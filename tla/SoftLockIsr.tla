---------------------------- MODULE SoftLockIsr ----------------------------
(***************************************************************************)
(* The same lock under the discipline it was designed for: on one core an  *)
(* interrupt handler runs to completion before the context it preempted    *)
(* goes on (the demo's README.md, "Notes About Async Tasks vs Hopter ISR   *)
(* Model", and hopter-softlock-analysis.md section 8).  The scheduler is   *)
(* the environment; every step of a context is the code's own step from    *)
(* SoftLockOps.                                                            *)
(***************************************************************************)
EXTENDS SoftLockOps, Sequences

VARIABLE stack            \* contexts inside with_access, the running one first

isrVars == <<vars, stack>>

IsrInit == Init /\ stack = <<>>

Running(t) == stack # <<>> /\ Head(stack) = t

-----------------------------------------------------------------------------
(* A context that is not active interrupts whatever runs and enters the    *)
(* lock.                                                                   *)
Preempt(t) ==
  /\ Enter(t)
  /\ stack' = <<t>> \o stack

(* The running context takes its next step; when it leaves with_access the *)
(* one it preempted runs again.                                            *)
RunTop(t) ==
  /\ Running(t)
  /\ Step(t)
  /\ stack' = IF pc'[t] = "idle" THEN Tail(stack) ELSE stack

IsrTerminating == Finished /\ UNCHANGED isrVars

IsrNext == \/ \E t \in Threads : Preempt(t) \/ RunTop(t)
           \/ IsrTerminating

IsrSpec == IsrInit /\ [][IsrNext]_isrVars

(* The core always runs something: the running context, or, when none is   *)
(* active, the next one that has something to submit.                      *)
IsrFairness == WF_isrVars(\E t \in Threads : Preempt(t) \/ RunTop(t))

IsrFairSpec == IsrSpec /\ IsrFairness

-----------------------------------------------------------------------------
(* The compare_exchange of the release loop never fails: when a context    *)
(* runs at its spin loop the lock is free.  Otherwise the core would spin  *)
(* for ever, because the holder could only be a preempted context.         *)
SpinNeverWaits ==
  \A t \in Threads : Running(t) /\ pc[t] = "spin" => ~locked

(* A winner leaves with_access with nothing left to replay: README.md line *)
(* 7 of the demo, at the very step that leaves the release loop.           *)
ReleaseLeavesNothing ==
  [][\A t \in Threads : pc[t] = "recheck" /\ pc'[t] = "idle" => recorded = {}]_isrVars

(* A context that degrades to PendOnly was preempting the Full holder, so  *)
(* the holder is still there to replay the intent.                         *)
HolderStillActive ==
  \A t \in Threads : pc[t] \in {"pend", "mark"} =>
    \E i \in DOMAIN stack : Holds(stack[i])

(* Every operation submitted is executed once the contexts have returned. *)
AllExecuted == <>[](executed = Ops)

=============================================================================

------------------------------ MODULE SoftLock ------------------------------
(***************************************************************************)
(* The soft lock of softlock-std-demo/src/main.rs, lines 7-124: two atomic *)
(* flags, an access guard that either wins the lock (Full access) or is    *)
(* degraded to recording an intent (PendOnly access), and a release loop   *)
(* that replays recorded intents.  Every access to an atomic is a step of  *)
(* its own: all of them are SeqCst, so a total order of steps is exact.    *)
(*                                                                         *)
(* The module has the lock only.  What a closure does with its access, and *)
(* what run_pended_op replays, belong to the modules that extend this one: *)
(* they conjoin their own effects to OpReturned and PendedOpReturned.      *)
(***************************************************************************)
EXTENDS Naturals

CONSTANT Threads          \* callers of with_access

ASSUME ThreadsAssumption == Threads # {}

VARIABLES
  locked,                 \* SoftLock.locked
  pending,                \* SoftLock.pending
  pc                      \* where each caller is inside with_access

lockVars == <<locked, pending, pc>>

(***************************************************************************)
(* "idle"     outside with_access                                          *)
(* "full"     in the closure, with Access::Full                            *)
(* "pend"     in the closure, with Access::PendOnly                        *)
(* "mark"     in drop of a PendOnly guard                                  *)
(* "swap" "drain" "unlock" "recheck" "spin"                                *)
(*            the statements of drop of a Full guard, in program order     *)
(***************************************************************************)
Positions == {"idle", "full", "pend", "mark",
              "swap", "drain", "unlock", "recheck", "spin"}

(* From winning the compare_exchange to the store that frees the lock. *)
Holding == {"full", "swap", "drain", "unlock"}

Holds(t) == pc[t] \in Holding

Goto(t, from, to) == /\ pc[t] = from
                     /\ pc' = [pc EXCEPT ![t] = to]

LockTypeOK == /\ locked \in BOOLEAN
              /\ pending \in BOOLEAN
              /\ pc \in [Threads -> Positions]

(* SoftLock::new *)
LockInit == /\ locked = FALSE
            /\ pending = FALSE
            /\ pc = [t \in Threads |-> "idle"]

-----------------------------------------------------------------------------
(* Mutants of the definitions below: the bugs the checks must notice.      *)

GuardFullBlind(t) ==        \* the compare_exchange replaced by a plain store
  /\ Goto(t, "idle", "full")
  /\ locked' = TRUE
  /\ UNCHANGED pending

ReacquireBlind(t) ==        \* the second compare_exchange replaced by a store
  /\ Goto(t, "spin", "swap")
  /\ locked' = TRUE
  /\ UNCHANGED pending

MarkPendingForgotten(t) ==  \* a PendOnly guard whose drop does nothing
  /\ Goto(t, "mark", "idle")
  /\ UNCHANGED <<locked, pending>>

MarkPendingOneSlot(t) ==    \* waits until an earlier flag has been taken
  /\ ~pending
  /\ Goto(t, "mark", "idle")
  /\ pending' = TRUE
  /\ UNCHANGED locked

RecheckSkipped(t) ==        \* leaves whatever pending says
  /\ Goto(t, "recheck", "idle")
  /\ UNCHANGED <<locked, pending>>

GuardPendOnlyWeak(t) ==     \* compare_exchange_weak: fails on a free lock too
  /\ Goto(t, "idle", "pend")
  /\ UNCHANGED <<locked, pending>>

SwapPendingByLoad(t) ==     \* load(pending) in place of swap(false)
  /\ Goto(t, "swap", IF pending THEN "drain" ELSE "unlock")
  /\ UNCHANGED <<locked, pending>>

UnlockAndLeave(t) ==        \* no second look at pending after the unlock
  /\ Goto(t, "unlock", "idle")
  /\ locked' = FALSE
  /\ UNCHANGED pending

UnlockForgotten(t) ==       \* the store to locked is dropped
  /\ Goto(t, "unlock", "recheck")
  /\ UNCHANGED <<locked, pending>>

-----------------------------------------------------------------------------
(* AccessGuard::guard: compare_exchange(false, true) succeeds. *)
GuardFull(t) ==
  /\ ~locked
  /\ Goto(t, "idle", "full")
  /\ locked' = TRUE
  /\ UNCHANGED pending

(* AccessGuard::guard: compare_exchange(false, true) fails. *)
GuardPendOnly(t) ==
  /\ locked
  /\ Goto(t, "idle", "pend")
  /\ UNCHANGED <<locked, pending>>

(* The closure returns and drop(guard) starts. *)
OpReturned(t) ==
  /\ \/ Goto(t, "full", "swap")
     \/ Goto(t, "pend", "mark")
  /\ UNCHANGED <<locked, pending>>

(* Drop of a PendOnly guard. *)
MarkPending(t) ==
  /\ Goto(t, "mark", "idle")
  /\ pending' = TRUE
  /\ UNCHANGED locked

(* Drop of a Full guard: take the flag; only a set flag calls run_pended_op. *)
SwapPending(t) ==
  /\ Goto(t, "swap", IF pending THEN "drain" ELSE "unlock")
  /\ pending' = FALSE
  /\ UNCHANGED locked

(* run_pended_op returns to the release loop. *)
PendedOpReturned(t) ==
  /\ Goto(t, "drain", "unlock")
  /\ UNCHANGED <<locked, pending>>

Unlock(t) ==
  /\ Goto(t, "unlock", "recheck")
  /\ locked' = FALSE
  /\ UNCHANGED pending

(* Leave unless an intent was flagged since the swap. *)
Recheck(t) ==
  /\ Goto(t, "recheck", IF pending THEN "spin" ELSE "idle")
  /\ UNCHANGED <<locked, pending>>

(* The spin loop's compare_exchange; a failed one changes nothing. *)
Reacquire(t) ==
  /\ ~locked
  /\ Goto(t, "spin", "swap")
  /\ locked' = TRUE
  /\ UNCHANGED pending

-----------------------------------------------------------------------------
(* At most one caller is between winning the compare_exchange (in guard or *)
(* in the release loop) and the store that frees the lock, so the closure  *)
(* and run_pended_op have the content to themselves.                       *)
MutualExclusion ==
  \A t, u \in Threads : Holds(t) /\ Holds(u) => t = u

(* The flag says what the guards rely on: it is set exactly while some     *)
(* caller is in that section, so a freed lock is never left marked taken   *)
(* and a taken one is never handed out twice.                              *)
LockedIffHeld ==
  locked <=> \E t \in Threads : Holds(t)

=============================================================================

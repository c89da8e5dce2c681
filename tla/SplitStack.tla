----------------------------- MODULE SplitStack -----------------------------
(***************************************************************************)
(* Code instrumented by pass/SplitStackPass.cpp running on the runtime of  *)
(* runtime/runtime.c and runtime/runtime_aarch64.S                         *)
(* (aarch64-split-stack-plugin).  Each thread has one contiguous stack     *)
(* that grows down; the pass makes every function compare its stack        *)
(* pointer with a thread-local soft bound, after the prologue and after    *)
(* every alloca, and the runtime sets the bound when a thread starts.      *)
(*                                                                         *)
(* Addresses are machine words: sums and differences wrap at Word.  The    *)
(* pass splits the entry block before its allocas, so the back end lowers  *)
(* every alloca at run time and the pass checks each of them; the          *)
(* prologue makes room for registers and spills only.                      *)
(*                                                                         *)
(* pthread_create that fails (no memory for its argument block, or the     *)
(* real call fails) changes nothing here.  Diagnostics are left out.       *)
(***************************************************************************)
EXTENDS Integers, Sequences

CONSTANTS
  Threads, MainThread,
  Word,                   \* 2^64
  StackTop,               \* SP of each thread when its bound is computed
  kFramePadding, ExtraPad, Granule,   \* 128, ClExtraPad, 16
  kGuardMargin,
  kDefaultMaxStackBytes,
  EnvKB, KB,              \* HOPTER_MAX_STACK_KB (0: unset or not a number), 1024
  Prologues,              \* bytes a prologue may push
  Allocas,                \* bytes an alloca may take
  LibDepths               \* stack that a call of uninstrumented code may use

(* frame in instrumentFunction: the padding rounded up to 16 *)
Frame == LET y == kFramePadding + ExtraPad + Granule - 1 IN y - (y % Granule)

(* s_max_stack_bytes as the constructor computes it *)
MaxStack == IF EnvKB > 0 THEN (EnvKB * KB) % Word ELSE kDefaultMaxStackBytes

(* A mutant. *)
SoftBoundTwice(sp0, max) ==   \* the margin is counted twice
  (sp0 - max + 2 * kGuardMargin) % Word

SoftBound(sp0, max) == (sp0 - max + kGuardMargin) % Word

(* The lowest address of a thread's configured stack. *)
Bottom(t) == StackTop[t] - MaxStack

ASSUME StackAssumption ==
  /\ MainThread \in Threads
  /\ Word \in Nat /\ Granule \in Nat \ {0}
  /\ kFramePadding \in Nat /\ ExtraPad \in Nat /\ kGuardMargin \in Nat
  /\ kDefaultMaxStackBytes \in Nat /\ EnvKB \in Nat /\ KB \in Nat
  /\ StackTop \in [Threads -> 0 .. Word - 1]
  (* The configured size leaves room for the margin and for one window,    *)
  (* and the stack is not at the very bottom of the address space.         *)
  /\ kGuardMargin + Frame <= MaxStack
  /\ \A t \in Threads : MaxStack <= StackTop[t] /\ Frame <= Bottom(t)
  (* A prologue may be larger than kFramePadding, but not than the window  *)
  (* and the margin together; a function that makes calls saves at least   *)
  (* its return address.                                                   *)
  /\ Prologues \subseteq 1 .. kGuardMargin + Frame
  (* Uninstrumented code stays within the margin and the window, too.      *)
  /\ LibDepths \subseteq 0 .. kGuardMargin + Frame
  (* An alloca does not wrap the stack pointer around address zero.        *)
  /\ Allocas \subseteq Nat
  /\ \A t \in Threads, n \in Allocas : n <= Bottom(t) + kGuardMargin

VARIABLES
  at,                     \* what each thread is doing
  sp,                     \* its stack pointer
  callers,                \* stack pointers of its callers, innermost first
  bound,                  \* its __hopter_stklet_bound
  lowest,                 \* lowest address it has written on its own stack
  s_max_stack_bytes,
  aborted

vars == <<at, sp, callers, bound, lowest, s_max_stack_bytes, aborted>>

(***************************************************************************)
(* "none"     not created              "start"   before the constructor    *)
(* "tramp"    in thread_trampoline     "run"     in an instrumented body   *)
(* "entry"    prologue done, entry check next                              *)
(* "dyn"      alloca done, its check next                                  *)
(* "handler"  in __morestack, on the emergency stack                       *)
(* "exited"                                                                *)
(***************************************************************************)
Activities == {"none", "start", "tramp", "run", "entry", "dyn", "handler", "exited"}

TypeOK ==
  /\ at \in [Threads -> Activities]
  /\ sp \in [Threads -> 0 .. Word - 1]
  /\ callers \in [Threads -> Seq(0 .. Word - 1)]
  /\ bound \in [Threads -> 0 .. Word - 1]
  /\ lowest \in [Threads -> Int]
  /\ s_max_stack_bytes \in {0, MaxStack}
  /\ aborted \in BOOLEAN

Init ==
  /\ at = [t \in Threads |-> IF t = MainThread THEN "start" ELSE "none"]
  /\ sp = StackTop
  /\ callers = [t \in Threads |-> <<>>]
  /\ bound = [t \in Threads |-> 0]
  /\ lowest = StackTop
  /\ s_max_stack_bytes = 0
  /\ aborted = FALSE

Lower(x, y) == IF x < y THEN x ELSE y

Go(t, from, to) == /\ ~aborted
                   /\ at[t] = from
                   /\ at' = [at EXCEPT ![t] = to]

(* A mutant. *)
EnoughIgnoresFrame(t) ==      \* compares sp itself: no rolling window
  sp[t] >= bound[t]

(* need = sp - frame; icmp uge need, bound *)
Enough(t) == (sp[t] - Frame) % Word >= bound[t]

-----------------------------------------------------------------------------
(* Mutants. *)

CtorUnscaled(t) ==            \* the environment's KB taken for bytes
  /\ Go(t, "start", "run")
  /\ s_max_stack_bytes' = EnvKB
  /\ bound' = [bound EXCEPT ![t] = SoftBound(sp[t], EnvKB)]
  /\ UNCHANGED <<sp, callers, lowest, aborted>>

TrampolineNoBound(t) ==       \* the new thread keeps the TLS initial value
  /\ Go(t, "tramp", "run")
  /\ UNCHANGED <<sp, callers, bound, lowest, s_max_stack_bytes, aborted>>

-----------------------------------------------------------------------------
(* __split_stack_ctor, on the main thread *)
Ctor(t) ==
  /\ Go(t, "start", "run")
  /\ s_max_stack_bytes' = MaxStack
  /\ bound' = [bound EXCEPT ![t] = SoftBound(sp[t], MaxStack)]
  /\ UNCHANGED <<sp, callers, lowest, aborted>>

(* The pthread_create wrapper, called by running code. *)
Create(t) ==
  /\ at[t] = "run"
  /\ \E u \in Threads : Go(u, "none", "tramp")
  /\ UNCHANGED <<sp, callers, bound, lowest, s_max_stack_bytes, aborted>>

(* thread_trampoline sets the new thread's bound, then calls its function. *)
Trampoline(t) ==
  /\ Go(t, "tramp", "run")
  /\ bound' = [bound EXCEPT ![t] = SoftBound(sp[t], s_max_stack_bytes)]
  /\ UNCHANGED <<sp, callers, lowest, s_max_stack_bytes, aborted>>

(* An instrumented function is called and its prologue runs: it writes the *)
(* stack before any check of its own.                                      *)
Call(t) ==
  /\ Go(t, "run", "entry")
  /\ \E n \in Prologues : sp' = [sp EXCEPT ![t] = (@ - n) % Word]
  /\ callers' = [callers EXCEPT ![t] = <<sp[t]>> \o @]
  /\ lowest' = [lowest EXCEPT ![t] = Lower(@, sp'[t])]
  /\ UNCHANGED <<bound, s_max_stack_bytes, aborted>>

(* An alloca moves SP; nothing is written there before its check. *)
Alloca(t) ==
  /\ Go(t, "run", "dyn")
  /\ \E n \in Allocas : sp' = [sp EXCEPT ![t] = (@ - n) % Word]
  /\ UNCHANGED <<callers, bound, lowest, s_max_stack_bytes, aborted>>

(* The entry check, or the check after an alloca, passes; the function     *)
(* then uses its frame.                                                    *)
CheckPasses(t) ==
  /\ Enough(t)
  /\ Go(t, "entry", "run") \/ Go(t, "dyn", "run")
  /\ lowest' = [lowest EXCEPT ![t] = Lower(@, sp[t])]
  /\ UNCHANGED <<sp, callers, bound, s_max_stack_bytes, aborted>>

(* It fails: __morestack leaves the thread's stack for the emergency stack *)
(* without writing below SP.  sp keeps the value that HOPTER_DIAG_SP saves.*)
Morestack(t) ==
  /\ ~Enough(t)
  /\ Go(t, "entry", "handler") \/ Go(t, "dyn", "handler")
  /\ UNCHANGED <<sp, callers, bound, lowest, s_max_stack_bytes, aborted>>

(* The overflow handler prints and aborts the process.  The assembly calls *)
(* it __morestack_overflow; runtime.c has it as overflow_panic_entry.      *)
Abort(t) ==
  /\ ~aborted /\ at[t] = "handler"
  /\ aborted' = TRUE
  /\ UNCHANGED <<at, sp, callers, bound, lowest, s_max_stack_bytes>>

(* A call of code the pass skips: declarations, "no-split-stack", naked    *)
(* functions, the runtime itself.                                          *)
LibCall(t) ==
  /\ Go(t, "run", "run")
  /\ \E n \in LibDepths : lowest' = [lowest EXCEPT ![t] = Lower(@, sp[t] - n)]
  /\ UNCHANGED <<sp, callers, bound, s_max_stack_bytes, aborted>>

(* A function returns to its caller, a thread's first function to no one. *)
Return(t) ==
  /\ callers[t] # <<>>
  /\ Go(t, "run", "run")
  /\ sp' = [sp EXCEPT ![t] = Head(callers[t])]
  /\ callers' = [callers EXCEPT ![t] = Tail(@)]
  /\ UNCHANGED <<bound, lowest, s_max_stack_bytes, aborted>>

Exit(t) ==
  /\ callers[t] = <<>>
  /\ Go(t, "run", "exited")
  /\ UNCHANGED <<sp, callers, bound, lowest, s_max_stack_bytes, aborted>>

Ended == /\ aborted \/ \A t \in Threads : at[t] \in {"none", "exited"}
         /\ UNCHANGED vars

Step(t) == \/ Ctor(t) \/ Create(t) \/ Trampoline(t)
           \/ Call(t) \/ Alloca(t) \/ CheckPasses(t) \/ LibCall(t)
           \/ Morestack(t) \/ Abort(t) \/ Return(t) \/ Exit(t)

Next == (\E t \in Threads : Step(t)) \/ Ended

Spec == Init /\ [][Next]_vars

-----------------------------------------------------------------------------
(* No thread ever writes below its configured stack: instrumented code     *)
(* stops above the bound, and the guard margin takes what is written       *)
(* unchecked, by a prologue that is larger than the window or by           *)
(* uninstrumented code.                                                    *)
StaysOnOwnStack == \A t \in Threads : lowest[t] >= Bottom(t)

(* "A's check guarantees kFramePadding bytes below A's post-prologue SP,   *)
(* which is enough for B's prologue writes", of every B whose prologue     *)
(* takes no more than that: it runs before the check of its own function   *)
(* and stays above the bound, also after A has returned from other calls,  *)
(* of prologues larger than the window too, and has moved SP by allocas.   *)
PrologueWithinWindow ==
  \A t \in Threads :
    at[t] = "entry" /\ Head(callers[t]) - sp[t] <= Frame => sp[t] >= bound[t]

(* The check never fires while the stack has room (correctness_test.c      *)
(* calls that a false positive): when a thread is in __morestack, the next *)
(* window would really have reached into the guard margin.                 *)
NoFalseOverflow ==
  \A t \in Threads :
    at[t] = "handler" => sp[t] - Frame < Bottom(t) + kGuardMargin

(* runtime_aarch64.S: the emergency stack is "a 4 KiB static buffer in     *)
(* runtime.c, always safe to use".  One buffer serves every thread, so     *)
(* that needs at most one thread on it at a time.                          *)
EmergencyStackExclusive ==
  \A t, u \in Threads : at[t] = "handler" /\ at[u] = "handler" => t = u

=============================================================================

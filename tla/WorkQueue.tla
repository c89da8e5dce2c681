----------------------------- MODULE WorkQueue -----------------------------
(***************************************************************************)
(* What both benchmarks of main.rs promise, whatever lock they use: work   *)
(* items submitted one at a time wait until a consumer processes up to     *)
(* Budget of them, and the run finishes only after all Total items have    *)
(* been submitted and processed, each once.                                *)
(***************************************************************************)
EXTENDS Naturals

CONSTANTS Total, Budget

VARIABLES waiting,        \* items submitted and not processed
          handled,        \* items processed
          finished        \* the run has reported its result

vars == <<waiting, handled, finished>>

Init == waiting = 0 /\ handled = 0 /\ finished = FALSE

Submit == /\ waiting + handled < Total
          /\ waiting' = waiting + 1
          /\ UNCHANGED <<handled, finished>>

Process == \E k \in 1 .. Budget :
             /\ k <= waiting
             /\ waiting' = waiting - k
             /\ handled' = handled + k
             /\ UNCHANGED finished

Finish == /\ handled = Total
          /\ finished' = TRUE
          /\ UNCHANGED <<waiting, handled>>

Next == Submit \/ Process \/ Finish

Spec == Init /\ [][Next]_vars

=============================================================================

----------------------------- MODULE TaskRunner -----------------------------
(***************************************************************************)
(* What the panic recovery of aarch64-baremetal-unwind promises to the     *)
(* code that starts a task, whether the task returns or panics: resources  *)
(* are released one at a time, newest first, and the starter goes on only  *)
(* when nothing of the task is left.  A core that stops instead keeps what *)
(* it holds and never goes on.                                             *)
(***************************************************************************)
EXTENDS Naturals

VARIABLES phase,          \* "between" tasks, "running" one, or "stopped"
          live            \* resources not dropped, numbered as they are made

vars == <<phase, live>>

Init == phase = "between" /\ live = {}

Start == /\ phase = "between"
         /\ phase' = "running"
         /\ UNCHANGED live

Acquire == /\ phase = "running"
           /\ \E r \in live' \ live : /\ live' = live \cup {r}
                                      /\ \A s \in live : s < r
           /\ UNCHANGED phase

Release == /\ phase = "running"
           /\ \E r \in live : /\ live' = live \ {r}
                              /\ \A s \in live : s <= r
           /\ UNCHANGED phase

Finish == /\ phase = "running" /\ live = {}
          /\ phase' = "between"
          /\ UNCHANGED live

Stop == /\ phase' = "stopped"
        /\ UNCHANGED live

Next == phase # "stopped" /\ (Start \/ Acquire \/ Release \/ Finish \/ Stop)

Spec == Init /\ [][Next]_vars

=============================================================================

-------------------------- MODULE MCPanicRecovery --------------------------
(* PanicRecovery on a small instance.  Besides the task of main.rs, main   *)
(* starts every task of two functions that have up to three and two        *)
(* instructions: those that return, panic anywhere, call twice, or use up  *)
(* the heap, which holds two exceptions or one and three boxes.            *)
EXTENDS PanicRecovery, SequencesExt

MCBoxLayout == [size |-> 2, align |-> 2]
MCExceptionLayout == [size |-> 5, align |-> 4]

(* Bodies of at most n instructions; nothing follows a panic. *)
Bodies(instrs, n) == {b \in SeqOf(instrs, n) :
                        \A i \in 1 .. Len(b) - 1 : b[i] # "panic"}

MCTasks == {<<f, g>> : f \in Bodies({"own", "box", "call", "panic"}, 3),
                       g \in Bodies({"own", "panic"}, 2)}

=============================================================================

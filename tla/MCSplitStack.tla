---------------------------- MODULE MCSplitStack ----------------------------
(* SplitStack on a small instance: two stacks of 12 units with a margin of  *)
(* 5 and a window of 4 (3 rounded up to an even number).                    *)
EXTENDS SplitStack

CONSTANT worker

MCStackTop == [t \in Threads |-> IF t = MainThread THEN 60 ELSE 30]

=============================================================================

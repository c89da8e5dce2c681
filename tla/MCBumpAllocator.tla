-------------------------- MODULE MCBumpAllocator --------------------------
(* BumpAllocator on a small instance: a heap of 10 bytes aligned to 4, with *)
(* requests that divide it, that leave gaps, and that are too large.        *)
EXTENDS BumpAllocator

MCLayouts == {[size |-> 3, align |-> 1], [size |-> 2, align |-> 2],
              [size |-> 4, align |-> 4], [size |-> 9, align |-> 8]}

=============================================================================

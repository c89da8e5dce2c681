---------------------------- MODULE MCMutexBench ----------------------------
(* MutexBench on a small instance. *)
EXTENDS MutexBench

=============================================================================

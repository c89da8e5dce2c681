-------------------------- MODULE MCSoftLockBench --------------------------
(* SoftLockBench on a small instance. *)
EXTENDS SoftLockBench

=============================================================================

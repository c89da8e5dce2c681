--------------------------- MODULE MCSoftLockOps ---------------------------
(* SoftLockOps on a small instance. *)
EXTENDS SoftLockOps

=============================================================================

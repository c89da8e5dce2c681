--------------------------- MODULE MCSoftLockIsr ---------------------------
(* SoftLockIsr on a small instance. *)
EXTENDS SoftLockIsr

=============================================================================

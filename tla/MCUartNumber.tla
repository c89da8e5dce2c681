---------------------------- MODULE MCUartNumber ----------------------------
(* UartNumber for every value of an 8-bit usize, whose largest value fills  *)
(* both buffers as 2^64 - 1 fills the real ones.                            *)
EXTENDS UartNumber

=============================================================================

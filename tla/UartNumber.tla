----------------------------- MODULE UartNumber -----------------------------
(***************************************************************************)
(* uart_usize and uart_hex (aarch64-baremetal-unwind/src/main.rs 70-101):  *)
(* a number is written backwards into a fixed buffer, then sent.           *)
(* uart_usize is called by the panic handler, where an index that goes     *)
(* below zero would be a second panic, and by task_run; uart_hex only by   *)
(* the callback of print_backtrace, which nothing calls.                   *)
(***************************************************************************)
EXTENDS Naturals, Sequences

CONSTANTS Word,           \* usize::MAX + 1
          DecimalRoom,    \* 20
          HexRoom         \* 16

(* base ^ n, as a recursive function, whose equation can be proved *)
Power(base) == LET power[n \in Nat] == IF n = 0 THEN 1 ELSE base * power[n - 1]
               IN power

(* The buffers are as long as the longest number. *)
ASSUME RoomAssumption ==
  /\ Word \in Nat /\ DecimalRoom \in Nat /\ HexRoom \in Nat
  /\ Word <= Power(10)[DecimalRoom] /\ Word <= Power(16)[HexRoom]

VARIABLES fn,             \* the function called
          arg,            \* its argument
          v, i, buf,      \* its locals; buf[k] is element k - 1
          out,            \* the bytes sent
          pc

vars == <<fn, arg, v, i, buf, out, pc>>

Base == IF fn = "uart_hex" THEN 16 ELSE 10

(* A mutant. *)
RoomShort == IF fn = "uart_hex" THEN HexRoom ELSE DecimalRoom - 1   \* [0u8; 19]

Room == IF fn = "uart_hex" THEN HexRoom ELSE DecimalRoom

(* ASCII *)
Char(d) == IF d < 10 THEN 48 + d ELSE 97 + d - 10

(* uart_print("0x") *)
Prefix == IF fn = "uart_hex" THEN <<48, 120>> ELSE <<>>

Init ==
  /\ fn \in {"uart_usize", "uart_hex"}
  /\ arg \in 0 .. Word - 1
  /\ v = arg
  /\ i = Room /\ buf = [k \in 1 .. Room |-> 0]
  /\ out = <<>>
  /\ pc = "start"

(* The prefix, and the early return for zero. *)
Begin ==
  /\ pc = "start"
  /\ IF v = 0 THEN out' = Prefix \o <<48>> /\ pc' = "returned"
              ELSE out' = Prefix /\ pc' = "loop"
  /\ UNCHANGED <<fn, arg, v, i, buf>>

Digit ==
  /\ pc = "loop" /\ v > 0
  /\ i' = i - 1
  /\ buf' = [buf EXCEPT ![i] = Char(v % Base)]
  /\ v' = v \div Base
  /\ UNCHANGED <<fn, arg, out, pc>>

(* A mutant. *)
SendAll ==                    \* &buf in place of &buf[i..]
  /\ pc = "loop" /\ v = 0
  /\ out' = out \o buf
  /\ pc' = "returned"
  /\ UNCHANGED <<fn, arg, v, i, buf>>

Send ==
  /\ pc = "loop" /\ v = 0
  /\ out' = out \o SubSeq(buf, i + 1, Room)
  /\ pc' = "returned"
  /\ UNCHANGED <<fn, arg, v, i, buf>>

Returned == pc = "returned" /\ UNCHANGED vars

Next == Begin \/ Digit \/ Send \/ Returned

Spec == Init /\ [][Next]_vars

-----------------------------------------------------------------------------
(* i -= 1 never goes below zero: the buffer has room for every usize. *)
IndexInBuffer == pc = "loop" /\ v > 0 => i > 0

(* The reference: what a reader takes the bytes after the prefix for. *)
DigitOf(c) == IF c < 58 THEN c - 48 ELSE c - 97 + 10

Read(s) == LET upTo[n \in 0 .. Len(s)] ==
                 IF n = 0 THEN 0 ELSE upTo[n - 1] * Base + DigitOf(s[n])
           IN upTo[Len(s)]

(* What was sent reads as the argument, in digits of the base, without     *)
(* leading zeros.                                                          *)
SendsItsArgument ==
  pc = "returned" =>
    LET digits == SubSeq(out, Len(Prefix) + 1, Len(out))
    IN /\ out = Prefix \o digits
       /\ \A k \in DOMAIN digits : DigitOf(digits[k]) \in 0 .. Base - 1
       /\ digits[1] # 48 \/ Len(digits) = 1
       /\ Read(digits) = arg

=============================================================================

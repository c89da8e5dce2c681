-------------------------- MODULE UartNumber_proof --------------------------
(***************************************************************************)
(* UartNumber proved for every word size and every pair of buffers that    *)
(* RoomAssumption allows: the index stays in the buffer, and what is sent  *)
(* reads as the argument.                                                  *)
(***************************************************************************)
EXTENDS UartNumber, NaturalsInduction, WellFoundedInduction, SequenceTheorems,
        TLAPS

-----------------------------------------------------------------------------
(* A set of numbers with 0 and the successor of each of its members holds  *)
(* every number.  (The induction rule of the library has an operator for a *)
(* parameter; this one is about a set.)                                    *)
LEMMA SetInduction ==
  ASSUME NEW S, 0 \in S, \A n \in Nat : n \in S => n + 1 \in S
  PROVE  Nat \subseteq S
<1> DEFINE T == Nat \ S
<1>1. SUFFICES ASSUME T # {}
               PROVE  FALSE
  OBVIOUS
<1>2. PICK x \in T : \A y \in T : ~(<<y, x>> \in OpToRel(<, Nat))
  <2>1. IsWellFoundedOn(OpToRel(<, Nat), Nat)
    BY NatLessThanWellFounded
  <2> QED BY <1>1, <2>1, WFMin
<1>3. \A y \in T : <<y, x>> \in OpToRel(<, Nat) <=> y < x
  BY DEF OpToRel
<1>4. \A y \in T : ~(y < x)
  BY <1>2, <1>3
<1>5. x \in Nat /\ x # 0
  OBVIOUS
<1>6. x - 1 \in Nat /\ x - 1 < x /\ x - 1 + 1 = x
  BY <1>5
<1>7. x - 1 \in S
  BY <1>4, <1>6
<1> QED BY <1>6, <1>7

(* The equation that defines Power has a solution: for each n there is one *)
(* function on 0 .. n that satisfies it so far, and they agree.            *)
LEMMA PowerExists ==
  ASSUME NEW b \in Nat
  PROVE  \E p \in [Nat -> Nat] : p = [n \in Nat |-> IF n = 0 THEN 1 ELSE b * p[n - 1]]
<1> DEFINE Upto(g, n) == /\ g \in [0 .. n -> Nat]
                         /\ g[0] = 1
                         /\ \A k \in 0 .. n : k # 0 => g[k] = b * g[k - 1]
           S == {n \in Nat : \E g : Upto(g, n)}
<1>0. \A x \in Nat : b * x \in Nat
  OBVIOUS
<1>1. \A n \in Nat : \E g : Upto(g, n)
  <2>1. 0 \in S
    <3>1. Upto([k \in 0 .. 0 |-> 1], 0)
      OBVIOUS
    <3> QED BY <3>1
  <2>2. ASSUME NEW n \in Nat, n \in S
        PROVE  n + 1 \in S
    <3>1. PICK g : Upto(g, n)
      BY <2>2
    <3> DEFINE h == [k \in 0 .. n + 1 |-> IF k = n + 1 THEN b * g[n] ELSE g[k]]
    <3>2. g[n] \in Nat /\ b * g[n] \in Nat
      BY <3>1, <1>0
    <3>3. h \in [0 .. n + 1 -> Nat]
      BY <3>1, <3>2
    <3>4. h[0] = 1
      BY <3>1
    <3>5. ASSUME NEW k \in 0 .. n + 1, k # 0
          PROVE  h[k] = b * h[k - 1]
      <4>0. k - 1 \in 0 .. n /\ k - 1 \in 0 .. n + 1 /\ k - 1 # n + 1
        BY <3>5
      <4>1. h[k - 1] = g[k - 1]
        BY <4>0
      <4>2. CASE k = n + 1
        BY <4>2, <4>1
      <4>3. CASE k # n + 1
        <5>1. k \in 0 .. n
          BY <4>3
        <5>2. g[k] = b * g[k - 1]
          BY <3>1, <5>1, <3>5
        <5>3. h[k] = g[k]
          BY <4>3
        <5> QED BY <5>2, <5>3, <4>1
      <4> QED BY <4>2, <4>3
    <3>6. Upto(h, n + 1)
      BY <3>3, <3>4, <3>5
    <3>7. \E e : Upto(e, n + 1)
      <4> HIDE DEF h, Upto
      <4> QED BY <3>6
    <3> HIDE DEF Upto
    <3> QED BY <3>7
  <2>3. Nat \subseteq S
    <3> HIDE DEF S
    <3> QED BY <2>1, <2>2, SetInduction
  <2> QED BY <2>3
<1>2. ASSUME NEW m \in Nat, NEW n \in Nat, NEW g, NEW h, Upto(g, m), Upto(h, n)
      PROVE  \A k \in 0 .. m : k <= n => g[k] = h[k]
  <2> DEFINE E == {k \in Nat : k <= m /\ k <= n => g[k] = h[k]}
  <2>1. 0 \in E
    BY <1>2
  <2>2. ASSUME NEW k \in Nat, k \in E
        PROVE  k + 1 \in E
    <3>1. SUFFICES ASSUME k + 1 <= m, k + 1 <= n
                   PROVE  g[k + 1] = h[k + 1]
      OBVIOUS
    <3>2. k + 1 \in 0 .. m /\ k + 1 \in 0 .. n /\ k + 1 # 0 /\ k + 1 - 1 = k
      BY <3>1
    <3>3. g[k + 1] = b * g[k] /\ h[k + 1] = b * h[k]
      BY <1>2, <3>2
    <3>4. g[k] = h[k]
      BY <2>2, <3>1
    <3> QED BY <3>3, <3>4
  <2>3. Nat \subseteq E
    <3> HIDE DEF E
    <3> QED BY <2>1, <2>2, SetInduction
  <2> QED BY <2>3
<1> DEFINE G == [n \in Nat |-> CHOOSE g : Upto(g, n)]
           p == [n \in Nat |-> G[n][n]]
<1>3. \A n \in Nat : Upto(G[n], n)
  BY <1>1
<1>4. p \in [Nat -> Nat]
  <2>1. ASSUME NEW n \in Nat PROVE G[n][n] \in Nat
    <3>1. G[n] \in [0 .. n -> Nat]
      BY <1>3
    <3> HIDE DEF G
    <3> QED BY <3>1
  <2> HIDE DEF G
  <2> QED BY <2>1
<1>5. ASSUME NEW n \in Nat
      PROVE  p[n] = IF n = 0 THEN 1 ELSE b * p[n - 1]
  <2> HIDE DEF G
  <2>1. CASE n = 0
    BY <2>1, <1>3
  <2>2. CASE n # 0
    <3>1. n - 1 \in Nat /\ n - 1 \in 0 .. n - 1 /\ n - 1 <= n /\ n \in 0 .. n
      BY <2>2
    <3>2. Upto(G[n], n) /\ Upto(G[n - 1], n - 1)
      BY <1>3, <3>1
    <3> HIDE DEF Upto
    <3>3. G[n - 1][n - 1] = G[n][n - 1]
      BY <3>1, <3>2, <1>2
    <3>4. G[n][n] = b * G[n][n - 1]
      BY <3>1, <3>2, <2>2 DEF Upto
    <3> QED BY <2>2, <3>1, <3>3, <3>4
  <2> QED BY <2>1, <2>2
<1>6. p = [n \in Nat |-> IF n = 0 THEN 1 ELSE b * p[n - 1]]
  <2> HIDE DEF G
  <2>1. p = [n \in Nat |-> p[n]]
    OBVIOUS
  <2> HIDE DEF p
  <2> QED BY <2>1, <1>5
<1> HIDE DEF p
<1> QED BY <1>4, <1>6

(* Power is what it is defined to be: 1 at 0, and base times more at each  *)
(* step.                                                                   *)
LEMMA PowerEquation ==
  ASSUME NEW b \in Nat
  PROVE  /\ Power(b)[0] = 1
         /\ \A n \in Nat : Power(b)[n + 1] = b * Power(b)[n]
<1>1. Power(b) = [n \in Nat |-> IF n = 0 THEN 1 ELSE b * Power(b)[n - 1]]
  BY PowerExists DEF Power
<1> HIDE DEF Power
<1>2. \A n \in Nat : Power(b)[n] = IF n = 0 THEN 1 ELSE b * Power(b)[n - 1]
  BY <1>1
<1>3. \A n \in Nat : n + 1 \in Nat /\ n + 1 # 0 /\ n + 1 - 1 = n
  OBVIOUS
<1> QED BY <1>2, <1>3

(* A power of a natural number is one.                                     *)
LEMMA PowerNat == ASSUME NEW b \in Nat, NEW n \in Nat PROVE Power(b)[n] \in Nat
<1> DEFINE S == {k \in Nat : Power(b)[k] \in Nat}
<1>0. \A x \in Nat : b * x \in Nat
  OBVIOUS
<1>1. 0 \in S
  BY PowerEquation
<1>2. ASSUME NEW k \in Nat, k \in S PROVE k + 1 \in S
  BY <1>0, <1>2, PowerEquation
<1>3. Nat \subseteq S
  <2> HIDE DEF S
  <2> QED BY <1>1, <1>2, SetInduction
<1> QED BY <1>3

-----------------------------------------------------------------------------
(* The room there is for a number: v fits into the i elements left of the  *)
(* buffer.                                                                 *)
Fits == pc # "returned" => i \in 0 .. Room /\ v < Power(Base)[i]

TypeOK ==
  /\ fn \in {"uart_hex", "uart_usize"}
  /\ arg \in Nat /\ v \in Nat /\ i \in Nat
  /\ pc \in {"start", "loop", "returned"}

(* The index never goes below zero: uart_hex and uart_usize have a buffer  *)
(* as long as the longest number of their base.                            *)
LEMMA FitsInit == Init => TypeOK /\ Fits
<1> SUFFICES ASSUME Init PROVE TypeOK /\ Fits
  OBVIOUS
<1> USE RoomAssumption
<1>1. TypeOK
  BY DEF Init, TypeOK, Room
<1>2. v < Word /\ i = Room
  BY DEF Init
<1>3. Word <= Power(Base)[Room]
  BY DEF Base, Room
<1>4. Power(Base)[Room] \in Nat
  BY PowerNat DEF Base, Room
<1> QED BY <1>1, <1>2, <1>3, <1>4 DEF Fits, TypeOK, Room

(* ... and every step of the two loops keeps it so.                        *)
LEMMA FitsStep == TypeOK /\ Fits /\ [Next]_vars => (TypeOK /\ Fits)'
<1> SUFFICES ASSUME TypeOK, Fits, [Next]_vars PROVE TypeOK' /\ Fits'
  OBVIOUS
<1> USE DEF TypeOK
<1>1. CASE Begin
  BY <1>1 DEF Begin, Fits, Room, Base
<1>2. CASE Digit
  <2> USE <1>2 DEF Digit
  <2>1. i \in 0 .. Room /\ v < Power(Base)[i]
    BY DEF Fits
  <2>2. Base \in {10, 16}
    BY DEF Base
  <2>3. i # 0
    BY <2>1, <2>2, PowerEquation
  <2>4. i - 1 \in Nat /\ i - 1 + 1 = i
    BY <2>3
  <2>5. Power(Base)[i] = Base * Power(Base)[i - 1] /\ Power(Base)[i - 1] \in Nat
    BY <2>2, <2>4, PowerEquation, PowerNat
  <2>6. \A p \in Nat : v < Base * p => v \div Base < p
    <3>1. CASE Base = 10
      BY <3>1
    <3>2. CASE Base = 16
      BY <3>2
    <3> QED BY <2>2, <3>1, <3>2
  <2>7. v \div Base < Power(Base)[i - 1]
    BY <2>1, <2>5, <2>6
  <2>8. TypeOK'
    <3>1. v \div Base \in Nat
      BY <2>2
    <3> QED BY <2>4, <3>1
  <2>9. i - 1 \in 0 .. Room /\ Room' = Room /\ Base' = Base
    <3>1. Room' = Room /\ Base' = Base
      BY DEF Room, Base
    <3>2. Room \in Nat
      BY RoomAssumption DEF Room
    <3> QED BY <2>1, <2>4, <3>1, <3>2
  <2> QED BY <2>7, <2>8, <2>9 DEF Fits
<1>3. CASE Send
  BY <1>3 DEF Send, Fits
<1>4. CASE UNCHANGED vars
  BY <1>4 DEF vars, Fits, Room, Base
<1> QED BY <1>1, <1>2, <1>3, <1>4 DEF Next, Returned

(* A number that is not 0 needs an element.                                *)
LEMMA IndexFromFits == TypeOK /\ Fits => IndexInBuffer
<1> SUFFICES ASSUME TypeOK, Fits, pc = "loop", v > 0 PROVE i > 0
  BY DEF IndexInBuffer
<1>1. Base \in Nat
  BY DEF Base
<1>2. i \in Nat /\ v < Power(Base)[i]
  BY DEF Fits, TypeOK
<1>3. i # 0
  BY <1>1, <1>2, PowerEquation DEF TypeOK
<1> QED BY <1>2, <1>3

(* i -= 1 has an index to take from: the panic handler does not panic.     *)
THEOREM IndexStaysInBuffer == Spec => []IndexInBuffer
BY FitsInit, FitsStep, IndexFromFits, PTL DEF Spec

-----------------------------------------------------------------------------
(* What a reader takes a number for follows from what the reader takes its *)
(* beginnings for.                                                         *)
LEMMA ReadFromTheLeft ==
  ASSUME NEW s \in Seq(Nat), NEW A \in [0 .. Len(s) -> Nat], A[0] = 0,
         \A n \in 1 .. Len(s) : A[n] = A[n - 1] * Base + DigitOf(s[n])
  PROVE  Read(s) = A[Len(s)]
<1> DEFINE Solves(g) == g = [n \in 0 .. Len(s) |->
                               IF n = 0 THEN 0 ELSE g[n - 1] * Base + DigitOf(s[n])]
           upTo == CHOOSE g : Solves(g)
<1>0. Len(s) \in Nat
  BY LenProperties
<1> HIDE DEF Base, DigitOf
<1>1. Solves(A)
  <2>1. A = [n \in 0 .. Len(s) |-> A[n]]
    OBVIOUS
  <2>2. \A n \in 0 .. Len(s) : A[n] = IF n = 0 THEN 0 ELSE A[n - 1] * Base + DigitOf(s[n])
    BY <1>0
  <2> QED BY <2>1, <2>2
<1>2. Solves(upTo)
  <2> HIDE DEF Solves
  <2> QED BY <1>1
<1> DEFINE S == {n \in Nat : n <= Len(s) => upTo[n] = A[n]}
<1>3. Read(s) = upTo[Len(s)]
  BY DEF Read
<1> HIDE DEF upTo
<1>4. \A n \in 0 .. Len(s) :
        upTo[n] = IF n = 0 THEN 0 ELSE upTo[n - 1] * Base + DigitOf(s[n])
  BY <1>2
<1>5. 0 \in S
  BY <1>0, <1>4
<1>6. ASSUME NEW n \in Nat, n \in S
      PROVE  n + 1 \in S
  <2> SUFFICES ASSUME n + 1 <= Len(s) PROVE upTo[n + 1] = A[n + 1]
    OBVIOUS
  <2>1. n + 1 \in 0 .. Len(s) /\ n + 1 \in 1 .. Len(s) /\ n + 1 # 0 /\ n + 1 - 1 = n
    BY <1>0
  <2>2. upTo[n] = A[n]
    BY <1>0, <1>6
  <2> QED BY <1>4, <2>1, <2>2
<1>7. Nat \subseteq S
  <2> HIDE DEF S
  <2> QED BY <1>5, <1>6, SetInduction
<1> QED BY <1>0, <1>3, <1>7

(* Char writes a digit that DigitOf reads; only zero is written as "0".    *)
LEMMA CharRead ==
  ASSUME NEW d \in 0 .. Base - 1
  PROVE  /\ Char(d) \in Nat /\ DigitOf(Char(d)) = d
         /\ Char(d) = 48 <=> d = 0
BY DEF Char, DigitOf, Base

(* v = q * Base + d, and the digit is one.                                 *)
LEMMA Division ==
  ASSUME NEW x \in Nat
  PROVE  /\ x \div Base \in Nat /\ x % Base \in 0 .. Base - 1
         /\ x = (x \div Base) * Base + (x % Base)
<1>1. Base \in {10, 16}
  BY DEF Base
<1>2. CASE Base = 10
  BY <1>2
<1>3. CASE Base = 16
  BY <1>3
<1> QED BY <1>1, <1>2, <1>3

(* The first digit of a number is not 0.                                   *)
LEMMA FirstDigit ==
  ASSUME NEW x \in Nat, x # 0, x \div Base = 0
  PROVE  x % Base # 0
<1>1. Base \in {10, 16}
  BY DEF Base
<1>2. CASE Base = 10
  BY <1>2
<1>3. CASE Base = 16
  BY <1>3
<1> QED BY <1>1, <1>2, <1>3

(* In the loop the buffer holds the digits taken off so far, the last one  *)
(* at its end: the quotients A lead from the argument down to v, and no    *)
(* digit was taken off zero.                                               *)
Quotients(A) ==
  /\ A \in [0 .. Room - i -> Nat]
  /\ A[0] = arg /\ A[Room - i] = v
  /\ \A m \in 0 .. Room - i :
       m # Room - i => /\ A[m] # 0
                       /\ A[m + 1] = A[m] \div Base
                       /\ buf[Room - m] = Char(A[m] % Base)

Written ==
  /\ pc = "start" => v = arg /\ i = Room
  /\ pc = "loop" => out = Prefix /\ arg # 0 /\ \E A : Quotients(A)

Buffer == buf \in [1 .. Room -> Nat]

(* Where what was sent begins.                                             *)
LEMMA AfterPrefix ==
  ASSUME NEW D \in Seq(Nat), NEW o, o = Prefix \o D
  PROVE  SubSeq(o, Len(Prefix) + 1, Len(o)) = D
<1>1. Prefix \in Seq(Nat)
  BY DEF Prefix
<1> HIDE DEF Prefix
<1>2. Len(Prefix) \in Nat /\ Len(D) \in Nat
  BY <1>1, LenProperties
<1>3. /\ o \in Seq(Nat) /\ Len(o) = Len(Prefix) + Len(D)
      /\ \A k \in 1 .. Len(Prefix) + Len(D) :
           o[k] = IF k <= Len(Prefix) THEN Prefix[k] ELSE D[k - Len(Prefix)]
  BY <1>1, ConcatProperties
<1> DEFINE E == SubSeq(o, Len(Prefix) + 1, Len(o))
<1>4. \A k \in 1 .. Len(D) : o[Len(Prefix) + k] = D[k]
  BY <1>2, <1>3
<1>5. \A k \in Len(Prefix) + 1 .. Len(o) : o[k] \in Nat
  BY <1>2, <1>3, ElementOfSeq
<1>6. /\ E \in Seq(Nat)
      /\ Len(E) = IF Len(Prefix) + 1 <= Len(o) THEN Len(o) - (Len(Prefix) + 1) + 1 ELSE 0
      /\ \A k \in 1 .. Len(o) - (Len(Prefix) + 1) + 1 : E[k] = o[Len(Prefix) + 1 + k - 1]
  <2>1. Len(Prefix) + 1 \in Int /\ Len(o) \in Int
    BY <1>2, <1>3
  <2> QED BY <1>5, <2>1, SubSeqProperties
<1> HIDE DEF E
<1>7. Len(E) = Len(D)
  BY <1>2, <1>3, <1>6
<1>8. ASSUME NEW k \in 1 .. Len(D) PROVE E[k] = D[k]
  <2>1. Len(Prefix) + 1 + k - 1 = Len(Prefix) + k /\ k \in 1 .. Len(o) - (Len(Prefix) + 1) + 1
    BY <1>2, <1>3
  <2> QED BY <1>4, <1>6, <2>1
<1>9. E = D
  BY <1>6, <1>7, <1>8, SeqEqual
<1> QED BY <1>9 DEF E

(* What SendsItsArgument asks, with the digits named.                      *)
Reads(d) ==
  /\ out = Prefix \o d
  /\ \A k \in DOMAIN d : DigitOf(d[k]) \in 0 .. Base - 1
  /\ d[1] # 48 \/ Len(d) = 1
  /\ Read(d) = arg

Sent == pc = "returned" => \E d \in Seq(Nat) : Reads(d)

(* The digits are what comes after the prefix.                             *)
LEMMA SentIsEnough == Sent => SendsItsArgument
<1> SUFFICES ASSUME pc = "returned", NEW d \in Seq(Nat), Reads(d)
             PROVE  SendsItsArgument
  BY DEF Sent, SendsItsArgument
<1>1. SubSeq(out, Len(Prefix) + 1, Len(out)) = d
  BY AfterPrefix DEF Reads
<1> QED BY <1>1 DEF SendsItsArgument, Reads

(* Nothing is written at the start.                                        *)
LEMMA WrittenInit == Init => Written /\ Buffer
BY DEF Init, Written, Buffer, Room

(* Digit takes one more quotient and writes one more digit; the rest of    *)
(* the buffer stays.                                                       *)
LEMMA WrittenStep == TypeOK /\ Fits /\ Written /\ Buffer /\ [Next]_vars => (Written /\ Buffer)'
<1> SUFFICES ASSUME TypeOK, Fits, Written, Buffer, [Next]_vars PROVE Written' /\ Buffer'
  OBVIOUS
<1>0. Room \in Nat
  BY RoomAssumption DEF Room
<1>1. CASE Begin
  <2> USE <1>1 DEF Begin
  <2>1. Buffer'
    BY DEF Buffer, Room
  <2>2. ASSUME pc' = "loop"
        PROVE  (out = Prefix /\ arg # 0 /\ \E A : Quotients(A))'
    <3>1. v = arg /\ i = Room /\ arg # 0 /\ arg \in Nat
      BY <2>2 DEF Written, TypeOK
    <3> DEFINE A == [m \in 0 .. 0 |-> arg]
    <3>2. Room' - i' = 0 /\ v' = arg /\ arg' = arg
      BY <3>1, <1>0 DEF Room
    <3>3. Quotients(A)'
      BY <3>1, <3>2 DEF Quotients
    <3>4. out' = Prefix'
      BY <2>2 DEF Prefix
    <3> HIDE DEF A
    <3>5. (\E B : Quotients(B))'
      BY <3>3
    <3> QED BY <3>1, <3>2, <3>4, <3>5
  <2>3. pc' # "start"
    OBVIOUS
  <2> QED BY <2>1, <2>2, <2>3 DEF Written
<1>2. CASE Digit
  <2> USE <1>2 DEF Digit
  <2>1. v \in Nat /\ v # 0 /\ i \in Nat /\ i <= Room
    BY DEF TypeOK, Fits
  <2>2. i # 0
    BY IndexFromFits DEF IndexInBuffer, TypeOK
  <2>3. Room' = Room /\ Base' = Base /\ Prefix' = Prefix
    BY DEF Room, Base, Prefix
  <2>4. /\ v \div Base \in Nat /\ v % Base \in 0 .. Base - 1
        /\ Char(v % Base) \in Nat
    BY <2>1, Division, CharRead
  <2>5. Buffer'
    BY <2>3, <2>4 DEF Buffer
  <2>6. PICK A : Quotients(A)
    BY DEF Written
  <2> DEFINE L == Room - i
             B == [m \in 0 .. L + 1 |-> IF m = L + 1 THEN v \div Base ELSE A[m]]
  <2>7. L \in Nat /\ Room' - i' = L + 1 /\ i = Room - L
    BY <2>1, <2>2, <2>3, <1>0
  <2>8. /\ A \in [0 .. L -> Nat] /\ A[0] = arg /\ A[L] = v
        /\ \A m \in 0 .. L : m # L => /\ A[m] # 0
                                     /\ A[m + 1] = A[m] \div Base
                                     /\ buf[Room - m] = Char(A[m] % Base)
    BY <2>6 DEF Quotients
  <2> HIDE DEF L
  <2>9. \E C : C = B
    OBVIOUS
  <2>10. PICK C : C = B
    BY <2>9
  <2>11. Quotients(C)'
    <3>1. B \in [0 .. L + 1 -> Nat]
      BY <2>4, <2>7, <2>8
    <3>2. B[0] = arg /\ B[L + 1] = v \div Base
      BY <2>7, <2>8
    <3>3. ASSUME NEW m \in 0 .. L + 1, m # L + 1
          PROVE  B[m] # 0 /\ B[m + 1] = B[m] \div Base /\ buf'[Room - m] = Char(B[m] % Base)
      <4>1. CASE m = L
        <5>1. B[m] = v /\ B[m + 1] = v \div Base
          BY <4>1, <2>7, <2>8
        <5>2. buf'[i] = Char(v % Base)
          BY <2>1, <2>2, <1>0 DEF Buffer
        <5> QED BY <5>1, <5>2, <4>1, <2>1, <2>7
      <4>2. CASE m # L
        <5>1. m \in 0 .. L /\ m + 1 \in 0 .. L
          BY <4>2, <3>3, <2>7
        <5>2. B[m] = A[m] /\ B[m + 1] = A[m + 1]
          BY <5>1, <2>7
        <5>3. Room - m # i
          BY <4>2, <5>1, <2>7, <2>1, <1>0
        <5>4. buf'[Room - m] = buf[Room - m]
          <6>1. Room - m \in 1 .. Room
            BY <5>1, <4>2, <2>1, <2>7, <1>0
          <6> QED BY <5>3, <6>1 DEF Buffer
        <5> QED BY <5>1, <5>2, <5>4, <4>2, <2>8
      <4> QED BY <4>1, <4>2
    <3> HIDE DEF B
    <3>4. /\ C \in [0 .. L + 1 -> Nat] /\ C[0] = arg' /\ C[L + 1] = v'
          /\ \A m \in 0 .. L + 1 : m # L + 1 => /\ C[m] # 0
                                               /\ C[m + 1] = C[m] \div Base'
                                               /\ buf'[Room' - m] = Char(C[m] % Base')
      BY <3>1, <3>2, <3>3, <2>3, <2>10
    <3> QED BY <3>4, <2>7 DEF Quotients
  <2>12. (\E E : Quotients(E))'
    BY <2>11
  <2> QED BY <2>3, <2>5, <2>12 DEF Written
<1>3. CASE Send
  BY <1>3 DEF Send, Written, Buffer, Room
<1>4. CASE UNCHANGED vars
  BY <1>4 DEF vars, Written, Quotients, Buffer, Room, Base, Prefix
<1> QED BY <1>1, <1>2, <1>3, <1>4 DEF Next, Returned

(* When v has come down to 0 the digits in the buffer, the first of them   *)
(* not a zero, read as the argument.                                       *)
LEMMA SendReads ==
  ASSUME TypeOK, Fits, Written, Buffer, Send
  PROVE  Sent'
<1> USE DEF Send
<1>0. Room \in Nat /\ i \in Nat /\ i <= Room /\ v = 0
  BY RoomAssumption DEF Room, Fits, TypeOK
<1>1. Room' = Room /\ Base' = Base /\ Prefix' = Prefix
  BY DEF Room, Base, Prefix
<1>2. PICK A : Quotients(A)
  BY DEF Written
<1> DEFINE L == Room - i
           D == SubSeq(buf, i + 1, Room)
<1>3. L \in Nat /\ L # 0
  <2>1. A[0] # 0 /\ A[Room - i] = 0
    BY <1>0, <1>2 DEF Quotients, Written
  <2> QED BY <1>0, <2>1
<1>4. /\ A \in [0 .. L -> Nat] /\ A[0] = arg /\ A[L] = 0
      /\ \A m \in 0 .. L : m # L => /\ A[m] # 0
                                   /\ A[m + 1] = A[m] \div Base
                                   /\ buf[Room - m] = Char(A[m] % Base)
  BY <1>0, <1>2 DEF Quotients
<1>5. /\ D \in Seq(Nat) /\ Len(D) = L
      /\ \A n \in 1 .. L : D[n] = buf[i + n]
  <2>1. \A k \in i + 1 .. Room : buf[k] \in Nat
    BY <1>0 DEF Buffer
  <2>2. i + 1 \in Int /\ Room \in Int
    BY <1>0
  <2>3. /\ D \in Seq(Nat)
        /\ Len(D) = IF i + 1 <= Room THEN Room - (i + 1) + 1 ELSE 0
        /\ \A n \in 1 .. Room - (i + 1) + 1 : D[n] = buf[i + 1 + n - 1]
    BY <2>1, <2>2, SubSeqProperties
  <2> HIDE DEF D
  <2>4. \A n \in 1 .. L : n \in 1 .. Room - (i + 1) + 1 /\ i + 1 + n - 1 = i + n
    BY <1>0
  <2>5. i + 1 <= Room /\ Room - (i + 1) + 1 = L
    BY <1>0, <1>3
  <2> HIDE DEF L
  <2>6. Len(D) = L
    BY <2>3, <2>5
  <2> QED BY <2>3, <2>4, <2>6
<1>6. out' = Prefix' \o D /\ D \in Seq(Nat)
  BY <1>1, <1>5 DEF Written
<1> HIDE DEF D, L
<1>7. ASSUME NEW n \in 1 .. L
      PROVE  /\ A[L - n] \in Nat /\ L - n \in 0 .. L /\ A[L - n] # 0
             /\ A[L - (n - 1)] = A[L - n] \div Base
             /\ D[n] = Char(A[L - n] % Base)
             /\ DigitOf(D[n]) = A[L - n] % Base
             /\ D[n] = 48 => A[L - n] % Base = 0
  <2>1. L - n \in 0 .. L /\ L - n # L /\ L - n + 1 = L - (n - 1) /\ Room - (L - n) = i + n
    BY <1>0, <1>3 DEF L
  <2>2. /\ A[L - n] \in Nat /\ A[L - n] # 0
        /\ A[L - (n - 1)] = A[L - n] \div Base
        /\ D[n] = Char(A[L - n] % Base)
    BY <2>1, <1>4, <1>5
  <2>3. A[L - n] % Base \in 0 .. Base - 1
    BY <2>2, Division
  <2> QED BY <2>1, <2>2, <2>3, CharRead
<1>8. \A k \in DOMAIN D : DigitOf(D[k]) \in 0 .. Base - 1
  <2>1. DOMAIN D = 1 .. L
    BY <1>5, LenProperties
  <2> QED BY <2>1, <1>7, Division
<1>9. D[1] # 48
  <2>1. 1 \in 1 .. L /\ L - (1 - 1) = L
    BY <1>3
  <2>2. A[L - 1] \in Nat /\ A[L - 1] # 0 /\ A[L - 1] \div Base = 0
    BY <2>1, <1>4, <1>7
  <2>3. A[L - 1] % Base # 0
    BY <2>2, FirstDigit
  <2> QED BY <2>1, <2>3, <1>7
<1> DEFINE B == [n \in 0 .. L |-> A[L - n]]
<1>10. Read(D) = B[L]
  <2>1. \A n \in 0 .. L : L - n \in 0 .. L
    BY <1>3
  <2>2. B \in [0 .. Len(D) -> Nat] /\ B[0] = 0
    BY <2>1, <1>3, <1>4, <1>5
  <2>3. ASSUME NEW n \in 1 .. Len(D)
        PROVE  B[n] = B[n - 1] * Base + DigitOf(D[n])
    <3>1. n \in 1 .. L /\ n \in 0 .. L /\ n - 1 \in 0 .. L
      BY <1>3, <1>5
    <3>2. B[n] = A[L - n] /\ B[n - 1] = A[L - n] \div Base /\ DigitOf(D[n]) = A[L - n] % Base
      BY <3>1, <1>7
    <3> HIDE DEF B
    <3> QED BY <3>1, <3>2, <1>7, Division
  <2> HIDE DEF B
  <2> QED BY <1>5, <2>2, <2>3, ReadFromTheLeft
<1>11. Read(D) = arg
  BY <1>3, <1>4, <1>10
<1>12. PICK d : d = D
  OBVIOUS
<1>13. Read(d)' = arg'
  BY <1>1, <1>11, <1>12 DEF Read
<1>14. \A k \in DOMAIN d : DigitOf(d[k]) \in 0 .. Base' - 1
  BY <1>1, <1>8, <1>12
<1>15. out' = Prefix' \o d /\ d[1] # 48
  BY <1>6, <1>9, <1>12
<1>16. d \in Seq(Nat)
  BY <1>5, <1>12
<1>17. Reads(d)'
  BY <1>13, <1>14, <1>15 DEF Reads
<1> QED BY <1>16, <1>17 DEF Sent

(* Zero is sent as one "0", without the buffer.                            *)
LEMMA ZeroReads == Read(<<48>>) = 0
<1> DEFINE A == [n \in 0 .. 1 |-> 0]
<1>1. <<48>> \in Seq(Nat) /\ Len(<<48>>) = 1 /\ A \in [0 .. 1 -> Nat] /\ A[0] = 0
  OBVIOUS
<1>2. \A n \in 1 .. 1 : A[n] = A[n - 1] * Base + DigitOf(<<48>>[n])
  BY DEF Base, DigitOf
<1>3. A[1] = 0
  OBVIOUS
<1> HIDE DEF A
<1>4. Read(<<48>>) = A[Len(<<48>>)]
  BY <1>1, <1>2, ReadFromTheLeft
<1> QED BY <1>1, <1>3, <1>4

(* The early return.                                                       *)
LEMMA BeginReads ==
  ASSUME TypeOK, Written, Begin
  PROVE  Sent'
<1> USE DEF Begin
<1>1. CASE v = 0
  <2>1. Base' = Base /\ Prefix' = Prefix
    BY DEF Base, Prefix
  <2> DEFINE d == <<48>>
  <2>2. d \in Seq(Nat) /\ Len(d) = 1 /\ DOMAIN d = {1} /\ d[1] = 48
    OBVIOUS
  <2>3. arg' = 0
    BY <1>1 DEF Written
  <2>4. Read(d)' = arg'
    <3>1. (Read(<<48>>) = 0)'
      BY ZeroReads, PTL
    <3> QED BY <2>3, <3>1
  <2>5. \A k \in DOMAIN d : DigitOf(d[k]) \in 0 .. Base' - 1
    BY <2>1, <2>2 DEF DigitOf, Base
  <2>6. out' = Prefix' \o d
    BY <1>1, <2>1
  <2> HIDE DEF d
  <2>7. Reads(d)'
    BY <2>2, <2>4, <2>5, <2>6 DEF Reads
  <2> QED BY <2>2, <2>7 DEF Sent
<1>2. CASE v # 0
  BY <1>2 DEF Sent
<1> QED BY <1>1, <1>2

(* A caller that prints a number gets the digits of that number: what      *)
(* uart_hex and uart_usize have sent when they return reads as their       *)
(* argument, without leading zeros.                                        *)
THEOREM NumberIsSent == Spec => []SendsItsArgument
<1> DEFINE IInv == TypeOK /\ Fits /\ Buffer /\ Written /\ Sent
<1>1. Init => IInv
  <2>1. Init => Sent
    BY DEF Init, Sent
  <2> QED BY <2>1, FitsInit, WrittenInit
<1>2. IInv /\ [Next]_vars => IInv'
  <2>1. ASSUME IInv, [Next]_vars
        PROVE  Sent'
    <3>1. CASE Begin
      BY <2>1, <3>1, BeginReads
    <3>2. CASE Digit
      BY <3>2 DEF Digit, Sent
    <3>3. CASE Send
      BY <2>1, <3>3, SendReads
    <3>4. CASE UNCHANGED vars
      <4> SUFFICES ASSUME pc = "returned" PROVE (\E d \in Seq(Nat) : Reads(d))'
        BY <3>4 DEF vars, Sent
      <4>1. PICK d \in Seq(Nat) : Reads(d)
        BY <2>1 DEF Sent
      <4>2. Base' = Base /\ Prefix' = Prefix /\ out' = out /\ arg' = arg
        BY <3>4 DEF vars, Base, Prefix
      <4>3. Read(d)' = Read(d)
        BY <4>2 DEF Read
      <4>4. Reads(d)'
        BY <4>1, <4>2, <4>3 DEF Reads
      <4> QED BY <4>4
    <3> QED BY <2>1, <3>1, <3>2, <3>3, <3>4 DEF Next, Returned
  <2> QED BY <2>1, FitsStep, WrittenStep
<1> QED BY <1>1, <1>2, SentIsEnough, PTL DEF Spec

=============================================================================

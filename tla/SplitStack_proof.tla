-------------------------- MODULE SplitStack_proof --------------------------
(***************************************************************************)
(* Proofs about SplitStack, for every set of threads, stack layout and     *)
(* size of prologues, allocas and library calls within its assumptions.    *)
(***************************************************************************)
EXTENDS SplitStack, SequenceTheorems, TLAPS

(* The soft bound without the machine's wrap-around. *)
TrueBound(t) == Bottom(t) + kGuardMargin

(* Stack pointers that a passed check vouches for. *)
Window(t) == {a \in 0 .. Word - 1 : TrueBound(t) + Frame <= a}

(* Machine arithmetic that does not wrap. *)
LEMMA NoWrap ==
  ASSUME NEW w \in Nat, NEW x \in 0 .. w - 1
  PROVE  x % w = x
OBVIOUS

(* What the assumptions give for one thread: its bound is an address with  *)
(* a whole window above it, and a window fits below the whole stack.       *)
LEMMA Layout ==
  ASSUME NEW t \in Threads
  PROVE  /\ Word \in Nat /\ Frame \in Nat
         /\ kGuardMargin \in Nat /\ MaxStack \in Nat
         /\ StackTop[t] \in 0 .. Word - 1
         /\ Bottom(t) \in 0 .. Word - 1
         /\ TrueBound(t) \in 0 .. Word - 1
         /\ Frame <= Bottom(t)
         /\ TrueBound(t) = Bottom(t) + kGuardMargin
         /\ Bottom(t) = StackTop[t] - MaxStack
         /\ StackTop[t] \in Window(t)
         /\ SoftBound(StackTop[t], MaxStack) = TrueBound(t)
<1>1. /\ Word \in Nat /\ kGuardMargin \in Nat
      /\ StackTop[t] \in 0 .. Word - 1
      /\ kGuardMargin + Frame <= MaxStack
      /\ MaxStack <= StackTop[t]
      /\ Frame <= Bottom(t)
  BY StackAssumption
<1>2. Frame \in Nat
  <2> DEFINE y == kFramePadding + ExtraPad + Granule - 1
  <2>1. y \in Nat /\ Granule \in Nat \ {0} /\ kFramePadding \in Nat /\ ExtraPad \in Nat
    BY StackAssumption
  <2>2. y % Granule \in 0 .. Granule - 1
    BY <2>1
  <2>3. Frame = y - (y % Granule)
    BY DEF Frame
  <2> DEFINE m == y % Granule
  <2>4. m \in 0 .. Granule - 1 /\ Frame = y - m
    BY <2>2, <2>3
  <2>5. y = kFramePadding + ExtraPad + Granule - 1
    OBVIOUS
  <2> HIDE DEF m, y
  <2> QED BY <2>1, <2>4, <2>5
<1>3. MaxStack \in Nat
  <2>1. CASE EnvKB > 0
    <3>1. EnvKB * KB \in Nat /\ Word \in Nat \ {0}
      BY <1>1, StackAssumption
    <3>2. (EnvKB * KB) % Word \in Nat
      BY <3>1
    <3> QED BY <2>1, <3>2 DEF MaxStack
  <2>2. CASE ~(EnvKB > 0)
    BY <2>2, StackAssumption DEF MaxStack
  <2> QED BY <2>1, <2>2
<1> HIDE DEF Frame, MaxStack
<1>4. /\ Bottom(t) = StackTop[t] - MaxStack
      /\ TrueBound(t) = Bottom(t) + kGuardMargin
  BY DEF Bottom, TrueBound
<1>5. Bottom(t) \in 0 .. Word - 1 /\ TrueBound(t) \in 0 .. Word - 1
      /\ TrueBound(t) + Frame <= StackTop[t]
  BY <1>1, <1>2, <1>3, <1>4
<1>6. SoftBound(StackTop[t], MaxStack) = TrueBound(t) % Word
  <2>1. StackTop[t] - MaxStack + kGuardMargin = TrueBound(t)
    BY <1>4
  <2> QED BY <2>1, Zenon DEF SoftBound
<1>7. TrueBound(t) % Word = TrueBound(t)
  BY <1>1, <1>5, NoWrap
<1> QED BY <1>1, <1>2, <1>3, <1>4, <1>5, <1>6, <1>7 DEF Window

-----------------------------------------------------------------------------
(* What is true of one thread, by activity: a thread that passed its last  *)
(* check has a whole window above its bound, and so had each of its        *)
(* callers when it made its call; a prologue may have gone below the       *)
(* bound, but not below the stack.                                         *)
ThreadInv(t) ==
  /\ at[t] \in {"none", "start", "tramp"} => sp[t] = StackTop[t]
  /\ at[t] \in {"run", "entry", "dyn", "handler"} => bound[t] = TrueBound(t)
  /\ at[t] = "run" => sp[t] \in Window(t)
  /\ at[t] = "entry" => sp[t] >= Bottom(t) /\ callers[t] # <<>>
  /\ at[t] = "dyn" => sp[t] >= Frame
  /\ callers[t] \in Seq(Window(t))
  /\ lowest[t] >= Bottom(t)
  /\ at[t] = "handler" => sp[t] - Frame < TrueBound(t)

SizeKnown ==
  (\E t \in Threads : at[t] \notin {"none", "start"}) => s_max_stack_bytes = MaxStack

(* The inductive invariant. *)
StackInv == /\ TypeOK
            /\ SizeKnown
            /\ \A t \in Threads : ThreadInv(t)

(* Before the constructors run nothing is out of place.                    *)
LEMMA StackInvInit == Init => StackInv
<1> SUFFICES ASSUME Init PROVE StackInv
  OBVIOUS
<1>0. MainThread \in Threads /\ StackTop \in [Threads -> 0 .. Word - 1] /\ Word \in Nat
  BY StackAssumption
<1>w. Word - 1 \in Nat
  BY <1>0
<1>1. TypeOK
  <2>1. \A t \in Threads : at[t] \in Activities
    BY DEF Init, Activities
  <2>2. at \in [Threads -> Activities]
    BY <2>1 DEF Init, Activities
  <2>3. callers \in [Threads -> Seq(0 .. Word - 1)]
    BY EmptySeq DEF Init
  <2>4. lowest \in [Threads -> Int] /\ bound \in [Threads -> 0 .. Word - 1]
    BY <1>0, <1>w DEF Init
  <2> QED BY <1>0, <2>2, <2>3, <2>4 DEF Init, TypeOK
<1>2. SizeKnown
  BY DEF Init, SizeKnown
<1>3. ASSUME NEW t \in Threads PROVE ThreadInv(t)
  <2>1. at[t] \in {"start", "none"} /\ sp[t] = StackTop[t] /\ callers[t] = <<>>
        /\ lowest[t] = StackTop[t]
    BY DEF Init
  <2>2. <<>> \in Seq(Window(t))
    BY EmptySeq
  <2>3. StackTop[t] >= Bottom(t)
    BY <1>0, Layout, StackAssumption
  <2> QED BY <2>1, <2>2, <2>3 DEF ThreadInv
<1> QED BY <1>1, <1>2, <1>3 DEF StackInv

-----------------------------------------------------------------------------
(* A passed check puts SP back in the window; a failed one means that the  *)
(* window would reach below the bound.                                     *)
LEMMA CheckMeaning ==
  ASSUME StackInv, NEW t \in Threads, at[t] \in {"entry", "dyn"}
  PROVE  /\ Enough(t) => sp[t] \in Window(t)
         /\ ~Enough(t) => sp[t] - Frame < TrueBound(t)
<1>1. /\ sp[t] \in 0 .. Word - 1 /\ bound[t] = TrueBound(t)
      /\ sp[t] >= Bottom(t) \/ sp[t] >= Frame
  BY DEF StackInv, TypeOK, ThreadInv
<1>2. /\ Word \in Nat /\ Frame \in Nat /\ TrueBound(t) \in 0 .. Word - 1
      /\ Bottom(t) \in 0 .. Word - 1 /\ Frame <= Bottom(t)
  BY Layout
<1> HIDE DEF Frame
<1>3. sp[t] - Frame \in 0 .. Word - 1
  BY <1>1, <1>2
<1>4. (sp[t] - Frame) % Word = sp[t] - Frame
  BY <1>2, <1>3, NoWrap
<1>5. Enough(t) <=> sp[t] - Frame >= TrueBound(t)
  BY <1>1, <1>4 DEF Enough
<1> QED BY <1>1, <1>2, <1>5 DEF Window

(* A prologue or an alloca from within the window does not wrap.           *)
LEMMA Push ==
  ASSUME NEW t \in Threads, NEW a \in Window(t), NEW n \in Nat,
         n <= kGuardMargin + Frame \/ n <= TrueBound(t)
  PROVE  /\ (a - n) % Word \in 0 .. Word - 1
         /\ (a - n) % Word = a - n
         /\ n <= kGuardMargin + Frame => (a - n) % Word >= Bottom(t)
         /\ n <= TrueBound(t) => (a - n) % Word >= Frame
<1>1. /\ Word \in Nat /\ Frame \in Nat /\ TrueBound(t) \in 0 .. Word - 1
      /\ kGuardMargin \in Nat /\ Bottom(t) \in 0 .. Word - 1
      /\ TrueBound(t) = Bottom(t) + kGuardMargin
  BY Layout
<1> HIDE DEF Frame
<1>2. a \in 0 .. Word - 1 /\ TrueBound(t) + Frame <= a
  BY DEF Window
<1>3. a - n \in 0 .. Word - 1
  BY <1>1, <1>2
<1>4. (a - n) % Word = a - n
  BY <1>1, <1>3, NoWrap
<1> QED BY <1>1, <1>2, <1>3, <1>4

(* The invariant of a thread whose state did not change. *)
LEMMA Untouched ==
  ASSUME NEW t \in Threads, ThreadInv(t),
         at'[t] = at[t], sp'[t] = sp[t], callers'[t] = callers[t],
         bound'[t] = bound[t], lowest'[t] = lowest[t]
  PROVE  ThreadInv(t)'
BY DEF ThreadInv, TrueBound, Bottom, Window

-----------------------------------------------------------------------------
(* Every step of the process or of a thread keeps the invariant.           *)
LEMMA StackInvStep == StackInv /\ [Next]_vars => StackInv'
<1> SUFFICES ASSUME StackInv, [Next]_vars PROVE StackInv'
  OBVIOUS
<1> USE DEF Go
<1>0. TypeOK /\ SizeKnown /\ \A t \in Threads : ThreadInv(t)
  BY DEF StackInv
<1>a. Word \in Nat /\ (\A t \in Threads : StackTop[t] \in 0 .. Word - 1)
  BY StackAssumption
<1>1. CASE UNCHANGED vars
  <2>1. TypeOK' /\ SizeKnown'
    BY <1>0, <1>1 DEF vars, TypeOK, SizeKnown, MaxStack
  <2>2. \A t \in Threads : ThreadInv(t)'
    BY <1>0, <1>1, Untouched DEF vars
  <2> QED BY <2>1, <2>2 DEF StackInv
<1>2. ASSUME NEW t \in Threads, Step(t) PROVE StackInv'
  <2> USE <1>0
  <2>b. at \in [Threads -> Activities] /\ sp \in [Threads -> 0 .. Word - 1]
        /\ callers \in [Threads -> Seq(0 .. Word - 1)]
        /\ bound \in [Threads -> 0 .. Word - 1] /\ lowest \in [Threads -> Int]
        /\ s_max_stack_bytes \in {0, MaxStack} /\ aborted \in BOOLEAN
    BY DEF TypeOK
  <2>c. ThreadInv(t)
    BY <1>0
  <2>d. /\ Frame \in Nat /\ TrueBound(t) \in 0 .. Word - 1 /\ Frame <= Bottom(t)
        /\ TrueBound(t) = Bottom(t) + kGuardMargin /\ kGuardMargin \in Nat
        /\ Bottom(t) \in 0 .. Word - 1
        /\ StackTop[t] \in Window(t)
        /\ SoftBound(StackTop[t], MaxStack) = TrueBound(t)
    BY Layout
  <2> HIDE DEF Frame, MaxStack
  <2>1. CASE Ctor(t)
    <3>1. /\ at' = [at EXCEPT ![t] = "run"] /\ s_max_stack_bytes' = MaxStack
          /\ bound' = [bound EXCEPT ![t] = TrueBound(t)] /\ sp[t] = StackTop[t]
          /\ UNCHANGED <<sp, callers, lowest, aborted>>
      BY <2>1, <2>c, <2>d DEF Ctor, ThreadInv
    <3>2. TypeOK'
      BY <3>1, <2>b, <2>d DEF TypeOK, Activities
    <3>3. SizeKnown'
      BY <3>1 DEF SizeKnown, MaxStack
    <3>4. ThreadInv(t)'
      BY <3>1, <2>b, <2>c, <2>d DEF ThreadInv, TrueBound, Bottom, Window, Frame, MaxStack
    <3>5. ASSUME NEW u \in Threads, u # t PROVE ThreadInv(u)'
      BY <3>1, <3>5, <2>b, Untouched
    <3> QED BY <3>2, <3>3, <3>4, <3>5 DEF StackInv
  <2>2. CASE Create(t)
    <3>1. PICK u \in Threads : at[u] = "none" /\ at' = [at EXCEPT ![u] = "tramp"]
      BY <2>2 DEF Create
    <3>2. at[t] = "run" /\ UNCHANGED <<sp, callers, bound, lowest, s_max_stack_bytes, aborted>>
      BY <2>2 DEF Create
    <3>3. TypeOK'
      BY <3>1, <3>2, <2>b DEF TypeOK, Activities
    <3>4. SizeKnown'
      BY <3>1, <3>2, <2>b DEF SizeKnown
    <3>5. ThreadInv(u)'
      BY <3>1, <3>2, <2>b DEF ThreadInv, TrueBound, Bottom, Window
    <3>6. ASSUME NEW v \in Threads, v # u PROVE ThreadInv(v)'
      BY <3>1, <3>2, <3>6, <2>b, Untouched
    <3> QED BY <3>3, <3>4, <3>5, <3>6 DEF StackInv
  <2>3. CASE Trampoline(t)
    <3>0. s_max_stack_bytes = MaxStack /\ sp[t] = StackTop[t]
      BY <2>3, <2>c DEF Trampoline, SizeKnown, ThreadInv
    <3>1. /\ at[t] = "tramp" /\ at' = [at EXCEPT ![t] = "run"]
          /\ bound' = [bound EXCEPT ![t] = TrueBound(t)]
          /\ UNCHANGED <<sp, callers, lowest, s_max_stack_bytes, aborted>>
      BY <2>3, <3>0, <2>d DEF Trampoline
    <3>2. TypeOK'
      BY <3>1, <2>b, <2>d DEF TypeOK, Activities
    <3>3. SizeKnown'
      BY <3>0, <3>1 DEF SizeKnown
    <3>4. ThreadInv(t)'
      BY <3>0, <3>1, <2>b, <2>c, <2>d DEF ThreadInv, TrueBound, Bottom, Window
    <3>5. ASSUME NEW u \in Threads, u # t PROVE ThreadInv(u)'
      BY <3>1, <3>5, <2>b, Untouched
    <3> QED BY <3>2, <3>3, <3>4, <3>5 DEF StackInv
  <2>4. CASE Call(t)
    <3>1. PICK n \in Prologues : sp' = [sp EXCEPT ![t] = (sp[t] - n) % Word]
      BY <2>4 DEF Call
    <3> DEFINE a == (sp[t] - n) % Word
    <3>2. n \in Nat /\ n <= kGuardMargin + Frame /\ sp[t] \in Window(t) /\ at[t] = "run"
      BY <2>4, <2>c, <2>d, StackAssumption DEF Call, ThreadInv
    <3>3. a \in 0 .. Word - 1 /\ a >= Bottom(t)
      BY <3>2, Push
    <3>4. sp'[t] = a
      BY <3>1, <2>b
    <3> HIDE DEF a
    <3>5. /\ at' = [at EXCEPT ![t] = "entry"] /\ sp' = [sp EXCEPT ![t] = a]
          /\ callers' = [callers EXCEPT ![t] = <<sp[t]>> \o callers[t]]
          /\ lowest' = [lowest EXCEPT ![t] = Lower(lowest[t], a)]
          /\ UNCHANGED <<bound, s_max_stack_bytes, aborted>>
      BY <2>4, <3>1, <3>4 DEF Call, a
    <3>6. Lower(lowest[t], a) \in Int /\ Lower(lowest[t], a) >= Bottom(t)
      BY <3>3, <2>b, <2>c, <2>d DEF Lower, ThreadInv
    <3>7. /\ <<sp[t]>> \o callers[t] \in Seq(0 .. Word - 1)
          /\ <<sp[t]>> \o callers[t] \in Seq(Window(t))
          /\ <<sp[t]>> \o callers[t] # <<>>
      BY <3>2, <2>b, <2>c, ConcatProperties DEF ThreadInv
    <3>8. TypeOK'
      BY <3>3, <3>5, <3>6, <3>7, <2>b DEF TypeOK, Activities
    <3>9. SizeKnown'
      BY <3>2, <3>5 DEF SizeKnown
    <3>10. ThreadInv(t)'
      BY <3>2, <3>3, <3>5, <3>6, <3>7, <2>b, <2>c, <2>d DEF ThreadInv, TrueBound, Bottom, Window
    <3>11. ASSUME NEW u \in Threads, u # t PROVE ThreadInv(u)'
      BY <3>5, <3>11, <2>b, Untouched
    <3> QED BY <3>8, <3>9, <3>10, <3>11 DEF StackInv
  <2>5. CASE Alloca(t)
    <3>1. PICK n \in Allocas : sp' = [sp EXCEPT ![t] = (sp[t] - n) % Word]
      BY <2>5 DEF Alloca
    <3> DEFINE a == (sp[t] - n) % Word
    <3>2. n \in Nat /\ n <= TrueBound(t) /\ sp[t] \in Window(t) /\ at[t] = "run"
      BY <2>5, <2>c, <2>d, StackAssumption DEF Alloca, ThreadInv
    <3>3. a \in 0 .. Word - 1 /\ a >= Frame
      BY <3>2, Push
    <3>5. /\ at' = [at EXCEPT ![t] = "dyn"] /\ sp' = [sp EXCEPT ![t] = a]
          /\ UNCHANGED <<callers, bound, lowest, s_max_stack_bytes, aborted>>
      BY <2>5, <3>1 DEF Alloca
    <3> HIDE DEF a
    <3>8. TypeOK'
      BY <3>3, <3>5, <2>b DEF TypeOK, Activities
    <3>9. SizeKnown'
      BY <3>2, <3>5 DEF SizeKnown
    <3>10. ThreadInv(t)'
      BY <3>2, <3>3, <3>5, <2>b, <2>c, <2>d DEF ThreadInv, TrueBound, Bottom, Window
    <3>11. ASSUME NEW u \in Threads, u # t PROVE ThreadInv(u)'
      BY <3>5, <3>11, <2>b, Untouched
    <3> QED BY <3>8, <3>9, <3>10, <3>11 DEF StackInv
  <2>6. CASE CheckPasses(t)
    <3>1. /\ at[t] \in {"entry", "dyn"} /\ at' = [at EXCEPT ![t] = "run"]
          /\ lowest' = [lowest EXCEPT ![t] = Lower(lowest[t], sp[t])]
          /\ UNCHANGED <<sp, callers, bound, s_max_stack_bytes, aborted>>
      BY <2>6 DEF CheckPasses
    <3>2. sp[t] \in Window(t)
      BY <2>6, <3>1, CheckMeaning DEF CheckPasses
    <3>3. Lower(lowest[t], sp[t]) \in Int /\ Lower(lowest[t], sp[t]) >= Bottom(t)
      BY <3>2, <2>b, <2>c, <2>d DEF Lower, ThreadInv, Window
    <3>8. TypeOK'
      BY <3>1, <3>3, <2>b DEF TypeOK, Activities
    <3>9. SizeKnown'
      BY <3>1 DEF SizeKnown
    <3>10. ThreadInv(t)'
      BY <3>1, <3>2, <3>3, <2>b, <2>c, <2>d DEF ThreadInv, TrueBound, Bottom, Window
    <3>11. ASSUME NEW u \in Threads, u # t PROVE ThreadInv(u)'
      BY <3>1, <3>11, <2>b, Untouched
    <3> QED BY <3>8, <3>9, <3>10, <3>11 DEF StackInv
  <2>7. CASE LibCall(t)
    <3>1. PICK n \in LibDepths : lowest' = [lowest EXCEPT ![t] = Lower(lowest[t], sp[t] - n)]
      BY <2>7 DEF LibCall
    <3>2. /\ at[t] = "run" /\ at' = at
          /\ UNCHANGED <<sp, callers, bound, s_max_stack_bytes, aborted>>
      BY <2>7, <2>b DEF LibCall
    <3>3. n \in Nat /\ n <= kGuardMargin + Frame /\ sp[t] \in Window(t)
      BY <3>2, <2>c, <2>d, StackAssumption DEF ThreadInv
    <3>4. Lower(lowest[t], sp[t] - n) \in Int /\ Lower(lowest[t], sp[t] - n) >= Bottom(t)
      BY <3>3, <2>b, <2>c, <2>d DEF Lower, ThreadInv, Window
    <3>8. TypeOK'
      BY <3>1, <3>2, <3>4, <2>b DEF TypeOK
    <3>9. SizeKnown'
      BY <3>2 DEF SizeKnown
    <3>10. ThreadInv(t)'
      BY <3>1, <3>2, <3>3, <3>4, <2>b, <2>c, <2>d DEF ThreadInv, TrueBound, Bottom, Window
    <3>11. ASSUME NEW u \in Threads, u # t PROVE ThreadInv(u)'
      BY <3>1, <3>2, <3>11, <2>b, Untouched
    <3> QED BY <3>8, <3>9, <3>10, <3>11 DEF StackInv
  <2>8. CASE Morestack(t)
    <3>1. /\ at[t] \in {"entry", "dyn"} /\ at' = [at EXCEPT ![t] = "handler"]
          /\ UNCHANGED <<sp, callers, bound, lowest, s_max_stack_bytes, aborted>>
      BY <2>8 DEF Morestack
    <3>2. sp[t] - Frame < TrueBound(t)
      BY <2>8, <3>1, CheckMeaning DEF Morestack
    <3>8. TypeOK'
      BY <3>1, <2>b DEF TypeOK, Activities
    <3>9. SizeKnown'
      BY <3>1 DEF SizeKnown
    <3>10. ThreadInv(t)'
      BY <3>1, <3>2, <2>b, <2>c, <2>d DEF ThreadInv, TrueBound, Bottom, Window
    <3>11. ASSUME NEW u \in Threads, u # t PROVE ThreadInv(u)'
      BY <3>1, <3>11, <2>b, Untouched
    <3> QED BY <3>8, <3>9, <3>10, <3>11 DEF StackInv
  <2>9. CASE Abort(t)
    <3>1. aborted' = TRUE /\ UNCHANGED <<at, sp, callers, bound, lowest, s_max_stack_bytes>>
      BY <2>9 DEF Abort
    <3>8. TypeOK' /\ SizeKnown'
      BY <3>1, <2>b DEF TypeOK, SizeKnown
    <3>11. ASSUME NEW u \in Threads PROVE ThreadInv(u)'
      BY <3>1, <3>11, Untouched
    <3> QED BY <3>8, <3>11 DEF StackInv
  <2>10. CASE Return(t)
    <3>1. /\ at[t] = "run" /\ at' = at /\ callers[t] # <<>>
          /\ sp' = [sp EXCEPT ![t] = Head(callers[t])]
          /\ callers' = [callers EXCEPT ![t] = Tail(callers[t])]
          /\ UNCHANGED <<bound, lowest, s_max_stack_bytes, aborted>>
      BY <2>10, <2>b DEF Return
    <3>2. /\ callers[t] \in Seq(Window(t)) /\ callers[t] \in Seq(0 .. Word - 1)
      BY <2>b, <2>c DEF ThreadInv
    <3>3. /\ Head(callers[t]) \in Window(t) /\ Tail(callers[t]) \in Seq(Window(t))
          /\ Head(callers[t]) \in 0 .. Word - 1 /\ Tail(callers[t]) \in Seq(0 .. Word - 1)
      BY <3>1, <3>2, HeadTailProperties
    <3>8. TypeOK'
      BY <3>1, <3>3, <2>b DEF TypeOK
    <3>9. SizeKnown'
      BY <3>1 DEF SizeKnown
    <3>10. ThreadInv(t)'
      BY <3>1, <3>3, <2>b, <2>c, <2>d DEF ThreadInv, TrueBound, Bottom, Window
    <3>11. ASSUME NEW u \in Threads, u # t PROVE ThreadInv(u)'
      BY <3>1, <3>11, <2>b, Untouched
    <3> QED BY <3>8, <3>9, <3>10, <3>11 DEF StackInv
  <2>11. CASE Exit(t)
    <3>1. /\ at[t] = "run" /\ at' = [at EXCEPT ![t] = "exited"]
          /\ UNCHANGED <<sp, callers, bound, lowest, s_max_stack_bytes, aborted>>
      BY <2>11 DEF Exit
    <3>8. TypeOK'
      BY <3>1, <2>b DEF TypeOK, Activities
    <3>9. SizeKnown'
      BY <3>1 DEF SizeKnown
    <3>10. ThreadInv(t)'
      BY <3>1, <2>b, <2>c DEF ThreadInv, TrueBound, Bottom, Window
    <3>11. ASSUME NEW u \in Threads, u # t PROVE ThreadInv(u)'
      BY <3>1, <3>11, <2>b, Untouched
    <3> QED BY <3>8, <3>9, <3>10, <3>11 DEF StackInv
  <2> QED BY <1>2, <2>1, <2>2, <2>3, <2>4, <2>5, <2>6, <2>7, <2>8, <2>9, <2>10, <2>11 DEF Step
<1> QED BY <1>1, <1>2 DEF Next, Ended

(* The invariant holds in every behaviour.                                 *)
LEMMA StackInvAlways == Spec => []StackInv
BY StackInvInit, StackInvStep, PTL DEF Spec

-----------------------------------------------------------------------------
(* The type invariant of the instrumented program. *)
THEOREM StackTypeCorrect == Spec => []TypeOK
<1>1. StackInv => TypeOK
  BY DEF StackInv
<1> QED BY <1>1, StackInvAlways, PTL

(* Whatever the threads call, allocate and return from, none of them       *)
(* writes below its configured stack before the check stops it.            *)
THEOREM StacksAreContained == Spec => []StaysOnOwnStack
<1>1. StackInv => StaysOnOwnStack
  BY DEF StackInv, ThreadInv, StaysOnOwnStack
<1> QED BY <1>1, StackInvAlways, PTL

(* The window that a caller's check leaves is enough for a prologue of up  *)
(* to its size, at any depth and after any allocas, whatever the size of   *)
(* the other prologues; nothing is assumed of kFramePadding.               *)
THEOREM PrologueIsCovered == Spec => []PrologueWithinWindow
<1>1. StackInv => PrologueWithinWindow
  <2> SUFFICES ASSUME StackInv, NEW t \in Threads, at[t] = "entry",
                      Head(callers[t]) - sp[t] <= Frame
               PROVE  sp[t] >= bound[t]
    BY DEF PrologueWithinWindow
  <2>1. /\ callers[t] \in Seq(Window(t)) /\ callers[t] # <<>>
        /\ bound[t] = TrueBound(t) /\ sp[t] \in 0 .. Word - 1
    BY DEF StackInv, TypeOK, ThreadInv
  <2>2. Head(callers[t]) \in Window(t)
    BY <2>1, HeadTailProperties
  <2>3. Frame \in Nat /\ TrueBound(t) \in 0 .. Word - 1 /\ Word \in Nat
    BY Layout
  <2> HIDE DEF Frame
  <2>4. Head(callers[t]) \in Int /\ TrueBound(t) + Frame <= Head(callers[t])
    BY <2>2, <2>3 DEF Window
  <2> QED BY <2>1, <2>3, <2>4
<1> QED BY <1>1, StackInvAlways, PTL

(* __morestack is entered only when the next window would really reach     *)
(* the guard margin.                                                       *)
THEOREM OverflowIsReal == Spec => []NoFalseOverflow
<1>1. StackInv => NoFalseOverflow
  BY DEF StackInv, ThreadInv, NoFalseOverflow, TrueBound
<1> QED BY <1>1, StackInvAlways, PTL

=============================================================================

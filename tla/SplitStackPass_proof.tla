------------------------ MODULE SplitStackPass_proof ------------------------
(***************************************************************************)
(* SplitStackPass proved for every set of modules that ModulesAssumption   *)
(* allows and every number of runs of the pass: the rewriting keeps the    *)
(* control flow of every function, and leaves none of its moves of the     *)
(* stack pointer unchecked.                                                *)
(*                                                                         *)
(* Both are shown of the functions Split and AddCheck on one body, by way  *)
(* of First being the least solution of the equation that From is the      *)
(* right-hand side of.                                                     *)
(***************************************************************************)
EXTENDS SplitStackPass, FiniteSets, FiniteSetTheorems, SequenceTheorems,
        NaturalsInduction, WellFoundedInduction, TLAPS

-----------------------------------------------------------------------------
(* A set of numbers that is not empty has a least one.                     *)
LEMMA LeastNumber ==
  ASSUME NEW T \in SUBSET Nat, T # {}
  PROVE  \E x \in T : \A y \in T : x <= y
<1>1. IsWellFoundedOn(OpToRel(<, Nat), Nat)
  BY NatLessThanWellFounded
<1>2. PICK x \in T : \A y \in T : ~(<<y, x>> \in OpToRel(<, Nat))
  BY <1>1, WFMin
<1>3. \A y \in T : <<y, x>> \in OpToRel(<, Nat) <=> y < x
  BY DEF OpToRel
<1>4. \A y \in T : ~(y < x)
  BY <1>2, <1>3
<1>5. \A y \in T : x <= y
  BY <1>4
<1> QED BY <1>5

(* A set with 0 and the successor of each number it holds holds them all.  *)
(* (The induction rule of the library has an operator for a parameter.)    *)
LEMMA SetInduction ==
  ASSUME NEW S, 0 \in S, \A n \in Nat : n \in S => n + 1 \in S
  PROVE  Nat \subseteq S
<1> DEFINE T == Nat \ S
<1>1. SUFFICES ASSUME T # {}
               PROVE  FALSE
  OBVIOUS
<1>2. PICK x \in T : \A y \in T : x <= y
  <2>1. T \in SUBSET Nat
    OBVIOUS
  <2> HIDE DEF T
  <2> QED BY <1>1, <2>1, LeastNumber
<1>3. x \in Nat /\ x # 0
  OBVIOUS
<1>4. x - 1 \in Nat /\ x - 1 < x /\ x - 1 + 1 = x
  BY <1>3
<1>5. x - 1 \in S
  BY <1>2, <1>4
<1> QED BY <1>4, <1>5

-----------------------------------------------------------------------------
(* One turn of the recursion of Reach.                                     *)
Wider(body, Hidden, X) ==
  X \cup UNION {body[c].succ : c \in {d \in X : Silent(body, Hidden, d)}}

Turns(body, Hidden, b, r) ==
  /\ \A n \in 0 .. Len(body) : r[n] = IF n = 0 THEN {b} ELSE Wider(body, Hidden, r[n - 1])
  /\ Reach(body, Hidden, b) = r[Len(body)]

(* The recursion of Reach has a solution: one for each n, built from the   *)
(* one before.                                                             *)
LEMMA ReachUnfolds ==
  ASSUME NEW body, NEW Hidden, NEW b, Len(body) \in Nat
  PROVE  \E r : Turns(body, Hidden, b, r)
<1> DEFINE W(X) == Wider(body, Hidden, X)
           F(r, N) == [n \in 0 .. N |-> IF n = 0 THEN {b} ELSE W(r[n - 1])]
           S == {N \in Nat : \E r : r = F(r, N)}
           rec == CHOOSE r : r = F(r, Len(body))
<1>1. Reach(body, Hidden, b) = rec[Len(body)]
  BY DEF Reach, Wider
<1> HIDE DEF W, rec
<1>2. 0 \in S
  <2> DEFINE r == [n \in 0 .. 0 |-> {b}]
  <2>1. r = F(r, 0)
    OBVIOUS
  <2> QED BY <2>1
<1>3. ASSUME NEW N \in Nat, N \in S
      PROVE  N + 1 \in S
  <2>1. PICK r : r = F(r, N)
    BY <1>3
  <2> DEFINE q == [n \in 0 .. N + 1 |-> IF n = N + 1 THEN W(r[N]) ELSE r[n]]
  <2>2. ASSUME NEW n \in 0 .. N + 1
        PROVE  q[n] = IF n = 0 THEN {b} ELSE W(q[n - 1])
    <3>1. CASE n = N + 1
      <4>1. q[N] = r[N] /\ q[n] = W(r[N]) /\ n - 1 = N /\ n # 0
        BY <3>1
      <4> QED BY <4>1
    <3>2. CASE n # N + 1
      <4>1. n \in 0 .. N /\ q[n] = r[n]
        BY <3>2
      <4>2. r[n] = IF n = 0 THEN {b} ELSE W(r[n - 1])
        BY <2>1, <4>1
      <4>3. n # 0 => q[n - 1] = r[n - 1]
        BY <4>1
      <4> QED BY <4>1, <4>2, <4>3
    <3> QED BY <3>1, <3>2
  <2>3. q = [n \in 0 .. N + 1 |-> q[n]]
    OBVIOUS
  <2>4. q = F(q, N + 1)
    <3> HIDE DEF q
    <3> QED BY <2>2, <2>3
  <2> HIDE DEF q
  <2> QED BY <2>4
<1>4. Nat \subseteq S
  <2> HIDE DEF S
  <2> QED BY <1>2, <1>3, SetInduction
<1>5. \E r : r = F(r, Len(body))
  BY <1>4
<1>6. rec = F(rec, Len(body))
  <2> HIDE DEF F
  <2> QED BY <1>5 DEF rec
<1>7. \A n \in 0 .. Len(body) : rec[n] = IF n = 0 THEN {b} ELSE W(rec[n - 1])
  BY <1>6
<1>8. Turns(body, Hidden, b, rec)
  BY <1>1, <1>7 DEF W, Turns
<1> QED BY <1>8

(* A body is a sequence of blocks.                                         *)
LEMMA BodyShape ==
  ASSUME NEW body, Closed(body)
  PROVE  /\ body \in Seq(Block) /\ Len(body) \in Nat /\ DOMAIN body = 1 .. Len(body)
         /\ \A b \in DOMAIN body :
              /\ body[b] \in Block /\ body[b].succ \subseteq DOMAIN body
              /\ body[b].ins \in Seq(Instruction) /\ Len(body[b].ins) \in Nat
              /\ DOMAIN body[b].ins = 1 .. Len(body[b].ins)
<1>1. body \in Seq(Block) /\ Len(body) \in Nat /\ DOMAIN body = 1 .. Len(body)
  BY LenProperties DEF Closed
<1>2. ASSUME NEW b \in DOMAIN body
      PROVE  body[b] \in Block
  BY <1>1, <1>2, ElementOfSeq
<1>3. \A x \in Block : x.ins \in Seq(Instruction)
  BY DEF Block
<1>4. \A b \in DOMAIN body : body[b].ins \in Seq(Instruction)
  BY <1>2, <1>3
<1> QED BY <1>1, <1>2, <1>4, LenProperties DEF Closed

(* Reach is the least set of blocks that holds b and, with a silent block, *)
(* its successors: there are not more turns of the recursion to make than  *)
(* there are blocks.                                                       *)
LEMMA ReachIsLeast ==
  ASSUME NEW body, Closed(body), NEW Hidden, NEW b \in DOMAIN body
  PROVE  LET R == Reach(body, Hidden, b)
         IN /\ b \in R /\ R \subseteq DOMAIN body
            /\ \A c \in R : Silent(body, Hidden, c) => body[c].succ \subseteq R
            /\ \A S : /\ b \in S
                      /\ \A c \in S \cap DOMAIN body :
                           Silent(body, Hidden, c) => body[c].succ \subseteq S
                      => R \subseteq S
<1>1. Len(body) \in Nat /\ DOMAIN body = 1 .. Len(body)
      /\ \A c \in DOMAIN body : body[c].succ \subseteq DOMAIN body
  BY BodyShape
<1>2. PICK r : Turns(body, Hidden, b, r)
  BY <1>1, ReachUnfolds
<1> DEFINE D == DOMAIN body
           W(X) == Wider(body, Hidden, X)
           N == Len(body)
<1>3. \A X \in SUBSET D : X \subseteq W(X) /\ W(X) \subseteq D
  BY <1>1 DEF Wider
<1>4. r[0] = {b} /\ \A n \in Nat : n + 1 <= N => r[n + 1] = W(r[n])
  <2>1. 0 \in 0 .. N
    BY <1>1
  <2>2. \A n \in Nat : n + 1 <= N => n + 1 \in 0 .. N /\ n + 1 # 0 /\ n + 1 - 1 = n
    BY <1>1
  <2>3. \A n \in 0 .. N : r[n] = IF n = 0 THEN {b} ELSE W(r[n - 1])
    BY <1>2 DEF Turns
  <2> HIDE DEF W, N
  <2> QED BY <2>1, <2>2, <2>3
<1>5. ASSUME NEW S, b \in S,
             \A c \in S \cap D : Silent(body, Hidden, c) => body[c].succ \subseteq S
      PROVE  \A n \in Nat : n <= N => r[n] \subseteq S \cap D
  <2> DEFINE T == {n \in Nat : n <= N => r[n] \subseteq S \cap D}
  <2>1. 0 \in T
    BY <1>4, <1>5
  <2>2. ASSUME NEW n \in Nat, n \in T
        PROVE  n + 1 \in T
    <3> SUFFICES ASSUME n + 1 <= N PROVE r[n + 1] \subseteq S \cap D
      OBVIOUS
    <3>1. r[n] \subseteq S \cap D
      BY <2>2, <1>1
    <3>2. W(r[n]) \subseteq S \cap D
      BY <3>1, <1>1, <1>5 DEF Wider
    <3> QED BY <3>2, <1>4
  <2>3. Nat \subseteq T
    <3> HIDE DEF T
    <3> QED BY <2>1, <2>2, SetInduction
  <2> QED BY <2>3
<1>6. \A n \in Nat : n <= N => r[n] \subseteq D
  <2>1. \A c \in D \cap D : Silent(body, Hidden, c) => body[c].succ \subseteq D
    BY <1>1
  <2> HIDE DEF D
  <2>2. \A n \in Nat : n <= N => r[n] \subseteq D \cap D
    BY <1>5, <2>1
  <2> QED BY <2>2
<1>7. \A n \in Nat : n <= N => IsFiniteSet(r[n]) /\ Cardinality(r[n]) \in Nat /\ Cardinality(r[n]) <= N
  <2>1. IsFiniteSet(D) /\ Cardinality(D) = N
    <3>1. IsFiniteSet(1 .. N) /\ Cardinality(1 .. N) = IF 1 > N THEN 0 ELSE N - 1 + 1
      <4>1. 1 \in Int /\ N \in Int
        BY <1>1
      <4> HIDE DEF N
      <4> QED BY <4>1, FS_Interval
    <3> HIDE DEF N
    <3>2. N \in Nat
      BY <1>1 DEF N
    <3>3. Cardinality(1 .. N) = N
      BY <3>1, <3>2
    <3> QED BY <3>1, <3>3, <1>1 DEF N
  <2> HIDE DEF D
  <2>2. \A n \in Nat : n <= N => IsFiniteSet(r[n]) /\ Cardinality(r[n]) <= Cardinality(D)
    BY <1>6, <2>1, FS_Subset
  <2> QED BY <2>1, <2>2, FS_CardinalityType
<1>8. \A n \in Nat : n <= N => W(r[n]) = r[n] \/ Cardinality(r[n]) >= n + 1
  <2> DEFINE T == {n \in Nat : n <= N => W(r[n]) = r[n] \/ Cardinality(r[n]) >= n + 1}
  <2>1. 0 \in T
    <3>1. Cardinality(r[0]) = 1
      BY <1>4, FS_Singleton
    <3> QED BY <3>1
  <2>2. ASSUME NEW n \in Nat, n \in T
        PROVE  n + 1 \in T
    <3> SUFFICES ASSUME n + 1 <= N
                 PROVE  W(r[n + 1]) = r[n + 1] \/ Cardinality(r[n + 1]) >= n + 1 + 1
      OBVIOUS
    <3>1. r[n + 1] = W(r[n])
      BY <1>4
    <3>2. CASE W(r[n]) = r[n]
      BY <3>1, <3>2
    <3>3. CASE W(r[n]) # r[n]
      <4>1. Cardinality(r[n]) >= n + 1
        BY <2>2, <3>3, <1>1
      <4>2. r[n] \subseteq r[n + 1] /\ r[n] # r[n + 1]
        BY <1>1, <1>3, <1>6, <3>1, <3>3
      <4>3. IsFiniteSet(r[n + 1]) /\ Cardinality(r[n]) \in Nat /\ Cardinality(r[n + 1]) \in Nat
        BY <1>1, <1>7
      <4>4. Cardinality(r[n]) <= Cardinality(r[n + 1]) /\ Cardinality(r[n]) # Cardinality(r[n + 1])
        BY <4>2, <4>3, FS_Subset
      <4> HIDE DEF N
      <4> QED BY <4>1, <4>3, <4>4
    <3> QED BY <3>2, <3>3
  <2>3. Nat \subseteq T
    <3> HIDE DEF T
    <3> QED BY <2>1, <2>2, SetInduction
  <2> QED BY <2>3
<1>9. W(r[N]) = r[N] /\ r[N] \subseteq D
  <2> HIDE DEF W
  <2> QED BY <1>1, <1>6, <1>7, <1>8
<1>10. b \in r[N]
  <2> DEFINE T == {n \in Nat : n <= N => b \in r[n]}
  <2>1. 0 \in T
    BY <1>4
  <2>2. ASSUME NEW n \in Nat, n \in T
        PROVE  n + 1 \in T
    BY <2>2, <1>1, <1>4 DEF Wider
  <2>3. Nat \subseteq T
    <3> HIDE DEF T
    <3> QED BY <2>1, <2>2, SetInduction
  <2> QED BY <2>3, <1>1
<1>11. \A c \in r[N] : Silent(body, Hidden, c) => body[c].succ \subseteq r[N]
  BY <1>9 DEF Wider
<1>12. \A S : b \in S /\ (\A c \in S \cap D : Silent(body, Hidden, c) => body[c].succ \subseteq S)
                => r[N] \subseteq S
  BY <1>1, <1>5
<1>13. Reach(body, Hidden, b) = r[N]
  BY <1>2 DEF Turns
<1> QED BY <1>9, <1>10, <1>11, <1>12, <1>13

-----------------------------------------------------------------------------
(* Earliest is the instruction at the first place that shows one.          *)
LEMMA EarliestIsLeast ==
  ASSUME NEW body, Closed(body), NEW Hidden, NEW b \in DOMAIN body, NEW k,
         NEW j \in Shown(body, Hidden, b, k), \A l \in Shown(body, Hidden, b, k) : j <= l
  PROVE  Earliest(body, Hidden, b, k) = body[b].ins[j]
<1>1. Shown(body, Hidden, b, k) \subseteq Nat
  BY BodyShape DEF Shown
<1> DEFINE i == CHOOSE i \in Shown(body, Hidden, b, k) :
                  \A l \in Shown(body, Hidden, b, k) : i <= l
<1>2. i \in Shown(body, Hidden, b, k) /\ \A l \in Shown(body, Hidden, b, k) : i <= l
  OBVIOUS
<1>3. Earliest(body, Hidden, b, k) = body[b].ins[i]
  BY DEF Earliest
<1> HIDE DEF i
<1>4. i = j
  BY <1>1, <1>2
<1> QED BY <1>3, <1>4

(* There is such a place when anything is shown.                           *)
LEMMA EarliestExists ==
  ASSUME NEW body, Closed(body), NEW Hidden, NEW b \in DOMAIN body, NEW k,
         Shown(body, Hidden, b, k) # {}
  PROVE  \E j \in Shown(body, Hidden, b, k) :
           /\ \A l \in Shown(body, Hidden, b, k) : j <= l
           /\ Earliest(body, Hidden, b, k) = body[b].ins[j]
<1>1. Shown(body, Hidden, b, k) \in SUBSET Nat
  BY BodyShape DEF Shown
<1>2. PICK j \in Shown(body, Hidden, b, k) : \A l \in Shown(body, Hidden, b, k) : j <= l
  BY <1>1, LeastNumber
<1> QED BY <1>2, EarliestIsLeast

(* First solves its equation ...                                           *)
LEMMA FirstFixpoint ==
  ASSUME NEW body, Closed(body), NEW Hidden, NEW b \in DOMAIN body
  PROVE  First(body, Hidden)[b] = From(body, Hidden, First(body, Hidden), b, 1)
<1> DEFINE D == DOMAIN body
           R(c) == Reach(body, Hidden, c)
           Sil(c) == Silent(body, Hidden, c)
           Entry(c) == IF Sil(c) THEN Exit ELSE Earliest(body, Hidden, c, 1)
           F == First(body, Hidden)
<1>1. \A c \in D : F[c] = {Entry(d) : d \in {e \in R(c) : Sil(e) => body[e].succ = {}}}
  BY DEF First
<1>2. \A c \in D : body[c].succ \subseteq D
  BY BodyShape
<1>3. ASSUME NEW c \in D
      PROVE  /\ c \in R(c) /\ R(c) \subseteq D
             /\ \A d \in R(c) : Sil(d) => body[d].succ \subseteq R(c)
             /\ \A S : c \in S /\ (\A d \in S \cap D : Sil(d) => body[d].succ \subseteq S)
                       => R(c) \subseteq S
  BY ReachIsLeast
<1>4. Sil(b) <=> Shown(body, Hidden, b, 1) = {}
  BY DEF Silent
<1> HIDE DEF R, Sil, F
<1>5. CASE ~Sil(b)
  <2>1. R(b) \subseteq {b}
    BY <1>3, <1>5
  <2>2. F[b] = {Entry(b)}
    BY <1>1, <1>3, <1>5, <2>1
  <2> QED BY <1>4, <1>5, <2>2 DEF From, F
<1>6. CASE Sil(b) /\ body[b].succ = {}
  <2>1. R(b) \subseteq {b}
    BY <1>3, <1>6
  <2>2. F[b] = {Entry(b)}
    BY <1>1, <1>3, <1>6, <2>1
  <2> QED BY <1>4, <1>6, <2>2 DEF From, F
<1>7. CASE Sil(b) /\ body[b].succ # {}
  <2> DEFINE U == {b} \cup UNION {R(c) : c \in body[b].succ}
  <2>1. R(b) \subseteq U
    <3>1. \A d \in U \cap D : Sil(d) => body[d].succ \subseteq U
      <4> SUFFICES ASSUME NEW d \in U \cap D, Sil(d), NEW e \in body[d].succ PROVE e \in U
        OBVIOUS
      <4>1. CASE d = b
        BY <4>1, <1>2, <1>3
      <4>2. CASE d # b
        BY <4>2, <1>2, <1>3
      <4> QED BY <4>1, <4>2
    <3> HIDE DEF U
    <3>2. b \in U
      BY DEF U
    <3> QED BY <1>3, <3>1, <3>2
  <2>2. \A c \in body[b].succ : R(c) \subseteq R(b)
    <3> SUFFICES ASSUME NEW c \in body[b].succ PROVE R(c) \subseteq R(b)
      OBVIOUS
    <3>1. c \in D /\ c \in R(b)
      BY <1>2, <1>3, <1>7
    <3> QED BY <3>1, <1>3
  <2>3. F[b] = UNION {F[c] : c \in body[b].succ}
    <3>1. ASSUME NEW x \in F[b]
          PROVE  \E c \in body[b].succ : x \in F[c]
      <4>1. PICK d \in R(b) : x = Entry(d) /\ (Sil(d) => body[d].succ = {})
        BY <1>1
      <4>2. PICK c \in body[b].succ : d \in R(c)
        BY <4>1, <1>7, <2>1
      <4> HIDE DEF Entry
      <4> QED BY <4>1, <4>2, <1>1, <1>2
    <3>2. ASSUME NEW c \in body[b].succ, NEW x \in F[c]
          PROVE  x \in F[b]
      <4>1. PICK d \in R(c) : x = Entry(d) /\ (Sil(d) => body[d].succ = {})
        BY <1>1, <1>2
      <4>2. d \in R(b)
        BY <2>2
      <4> HIDE DEF Entry
      <4> QED BY <4>1, <4>2, <1>1
    <3> QED BY <3>1, <3>2
  <2> QED BY <1>4, <1>7, <2>3 DEF From, F
<1> QED BY <1>5, <1>6, <1>7

(* ... and is the least that does.                                         *)
LEMMA FirstLeast ==
  ASSUME NEW body, Closed(body), NEW Hidden, NEW G,
         \A c \in DOMAIN body : From(body, Hidden, G, c, 1) \subseteq G[c]
  PROVE  \A c \in DOMAIN body : First(body, Hidden)[c] \subseteq G[c]
<1> DEFINE D == DOMAIN body
           R(c) == Reach(body, Hidden, c)
           Sil(c) == Silent(body, Hidden, c)
           Entry(c) == IF Sil(c) THEN Exit ELSE Earliest(body, Hidden, c, 1)
           F == First(body, Hidden)
<1>1. \A c \in D : F[c] = {Entry(d) : d \in {e \in R(c) : Sil(e) => body[e].succ = {}}}
  BY DEF First
<1>2. \A c \in D : body[c].succ \subseteq D
  BY BodyShape
<1>3. ASSUME NEW c \in D
      PROVE  /\ R(c) \subseteq D
             /\ \A S : c \in S /\ (\A d \in S \cap D : Sil(d) => body[d].succ \subseteq S)
                       => R(c) \subseteq S
  BY ReachIsLeast
<1>4. \A c \in D : (Sil(c) => body[c].succ = {}) => Entry(c) \in G[c]
  BY DEF From, Silent
<1>5. \A c \in D : Sil(c) => \A d \in body[c].succ : G[d] \subseteq G[c]
  BY DEF From, Silent
<1> HIDE DEF R, Sil, F, Entry
<1>6. ASSUME NEW c \in D, NEW x \in F[c]
      PROVE  x \in G[c]
  <2> DEFINE S == {d \in D : G[d] \subseteq G[c]}
  <2>1. \A d \in S \cap D : Sil(d) => body[d].succ \subseteq S
    BY <1>2, <1>5
  <2>2. c \in S
    OBVIOUS
  <2>3. R(c) \subseteq S
    <3> HIDE DEF S
    <3> QED BY <1>3, <2>1, <2>2
  <2>4. PICK d \in R(c) : x = Entry(d) /\ (Sil(d) => body[d].succ = {})
    BY <1>1, <1>6
  <2>5. d \in D /\ G[d] \subseteq G[c]
    BY <2>3
  <2> QED BY <1>4, <2>4, <2>5
<1> QED BY <1>6 DEF F

-----------------------------------------------------------------------------
(* A body with one block changed and one appended.                         *)
LEMMA ChangeAndAppend ==
  ASSUME NEW body, body \in Seq(Block), NEW b \in DOMAIN body, NEW x \in Block, NEW y \in Block
  PROVE  LET nb == Append([body EXCEPT ![b] = x], y)
         IN /\ nb \in Seq(Block) /\ Len(nb) = Fresh(body) /\ DOMAIN nb = 1 .. Fresh(body)
            /\ nb[b] = x /\ nb[Fresh(body)] = y
            /\ \A c \in DOMAIN body : c # b => nb[c] = body[c]
            /\ DOMAIN nb = DOMAIN body \cup {Fresh(body)} /\ Fresh(body) \notin DOMAIN body
<1> DEFINE e == [body EXCEPT ![b] = x]
           nb == Append(e, y)
<1>1. Len(body) \in Nat /\ DOMAIN body = 1 .. Len(body)
  BY LenProperties
<1>2. e \in Seq(Block) /\ Len(e) = Len(body) /\ e[b] = x
      /\ \A c \in DOMAIN body : c # b => e[c] = body[c]
  BY <1>1, ExceptSeq
<1> HIDE DEF e
<1>3. /\ nb \in Seq(Block) /\ Len(nb) = Len(e) + 1
      /\ \A c \in 1 .. Len(e) : nb[c] = e[c]
      /\ nb[Len(e) + 1] = y
  BY <1>2, AppendProperties
<1>4. DOMAIN nb = 1 .. Len(nb)
  BY <1>3, LenProperties
<1> HIDE DEF nb
<1>5. Fresh(body) = Len(body) + 1 /\ Fresh(body) \notin DOMAIN body
      /\ 1 .. Fresh(body) = DOMAIN body \cup {Fresh(body)}
  BY <1>1 DEF Fresh
<1>6. nb[b] = x /\ \A c \in DOMAIN body : c # b => nb[c] = body[c]
  BY <1>1, <1>2, <1>3
<1> QED BY <1>2, <1>3, <1>4, <1>5, <1>6 DEF nb, e

(* What Split makes of a body.                                             *)
SplitAt(body, nb, b, k) ==
  LET n == Fresh(body)
      L == Len(body[b].ins)
  IN /\ Closed(nb) /\ DOMAIN nb = DOMAIN body \cup {n} /\ n \notin DOMAIN body
     /\ Len(nb) = n
     /\ \A c \in DOMAIN body : c # b => nb[c] = body[c]
     /\ nb[b].succ = {n} /\ nb[n].succ = body[b].succ
     /\ Len(nb[b].ins) = k - 1 /\ Len(nb[n].ins) = L - k + 1
     /\ \A j \in 1 .. k - 1 : nb[b].ins[j] = body[b].ins[j]
     /\ \A j \in 1 .. L - k + 1 : nb[n].ins[j] = body[b].ins[j + (k - 1)]

(* Split does that, wherever in the block, its ends included.              *)
LEMMA SplitShape ==
  ASSUME NEW body, Closed(body), NEW b \in DOMAIN body,
         NEW k \in 1 .. Len(body[b].ins) + 1
  PROVE  SplitAt(body, Split(body, b, k), b, k)
<1> DEFINE ins == body[b].ins
           L == Len(ins)
           n == Fresh(body)
           x == [ins |-> SubSeq(ins, 1, k - 1), succ |-> {n}]
           y == [ins |-> SubSeq(ins, k, L), succ |-> body[b].succ]
           nb == Split(body, b, k)
<1>1. /\ body \in Seq(Block) /\ Len(body) \in Nat /\ DOMAIN body = 1 .. Len(body)
      /\ ins \in Seq(Instruction) /\ L \in Nat /\ DOMAIN ins = 1 .. L
      /\ \A c \in DOMAIN body : body[c].succ \subseteq DOMAIN body
  BY BodyShape
<1>2. \A j \in 1 .. L : ins[j] \in Instruction
  BY <1>1, ElementOfSeq
<1> HIDE DEF ins
<1>3. k \in Nat /\ k >= 1 /\ k - 1 \in 0 .. L
  BY <1>1 DEF ins
<1> HIDE DEF L
<1>4. /\ x.ins \in Seq(Instruction) /\ Len(x.ins) = k - 1
      /\ \A j \in 1 .. k - 1 : x.ins[j] = ins[j]
  <2>1. \A j \in 1 .. k - 1 : ins[j] \in Instruction
    BY <1>1, <1>2, <1>3
  <2>2. 1 \in Int /\ k - 1 \in Int
    BY <1>3
  <2> DEFINE s == SubSeq(ins, 1, k - 1)
  <2>3. /\ s \in Seq(Instruction)
        /\ Len(s) = IF 1 <= k - 1 THEN k - 1 - 1 + 1 ELSE 0
        /\ \A j \in 1 .. k - 1 - 1 + 1 : s[j] = ins[1 + j - 1]
    BY <2>1, <2>2, SubSeqProperties
  <2> HIDE DEF s
  <2>4. Len(s) = k - 1
    BY <1>3, <2>3
  <2>5. \A j \in 1 .. k - 1 : j \in 1 .. k - 1 - 1 + 1 /\ 1 + j - 1 = j
    BY <1>3
  <2>6. \A j \in 1 .. k - 1 : s[j] = ins[j]
    BY <2>3, <2>5
  <2>7. x.ins = s
    BY DEF s
  <2> QED BY <2>3, <2>4, <2>6, <2>7
<1>5. /\ y.ins \in Seq(Instruction) /\ Len(y.ins) = L - k + 1
      /\ \A j \in 1 .. L - k + 1 : y.ins[j] = ins[j + (k - 1)]
  <2>1. \A j \in k .. L : ins[j] \in Instruction
    BY <1>1, <1>2, <1>3
  <2>2. k \in Int /\ L \in Int
    BY <1>1, <1>3
  <2> DEFINE s == SubSeq(ins, k, L)
  <2>3. /\ s \in Seq(Instruction)
        /\ Len(s) = IF k <= L THEN L - k + 1 ELSE 0
        /\ \A j \in 1 .. L - k + 1 : s[j] = ins[k + j - 1]
    BY <2>1, <2>2, SubSeqProperties
  <2> HIDE DEF s
  <2>4. Len(s) = L - k + 1
    BY <1>1, <1>3, <2>3
  <2>5. \A j \in 1 .. L - k + 1 : k + j - 1 = j + (k - 1)
    BY <1>1, <1>3
  <2>6. \A j \in 1 .. L - k + 1 : s[j] = ins[j + (k - 1)]
    BY <2>3, <2>5
  <2>7. y.ins = s
    BY DEF s
  <2> QED BY <2>3, <2>4, <2>6, <2>7
<1>6. x \in Block /\ y \in Block /\ x.succ = {n} /\ y.succ = body[b].succ /\ n \in Nat
  <2>1. n \in Nat
    BY <1>1 DEF Fresh
  <2>2. body[b].succ \subseteq Nat
    BY <1>1
  <2>3. x.succ = {n} /\ y.succ = body[b].succ
    OBVIOUS
  <2>4. SubSeq(ins, 1, k - 1) \in Seq(Instruction) /\ SubSeq(ins, k, L) \in Seq(Instruction)
    BY <1>4, <1>5
  <2>5. x \in Block /\ y \in Block
    <3> HIDE DEF n
    <3> QED BY <2>1, <2>2, <2>4 DEF Block
  <2> QED BY <2>1, <2>3, <2>5
<1>7. nb = Append([body EXCEPT ![b] = x], y)
  BY DEF Split, ins, L
<1> HIDE DEF x, y, nb
<1>8. /\ nb \in Seq(Block) /\ Len(nb) = n /\ DOMAIN nb = 1 .. n
      /\ nb[b] = x /\ nb[n] = y
      /\ \A c \in DOMAIN body : c # b => nb[c] = body[c]
      /\ DOMAIN nb = DOMAIN body \cup {n} /\ n \notin DOMAIN body
  BY <1>1, <1>6, <1>7, ChangeAndAppend
<1> HIDE DEF n
<1>9. Closed(nb)
  <2>1. \A c \in DOMAIN nb : nb[c].succ \subseteq DOMAIN nb
    BY <1>1, <1>6, <1>8
  <2> QED BY <1>8, <2>1 DEF Closed
<1> QED BY <1>4, <1>5, <1>6, <1>8, <1>9 DEF SplitAt, nb, n, ins, L

(* What AddCheck makes of a body.                                          *)
CheckAt(body, nb, b, cont) ==
  LET n == Fresh(body)
      L == Len(body[b].ins)
  IN /\ Closed(nb) /\ DOMAIN nb = DOMAIN body \cup {n} /\ n \notin DOMAIN body
     /\ Len(nb) = n
     /\ \A c \in DOMAIN body : c # b => nb[c] = body[c]
     /\ nb[b].succ = {cont, n} /\ nb[n].succ = {cont}
     /\ Len(nb[b].ins) = L + 1 /\ Len(nb[n].ins) = 1
     /\ \A j \in 1 .. L : nb[b].ins[j] = body[b].ins[j]
     /\ nb[b].ins[L + 1] = Check /\ nb[n].ins[1] = CallMorestack

(* AddCheck does that.                                                     *)
LEMMA CheckShape ==
  ASSUME NEW body, Closed(body), NEW b \in DOMAIN body, NEW cont \in DOMAIN body
  PROVE  CheckAt(body, AddCheck(body, b, cont), b, cont)
<1> DEFINE ins == body[b].ins
           L == Len(ins)
           n == Fresh(body)
           x == [ins |-> Append(ins, Check), succ |-> {cont, n}]
           y == [ins |-> <<CallMorestack>>, succ |-> {cont}]
           nb == AddCheck(body, b, cont)
<1>1. /\ body \in Seq(Block) /\ Len(body) \in Nat /\ DOMAIN body = 1 .. Len(body)
      /\ ins \in Seq(Instruction) /\ L \in Nat
      /\ \A c \in DOMAIN body : body[c].succ \subseteq DOMAIN body
  BY BodyShape
<1>2. Check \in Instruction /\ CallMorestack \in Instruction
  BY DEF Check, CallMorestack, Instruction, Allocas
<1> HIDE DEF ins
<1>3. /\ x.ins \in Seq(Instruction) /\ Len(x.ins) = L + 1
      /\ \A j \in 1 .. L : x.ins[j] = ins[j]
      /\ x.ins[L + 1] = Check
  <2> DEFINE s == Append(ins, Check)
  <2>1. /\ s \in Seq(Instruction) /\ Len(s) = Len(ins) + 1
        /\ \A j \in 1 .. Len(ins) : s[j] = ins[j]
        /\ s[Len(ins) + 1] = Check
    BY <1>1, <1>2, AppendProperties
  <2>2. x.ins = s
    BY DEF s
  <2> HIDE DEF s
  <2> QED BY <2>1, <2>2
<1>4. /\ y.ins \in Seq(Instruction) /\ Len(y.ins) = 1 /\ y.ins[1] = CallMorestack
  BY <1>2
<1>5. n \in Nat /\ cont \in Nat
  BY <1>1 DEF Fresh
<1>6. x \in Block /\ y \in Block /\ x.succ = {cont, n} /\ y.succ = {cont}
  <2>1. x.succ = {cont, n} /\ y.succ = {cont}
    OBVIOUS
  <2>2. Append(ins, Check) \in Seq(Instruction) /\ <<CallMorestack>> \in Seq(Instruction)
    BY <1>3, <1>4
  <2>3. x \in Block /\ y \in Block
    <3> HIDE DEF n
    <3> QED BY <1>5, <2>2 DEF Block
  <2> QED BY <2>1, <2>3
<1>7. nb = Append([body EXCEPT ![b] = x], y)
  <2>1. [body EXCEPT ![b] = [ins |-> Append(@.ins, Check), succ |-> {cont, Fresh(body)}]]
          = [body EXCEPT ![b] = x]
    BY DEF ins
  <2> QED BY <2>1 DEF AddCheck
<1> HIDE DEF x, y, nb
<1>8. /\ nb \in Seq(Block) /\ Len(nb) = n /\ DOMAIN nb = 1 .. n
      /\ nb[b] = x /\ nb[n] = y
      /\ \A c \in DOMAIN body : c # b => nb[c] = body[c]
      /\ DOMAIN nb = DOMAIN body \cup {n} /\ n \notin DOMAIN body
  BY <1>1, <1>6, <1>7, ChangeAndAppend
<1> HIDE DEF n
<1>9. Closed(nb)
  <2>1. \A c \in DOMAIN nb : nb[c].succ \subseteq DOMAIN nb
    BY <1>1, <1>6, <1>8
  <2> QED BY <1>8, <2>1 DEF Closed
<1> QED BY <1>3, <1>4, <1>6, <1>8, <1>9 DEF CheckAt, nb, n, ins, L

(* Two stretches that show the same show the same first.                   *)
LEMMA SameEarliest ==
  ASSUME NEW body, Closed(body), NEW nb, Closed(nb), NEW Hidden,
         NEW c \in DOMAIN body, NEW k, NEW d \in DOMAIN nb, NEW m, NEW off \in Nat,
         \A j \in Shown(nb, Hidden, d, m) :
           j + off \in Shown(body, Hidden, c, k) /\ nb[d].ins[j] = body[c].ins[j + off],
         \A l \in Shown(body, Hidden, c, k) :
           \E j \in Shown(nb, Hidden, d, m) : j + off <= l
  PROVE  /\ Shown(nb, Hidden, d, m) = {} <=> Shown(body, Hidden, c, k) = {}
         /\ Shown(nb, Hidden, d, m) # {} =>
              Earliest(nb, Hidden, d, m) = Earliest(body, Hidden, c, k)
<1>1. Shown(nb, Hidden, d, m) = {} <=> Shown(body, Hidden, c, k) = {}
  OBVIOUS
<1>2. ASSUME Shown(nb, Hidden, d, m) # {}
      PROVE  Earliest(nb, Hidden, d, m) = Earliest(body, Hidden, c, k)
  <2>1. PICK j \in Shown(nb, Hidden, d, m) :
               /\ \A l \in Shown(nb, Hidden, d, m) : j <= l
               /\ Earliest(nb, Hidden, d, m) = nb[d].ins[j]
    BY <1>2, EarliestExists
  <2>2. j + off \in Shown(body, Hidden, c, k) /\ nb[d].ins[j] = body[c].ins[j + off]
    OBVIOUS
  <2>3. Shown(nb, Hidden, d, m) \subseteq Nat /\ Shown(body, Hidden, c, k) \subseteq Nat
    <3>1. DOMAIN nb[d].ins = 1 .. Len(nb[d].ins) /\ DOMAIN body[c].ins = 1 .. Len(body[c].ins)
      BY BodyShape
    <3> QED BY <3>1 DEF Shown
  <2>4. \A l \in Shown(body, Hidden, c, k) : j + off <= l
    <3> SUFFICES ASSUME NEW l \in Shown(body, Hidden, c, k) PROVE j + off <= l
      OBVIOUS
    <3>1. PICK i \in Shown(nb, Hidden, d, m) : i + off <= l
      OBVIOUS
    <3>2. j <= i /\ j \in Nat /\ i \in Nat /\ l \in Nat
      BY <2>1, <2>3
    <3> QED BY <3>1, <3>2
  <2>5. Earliest(body, Hidden, c, k) = body[c].ins[j + off]
    BY <2>2, <2>4, EarliestIsLeast
  <2> QED BY <2>1, <2>2, <2>5
<1> QED BY <1>1, <1>2

-----------------------------------------------------------------------------
(* What comes next in a block depends on the block and on what comes first *)
(* in its successors.                                                      *)
LEMMA FromDepends ==
  ASSUME NEW body, NEW nb, NEW Hidden, NEW G, NEW E, NEW c, nb[c] = body[c],
         \A d \in body[c].succ : E[d] = G[d], NEW j
  PROVE  From(nb, Hidden, E, c, j) = From(body, Hidden, G, c, j)
<1>1. Shown(nb, Hidden, c, j) = Shown(body, Hidden, c, j)
  BY DEF Shown
<1>2. Earliest(nb, Hidden, c, j) = Earliest(body, Hidden, c, j)
  BY <1>1 DEF Earliest
<1>3. UNION {E[d] : d \in nb[c].succ} = UNION {G[d] : d \in body[c].succ}
  OBVIOUS
<1> QED BY <1>1, <1>2, <1>3 DEF From

(* After a split the same comes next as before in the blocks it does not   *)
(* touch ...                                                               *)
LEMMA SplitFromOther ==
  ASSUME NEW body, Closed(body), NEW b \in DOMAIN body, NEW k,
         NEW nb, SplitAt(body, nb, b, k), NEW Hidden, NEW G, NEW E,
         \A c \in DOMAIN body : E[c] = G[c],
         NEW c \in DOMAIN body, c # b, NEW j
  PROVE  From(nb, Hidden, E, c, j) = From(body, Hidden, G, c, j)
<1>1. body[c].succ \subseteq DOMAIN body
  BY BodyShape
<1>2. nb[c] = body[c] /\ \A d \in body[c].succ : E[d] = G[d]
  BY <1>1 DEF SplitAt
<1> QED BY <1>2, FromDepends

(* ... and in the new one.                                                 *)
LEMMA SplitFromNew ==
  ASSUME NEW body, Closed(body), NEW b \in DOMAIN body, NEW k \in 1 .. Len(body[b].ins) + 1,
         NEW nb, SplitAt(body, nb, b, k), NEW Hidden, NEW G, NEW E,
         \A c \in DOMAIN body : E[c] = G[c], NEW j \in Nat \ {0}
  PROVE  From(nb, Hidden, E, Fresh(body), j) = From(body, Hidden, G, b, j + (k - 1))
<1> DEFINE n == Fresh(body)
           L == Len(body[b].ins)
<1>1. L \in Nat /\ DOMAIN body[b].ins = 1 .. L /\ \A c \in DOMAIN body : body[c].succ \subseteq DOMAIN body
  BY BodyShape
<1>2. From(nb, Hidden, E, n, j) = From(body, Hidden, G, b, j + (k - 1))
  <2>1. /\ Closed(nb) /\ n \in DOMAIN nb /\ nb[n].succ = body[b].succ
        /\ Len(nb[n].ins) = L - k + 1
        /\ \A i \in 1 .. L - k + 1 : nb[n].ins[i] = body[b].ins[i + (k - 1)]
    BY DEF SplitAt
  <2>2. DOMAIN nb[n].ins = 1 .. L - k + 1
    BY <2>1, BodyShape
  <2> DEFINE S == Shown(nb, Hidden, n, j)
             T == Shown(body, Hidden, b, j + (k - 1))
  <2> HIDE DEF L, n
  <2>3. S = {i \in 1 .. L - k + 1 : i >= j /\ body[b].ins[i + (k - 1)] \notin Hidden}
    BY <2>1, <2>2 DEF Shown
  <2>4. T = {l \in 1 .. L : l >= j + (k - 1) /\ body[b].ins[l] \notin Hidden}
    BY <1>1 DEF Shown
  <2> HIDE DEF S, T
  <2>5. k \in Nat /\ k >= 1 /\ k - 1 \in Nat /\ k <= L + 1
    BY <1>1 DEF L
  <2>6. \A i \in S : i + (k - 1) \in T /\ nb[n].ins[i] = body[b].ins[i + (k - 1)]
    BY <2>1, <2>3, <2>4, <2>5, <1>1
  <2>7. ASSUME NEW l \in T
        PROVE  \E i \in S : i + (k - 1) <= l
    <3>1. l - (k - 1) \in 1 .. L - k + 1 /\ l - (k - 1) >= j /\ l - (k - 1) + (k - 1) = l
      BY <2>4, <2>5, <1>1
    <3>2. l - (k - 1) \in S
      BY <3>1, <2>3, <2>4
    <3>3. l - (k - 1) + (k - 1) <= l
      BY <3>1, <2>4
    <3> QED BY <3>2, <3>3
  <2>8. (S = {} <=> T = {}) /\ (S # {} => Earliest(nb, Hidden, n, j) = Earliest(body, Hidden, b, j + (k - 1)))
    BY <2>1, <2>5, <2>6, <2>7, SameEarliest DEF S, T
  <2>9. UNION {E[d] : d \in nb[n].succ} = UNION {G[d] : d \in body[b].succ}
    BY <2>1, <1>1
  <2> QED BY <2>1, <2>8, <2>9 DEF From, S, T
<1> QED BY <1>2 DEF n

(* In the block that was split, too, when the new block is accounted for.  *)
LEMMA SplitFromHead ==
  ASSUME NEW body, Closed(body), NEW b \in DOMAIN body, NEW k \in 1 .. Len(body[b].ins) + 1,
         NEW nb, SplitAt(body, nb, b, k), NEW Hidden, NEW G, NEW E,
         E[Fresh(body)] = From(body, Hidden, G, b, k), NEW j \in 1 .. k
  PROVE  From(nb, Hidden, E, b, j) = From(body, Hidden, G, b, j)
<1> DEFINE n == Fresh(body)
           L == Len(body[b].ins)
           S == Shown(nb, Hidden, b, j)
           T == Shown(body, Hidden, b, j)
<1>1. L \in Nat /\ DOMAIN body[b].ins = 1 .. L /\ k \in Nat /\ k >= 1 /\ k - 1 \in 0 .. L /\ j \in Nat
  BY BodyShape
<1>2. /\ Closed(nb) /\ b \in DOMAIN nb /\ nb[b].succ = {n} /\ Len(nb[b].ins) = k - 1
      /\ \A i \in 1 .. k - 1 : nb[b].ins[i] = body[b].ins[i]
  BY DEF SplitAt
<1>3. DOMAIN nb[b].ins = 1 .. k - 1
  BY <1>2, BodyShape
<1> HIDE DEF L, n
<1>4. S = {i \in 1 .. k - 1 : i >= j /\ body[b].ins[i] \notin Hidden}
  BY <1>2, <1>3 DEF Shown
<1>5. T = {l \in 1 .. L : l >= j /\ body[b].ins[l] \notin Hidden}
  BY <1>1 DEF Shown
<1>6. CASE S # {}
  <2> HIDE DEF S, T
  <2>1. \A i \in S : i + 0 \in T /\ nb[b].ins[i] = body[b].ins[i + 0]
    <3>1. \A i \in S : i \in T /\ i + 0 = i /\ nb[b].ins[i] = body[b].ins[i]
      BY <1>1, <1>2, <1>4, <1>5
    <3> QED BY <3>1
  <2>2. ASSUME NEW l \in T
        PROVE  \E i \in S : i + 0 <= l
    <3>1. CASE l <= k - 1
      <4>1. l \in S /\ l + 0 <= l
        BY <3>1, <1>1, <1>4, <1>5
      <4> QED BY <4>1
    <3>2. CASE ~(l <= k - 1)
      <4>1. PICK i \in S : TRUE
        BY <1>6
      <4>2. i + 0 <= l
        BY <3>2, <1>1, <1>4, <1>5
      <4> QED BY <4>2
    <3> QED BY <3>1, <3>2
  <2>3. (S = {} <=> T = {}) /\ (S # {} => Earliest(nb, Hidden, b, j) = Earliest(body, Hidden, b, j))
    <3>1. 0 \in Nat
      OBVIOUS
    <3> QED BY <3>1, <1>2, <2>1, <2>2, SameEarliest DEF S, T
  <2> QED BY <1>6, <2>3 DEF From, S, T
<1>7. CASE S = {}
  <2>1. From(nb, Hidden, E, b, j) = E[n]
    BY <1>2, <1>7 DEF From
  <2>2. T = Shown(body, Hidden, b, k)
    <3>1. Shown(body, Hidden, b, k) = {l \in 1 .. L : l >= k /\ body[b].ins[l] \notin Hidden}
      BY <1>1 DEF Shown
    <3>2. j <= k
      BY <1>1
    <3>3. \A l \in 1 .. L : l >= j /\ body[b].ins[l] \notin Hidden => l >= k
      <4> SUFFICES ASSUME NEW l \in 1 .. L, l >= j, body[b].ins[l] \notin Hidden, ~(l >= k) PROVE FALSE
        OBVIOUS
      <4>1. l \in 1 .. k - 1
        BY <1>1
      <4> QED BY <4>1, <1>4, <1>7
    <3>4. \A l \in 1 .. L : l >= k => l >= j
      BY <1>1, <3>2
    <3> HIDE DEF T
    <3> QED BY <3>1, <3>3, <3>4, <1>5
  <2>3. Earliest(body, Hidden, b, j) = Earliest(body, Hidden, b, k)
    BY <2>2 DEF Earliest
  <2>4. From(body, Hidden, G, b, j) = From(body, Hidden, G, b, k)
    BY <2>2, <2>3 DEF From
  <2> QED BY <2>1, <2>4 DEF n
<1> QED BY <1>6, <1>7

(* A split changes nothing about what comes first in a block.              *)
LEMMA SplitFirst ==
  ASSUME NEW body, Closed(body), NEW b \in DOMAIN body, NEW k \in 1 .. Len(body[b].ins) + 1,
         NEW nb, SplitAt(body, nb, b, k), NEW Hidden
  PROVE  /\ \A c \in DOMAIN body : First(nb, Hidden)[c] = First(body, Hidden)[c]
         /\ First(nb, Hidden)[Fresh(body)] = From(body, Hidden, First(body, Hidden), b, k)
<1> DEFINE D == DOMAIN body
           n == Fresh(body)
           F == First(body, Hidden)
           F2 == First(nb, Hidden)
           E == [c \in DOMAIN nb |-> IF c = n THEN From(body, Hidden, F, b, k) ELSE F[c]]
           G2 == [c \in D |-> F2[c]]
<1>1. Closed(nb) /\ DOMAIN nb = D \cup {n} /\ n \notin D
  BY DEF SplitAt
<1>2. /\ k \in Nat /\ k >= 1 /\ 1 \in 1 .. k /\ 1 \in Nat \ {0} /\ 1 + (k - 1) = k
      /\ \A c \in D : body[c].succ \subseteq D
  BY BodyShape
<1>3. \A c \in D : F[c] = From(body, Hidden, F, c, 1)
  BY FirstFixpoint
<1>4. \A c \in DOMAIN nb : F2[c] = From(nb, Hidden, F2, c, 1)
  BY <1>1, FirstFixpoint
<1> HIDE DEF F, F2
<1>5. \A c \in D : F2[c] \subseteq F[c]
  <2>1. E[n] = From(body, Hidden, F, b, k) /\ \A c \in D : E[c] = F[c]
    BY <1>1
  <2> HIDE DEF E
  <2>2. ASSUME NEW c \in DOMAIN nb
        PROVE  From(nb, Hidden, E, c, 1) \subseteq E[c]
    <3>1. CASE c = n
      <4>1. From(nb, Hidden, E, n, 1) = From(body, Hidden, F, b, 1 + (k - 1))
        <5>1. \A j \in Nat \ {0} : From(nb, Hidden, E, n, j) = From(body, Hidden, F, b, j + (k - 1))
          BY <2>1, SplitFromNew
        <5> QED BY <5>1, <1>2
      <4> QED BY <3>1, <4>1, <2>1, <1>2
    <3>2. CASE c = b
      <4>1. From(nb, Hidden, E, b, 1) = From(body, Hidden, F, b, 1)
        BY <1>2, <2>1, SplitFromHead
      <4> QED BY <3>2, <4>1, <2>1, <1>3
    <3>3. CASE c # n /\ c # b
      <4>1. c \in D /\ c # b
        BY <3>3, <1>1
      <4>2. From(nb, Hidden, E, c, 1) = From(body, Hidden, F, c, 1)
        BY <4>1, <2>1, SplitFromOther
      <4> QED BY <4>1, <4>2, <2>1, <1>3
    <3> QED BY <3>1, <3>2, <3>3
  <2>3. \A c \in DOMAIN nb : F2[c] \subseteq E[c]
    BY <1>1, <2>2, FirstLeast DEF F2
  <2> QED BY <2>1, <2>3, <1>1
<1>6. \A c \in D : G2[c] = F2[c]
  OBVIOUS
<1> HIDE DEF G2
<1>7. F2[n] = From(body, Hidden, G2, b, k)
  <2>1. F2[n] = From(nb, Hidden, F2, n, 1)
    BY <1>1, <1>4
  <2>2. From(nb, Hidden, F2, n, 1) = From(body, Hidden, G2, b, 1 + (k - 1))
    <3>1. \A j \in Nat \ {0} : From(nb, Hidden, F2, n, j) = From(body, Hidden, G2, b, j + (k - 1))
      BY <1>6, SplitFromNew
    <3> QED BY <3>1, <1>2
  <2> QED BY <2>1, <2>2, <1>2
<1>8. \A c \in D : F[c] \subseteq F2[c]
  <2>1. ASSUME NEW c \in D
        PROVE  From(body, Hidden, G2, c, 1) \subseteq G2[c]
    <3>1. CASE c = b
      <4>1. From(nb, Hidden, F2, b, 1) = From(body, Hidden, G2, b, 1)
        <5>1. F2[Fresh(body)] = From(body, Hidden, G2, b, k)
          BY <1>7
        <5>2. \A j \in 1 .. k : From(nb, Hidden, F2, b, j) = From(body, Hidden, G2, b, j)
          BY <5>1, SplitFromHead
        <5> QED BY <5>2, <1>2
      <4> QED BY <3>1, <4>1, <1>1, <1>4, <1>6
    <3>2. CASE c # b
      <4>1. c \in D /\ c # b
        BY <3>2
      <4>2. From(nb, Hidden, F2, c, 1) = From(body, Hidden, G2, c, 1)
        BY <4>1, <1>6, SplitFromOther
      <4> QED BY <4>2, <1>1, <1>4, <1>6
    <3> QED BY <3>1, <3>2
  <2>2. \A c \in D : F[c] \subseteq G2[c]
    BY <2>1, FirstLeast DEF F
  <2> QED BY <2>2, <1>6
<1>9. \A c \in D : F2[c] = F[c]
  BY <1>5, <1>8
<1>10. From(body, Hidden, G2, b, k) = From(body, Hidden, F, b, k)
  <2>1. \A d \in body[b].succ : G2[d] = F[d]
    BY <1>2, <1>6, <1>9
  <2> QED BY <2>1, FromDepends
<1> QED BY <1>7, <1>9, <1>10 DEF F, F2

(* The pairs of the flow, by where the first of them is.                   *)
LEMMA PlacesAre ==
  ASSUME NEW body, NEW b, NEW k
  PROVE  /\ <<b, k>> \in Places(body) <=> b \in DOMAIN body /\ k \in DOMAIN body[b].ins
         /\ \A p \in Places(body) : p = <<p[1], p[2]>>
<1>1. \A p \in Places(body) : p = <<p[1], p[2]>>
  BY DEF Places
<1>2. <<b, k>> \in Places(body) => b \in DOMAIN body /\ k \in DOMAIN body[b].ins
  BY DEF Places
<1>3. b \in DOMAIN body /\ k \in DOMAIN body[b].ins => <<b, k>> \in {b} \X DOMAIN body[b].ins
  OBVIOUS
<1>4. b \in DOMAIN body /\ k \in DOMAIN body[b].ins => <<b, k>> \in Places(body)
  BY <1>3 DEF Places
<1> QED BY <1>1, <1>2, <1>4

FlowFrom(body, Hidden, b, k, x, y) ==
  /\ b \in DOMAIN body /\ k \in DOMAIN body[b].ins /\ body[b].ins[k] \notin Hidden
  /\ x = body[b].ins[k] /\ y \in From(body, Hidden, First(body, Hidden), b, k + 1)

(* A pair of the flow is from the start, or from an instruction.           *)
LEMMA FlowIs ==
  ASSUME NEW body, NEW Hidden, NEW e
  PROVE  e \in Flow(body, Hidden) <=>
           \E x, y : /\ e = <<x, y>>
                    /\ \/ x = Start /\ y \in First(body, Hidden)[1]
                       \/ \E b, k : FlowFrom(body, Hidden, b, k, x, y)
<1> DEFINE F == First(body, Hidden)
           Q == {q \in Places(body) : body[q[1]].ins[q[2]] \notin Hidden}
           Pairs(p) == {body[p[1]].ins[p[2]]} \X From(body, Hidden, F, p[1], p[2] + 1)
<1>1. Flow(body, Hidden) = ({Start} \X F[1]) \cup UNION {Pairs(p) : p \in Q}
  BY DEF Flow
<1> HIDE DEF F
<1>2. ASSUME e \in {Start} \X F[1]
      PROVE  \E x, y : e = <<x, y>> /\ x = Start /\ y \in F[1]
  BY <1>2
<1>3. ASSUME NEW p \in Q, e \in Pairs(p)
      PROVE  \E x, y : e = <<x, y>> /\ \E b, k : FlowFrom(body, Hidden, b, k, x, y)
  <2>1. p = <<p[1], p[2]>> /\ p[1] \in DOMAIN body /\ p[2] \in DOMAIN body[p[1]].ins
    <3>1. p \in Places(body)
      OBVIOUS
    <3>2. p = <<p[1], p[2]>>
      BY <3>1, PlacesAre
    <3>3. <<p[1], p[2]>> \in Places(body)
      BY <3>1, <3>2
    <3> QED BY <3>2, <3>3, PlacesAre
  <2>2. PICK y \in From(body, Hidden, F, p[1], p[2] + 1) : e = <<body[p[1]].ins[p[2]], y>>
    BY <1>3
  <2>3. FlowFrom(body, Hidden, p[1], p[2], body[p[1]].ins[p[2]], y)
    BY <2>1, <2>2 DEF FlowFrom, F
  <2> QED BY <2>2, <2>3
<1>4. ASSUME NEW x, NEW y, e = <<x, y>>, NEW b, NEW k, FlowFrom(body, Hidden, b, k, x, y)
      PROVE  \E p \in Q : e \in Pairs(p)
  <2>1. <<b, k>> \in Q
    BY <1>4, PlacesAre DEF FlowFrom
  <2>2. e \in Pairs(<<b, k>>)
    BY <1>4 DEF FlowFrom, F
  <2> HIDE DEF Q, Pairs
  <2> QED BY <2>1, <2>2
<1>5. ASSUME NEW x, NEW y, e = <<x, y>>, x = Start, y \in F[1]
      PROVE  e \in {Start} \X F[1]
  BY <1>5
<1> HIDE DEF Q, Pairs
<1> QED BY <1>1, <1>2, <1>3, <1>4, <1>5 DEF F

(* Splitting a block changes nothing about the flow.                       *)
LEMMA SplitFlow ==
  ASSUME NEW body, Closed(body), 1 \in DOMAIN body, NEW b \in DOMAIN body,
         NEW k \in 1 .. Len(body[b].ins) + 1, NEW nb, SplitAt(body, nb, b, k), NEW Hidden
  PROVE  Flow(nb, Hidden) = Flow(body, Hidden)
<1> DEFINE D == DOMAIN body
           n == Fresh(body)
           L == Len(body[b].ins)
           F == First(body, Hidden)
           F2 == First(nb, Hidden)
<1>1. /\ Closed(nb) /\ DOMAIN nb = D \cup {n} /\ n \notin D
      /\ Len(nb[b].ins) = k - 1 /\ Len(nb[n].ins) = L - k + 1
      /\ \A c \in D : c # b => nb[c] = body[c]
      /\ \A i \in 1 .. k - 1 : nb[b].ins[i] = body[b].ins[i]
      /\ \A i \in 1 .. L - k + 1 : nb[n].ins[i] = body[b].ins[i + (k - 1)]
  BY DEF SplitAt
<1>2. L \in Nat /\ k \in Nat /\ k >= 1 /\ k - 1 \in 0 .. L
      /\ \A c \in D : DOMAIN body[c].ins \subseteq Nat \ {0}
  <2>1. L \in Nat /\ \A c \in D : DOMAIN body[c].ins = 1 .. Len(body[c].ins)
    BY BodyShape
  <2> QED BY <2>1
<1>3. DOMAIN body[b].ins = 1 .. L /\ DOMAIN nb[b].ins = 1 .. k - 1 /\ DOMAIN nb[n].ins = 1 .. L - k + 1
  <2>1. \A c \in D : DOMAIN body[c].ins = 1 .. Len(body[c].ins)
    BY BodyShape
  <2>2. \A c \in DOMAIN nb : DOMAIN nb[c].ins = 1 .. Len(nb[c].ins)
    BY <1>1, BodyShape
  <2> QED BY <1>1, <2>1, <2>2
<1>4. /\ \A c \in D : F2[c] = F[c]
      /\ F2[n] = From(body, Hidden, F, b, k)
  BY SplitFirst
<1>5. /\ \A c \in D \ {b}, j \in Nat : From(nb, Hidden, F2, c, j) = From(body, Hidden, F, c, j)
      /\ \A j \in Nat \ {0} : From(nb, Hidden, F2, n, j) = From(body, Hidden, F, b, j + (k - 1))
  <2>1. \A c \in D \ {b}, j \in Nat : From(nb, Hidden, F2, c, j) = From(body, Hidden, F, c, j)
    BY <1>4, SplitFromOther
  <2>2. \A j \in Nat \ {0} : From(nb, Hidden, F2, n, j) = From(body, Hidden, F, b, j + (k - 1))
    BY <1>4, SplitFromNew
  <2> QED BY <2>1, <2>2
<1>6. \A j \in 1 .. k : From(nb, Hidden, F2, b, j) = From(body, Hidden, F, b, j)
  BY <1>4, SplitFromHead
<1> HIDE DEF F, F2, L, n
<1>7. ASSUME NEW x, NEW y, NEW c, NEW j, FlowFrom(nb, Hidden, c, j, x, y)
      PROVE  \E d, i : FlowFrom(body, Hidden, d, i, x, y)
  <2>1. /\ c \in DOMAIN nb /\ j \in DOMAIN nb[c].ins /\ nb[c].ins[j] \notin Hidden
        /\ x = nb[c].ins[j] /\ y \in From(nb, Hidden, F2, c, j + 1)
    BY <1>7 DEF FlowFrom, F2
  <2>2. CASE c = n
    <3>1. j \in 1 .. L - k + 1
      BY <2>1, <2>2, <1>3
    <3>2. j + (k - 1) \in 1 .. L /\ j + 1 \in Nat \ {0} /\ j + 1 + (k - 1) = j + (k - 1) + 1
      BY <3>1, <1>2
    <3>3. nb[c].ins[j] = body[b].ins[j + (k - 1)]
      BY <3>1, <2>2, <1>1
    <3>4. y \in From(body, Hidden, F, b, j + (k - 1) + 1)
      BY <3>2, <2>1, <2>2, <1>5
    <3>5. FlowFrom(body, Hidden, b, j + (k - 1), x, y)
      BY <3>2, <3>3, <3>4, <2>1, <1>3 DEF FlowFrom, F
    <3> QED BY <3>5
  <2>3. CASE c = b
    <3>1. j \in 1 .. k - 1
      BY <2>1, <2>3, <1>3
    <3>2. j \in 1 .. L /\ j + 1 \in 1 .. k
      BY <3>1, <1>2
    <3>3. FlowFrom(body, Hidden, b, j, x, y)
      BY <3>1, <3>2, <2>1, <2>3, <1>1, <1>3, <1>6 DEF FlowFrom, F
    <3> QED BY <3>3
  <2>4. CASE c # n /\ c # b
    <3>1. c \in D \ {b} /\ nb[c] = body[c]
      BY <2>1, <2>4, <1>1
    <3>2. j + 1 \in Nat
      BY <3>1, <2>1, <1>2
    <3>3. FlowFrom(body, Hidden, c, j, x, y)
      BY <3>1, <3>2, <2>1, <1>5 DEF FlowFrom, F
    <3> QED BY <3>3
  <2> QED BY <2>2, <2>3, <2>4
<1>8. ASSUME NEW x, NEW y, NEW c, NEW j, FlowFrom(body, Hidden, c, j, x, y)
      PROVE  \E d, i : FlowFrom(nb, Hidden, d, i, x, y)
  <2>1. /\ c \in D /\ j \in DOMAIN body[c].ins /\ body[c].ins[j] \notin Hidden
        /\ x = body[c].ins[j] /\ y \in From(body, Hidden, F, c, j + 1)
    BY <1>8 DEF FlowFrom, F
  <2>2. CASE c = b /\ j <= k - 1
    <3>1. j \in 1 .. k - 1 /\ j + 1 \in 1 .. k
      BY <2>1, <2>2, <1>2, <1>3
    <3>2. FlowFrom(nb, Hidden, b, j, x, y)
      BY <3>1, <2>1, <2>2, <1>1, <1>3, <1>6 DEF FlowFrom, F2
    <3> QED BY <3>2
  <2>3. CASE c = b /\ ~(j <= k - 1)
    <3>1. PICK i \in 1 .. L - k + 1 : i + (k - 1) = j
      <4>1. j \in 1 .. L
        BY <2>1, <2>3, <1>3
      <4>2. j - (k - 1) \in 1 .. L - k + 1 /\ j - (k - 1) + (k - 1) = j
        BY <4>1, <2>3, <1>2
      <4> QED BY <4>2
    <3>2. i + 1 \in Nat \ {0} /\ i + 1 + (k - 1) = j + 1
      BY <3>1, <1>2
    <3>3. nb[n].ins[i] = body[b].ins[j]
      BY <3>1, <1>1
    <3>4. y \in From(nb, Hidden, F2, n, i + 1)
      BY <3>2, <2>1, <2>3, <1>5
    <3>5. FlowFrom(nb, Hidden, n, i, x, y)
      BY <3>1, <3>3, <3>4, <2>1, <2>3, <1>1, <1>3 DEF FlowFrom, F2
    <3> QED BY <3>5
  <2>4. CASE c # b
    <3>1. c \in D \ {b} /\ nb[c] = body[c] /\ c \in DOMAIN nb
      BY <2>1, <2>4, <1>1
    <3>2. j + 1 \in Nat
      BY <2>1, <1>2
    <3>3. FlowFrom(nb, Hidden, c, j, x, y)
      BY <3>1, <3>2, <2>1, <1>5 DEF FlowFrom, F2
    <3> QED BY <3>3
  <2> QED BY <2>2, <2>3, <2>4
<1>9. F2[1] = F[1]
  BY <1>4
<1>10. \A e : e \in Flow(nb, Hidden) <=> e \in Flow(body, Hidden)
  BY <1>7, <1>8, <1>9, FlowIs DEF F, F2
<1> QED BY <1>10

-----------------------------------------------------------------------------
(* A check changes nothing about what comes next of what it does not       *)
(* insert: in the blocks there were ...                                    *)
LEMMA CheckFromOld ==
  ASSUME NEW body, Closed(body), NEW b \in DOMAIN body, NEW cont \in DOMAIN body,
         body[b].succ = {cont}, NEW nb, CheckAt(body, nb, b, cont), NEW G, NEW E,
         \A c \in DOMAIN body : E[c] = G[c], E[Fresh(body)] = G[cont],
         NEW c \in DOMAIN body, NEW j \in Nat
  PROVE  From(nb, Inserted, E, c, j) = From(body, Inserted, G, c, j)
<1>1. CASE c # b
  <2>1. body[c].succ \subseteq DOMAIN body
    BY BodyShape
  <2>2. nb[c] = body[c] /\ \A d \in body[c].succ : E[d] = G[d]
    BY <1>1, <2>1 DEF CheckAt
  <2> QED BY <2>2, FromDepends
<1>2. CASE c = b
  <2> DEFINE L == Len(body[b].ins)
             S == Shown(nb, Inserted, b, j)
             T == Shown(body, Inserted, b, j)
  <2>1. /\ L \in Nat /\ DOMAIN body[b].ins = 1 .. L
        /\ Closed(nb) /\ b \in DOMAIN nb /\ Len(nb[b].ins) = L + 1
        /\ nb[b].succ = {cont, Fresh(body)}
        /\ \A i \in 1 .. L : nb[b].ins[i] = body[b].ins[i]
        /\ nb[b].ins[L + 1] \in Inserted
    BY BodyShape DEF CheckAt, Inserted
  <2>2. DOMAIN nb[b].ins = 1 .. L + 1
    BY <2>1, BodyShape
  <2> HIDE DEF L
  <2>3. S = {i \in 1 .. L + 1 : i >= j /\ nb[b].ins[i] \notin Inserted}
        /\ T = {i \in 1 .. L : i >= j /\ body[b].ins[i] \notin Inserted}
    BY <2>1, <2>2 DEF Shown
  <2>4. \A i : i \in 1 .. L + 1 <=> i \in 1 .. L \/ i = L + 1
    BY <2>1
  <2>5. S = T
    <3> HIDE DEF S, T
    <3> QED BY <2>1, <2>3, <2>4
  <2>6. S # {} => Earliest(nb, Inserted, b, j) = Earliest(body, Inserted, b, j)
    <3> SUFFICES ASSUME S # {}
                 PROVE  Earliest(nb, Inserted, b, j) = Earliest(body, Inserted, b, j)
      OBVIOUS
    <3>1. PICK i \in T : /\ \A l \in T : i <= l
                        /\ Earliest(body, Inserted, b, j) = body[b].ins[i]
      BY <2>5, EarliestExists
    <3>2. Earliest(nb, Inserted, b, j) = nb[b].ins[i]
      BY <2>1, <2>5, <3>1, EarliestIsLeast
    <3>3. nb[b].ins[i] = body[b].ins[i]
      <4> HIDE DEF S, T
      <4> QED BY <2>1, <2>3, <3>1
    <3> QED BY <3>1, <3>2, <3>3
  <2>7. UNION {E[d] : d \in nb[b].succ} = UNION {G[d] : d \in body[b].succ}
    BY <2>1
  <2>8. nb[b].succ # {} /\ body[b].succ # {}
    BY <2>1
  <2> QED BY <1>2, <2>5, <2>6, <2>7, <2>8 DEF From
<1> QED BY <1>1, <1>2

(* ... and in the one that calls __morestack.                              *)
LEMMA CheckFromNew ==
  ASSUME NEW body, Closed(body), NEW b \in DOMAIN body, NEW cont \in DOMAIN body,
         NEW nb, CheckAt(body, nb, b, cont), NEW E
  PROVE  From(nb, Inserted, E, Fresh(body), 1) = E[cont]
<1> DEFINE n == Fresh(body)
<1>1. Closed(nb) /\ n \in DOMAIN nb /\ nb[n].succ = {cont} /\ Len(nb[n].ins) = 1
      /\ nb[n].ins[1] \in Inserted
  BY DEF CheckAt, Inserted
<1>2. DOMAIN nb[n].ins = 1 .. 1
  BY <1>1, BodyShape
<1>3. Shown(nb, Inserted, n, 1) = {}
  BY <1>1, <1>2 DEF Shown
<1>4. UNION {E[d] : d \in nb[n].succ} = E[cont] /\ nb[n].succ # {}
  BY <1>1
<1> QED BY <1>3, <1>4 DEF From

(* A check changes nothing about what comes first in a block.              *)
LEMMA CheckFirst ==
  ASSUME NEW body, Closed(body), NEW b \in DOMAIN body, NEW cont \in DOMAIN body,
         body[b].succ = {cont}, NEW nb, CheckAt(body, nb, b, cont)
  PROVE  /\ \A c \in DOMAIN body : First(nb, Inserted)[c] = First(body, Inserted)[c]
         /\ First(nb, Inserted)[Fresh(body)] = First(body, Inserted)[cont]
<1> DEFINE D == DOMAIN body
           n == Fresh(body)
           F == First(body, Inserted)
           F2 == First(nb, Inserted)
           E == [c \in DOMAIN nb |-> IF c = n THEN F[cont] ELSE F[c]]
           G2 == [c \in D |-> F2[c]]
<1>1. Closed(nb) /\ DOMAIN nb = D \cup {n} /\ n \notin D
  BY DEF CheckAt
<1>2. \A c \in D : F[c] = From(body, Inserted, F, c, 1)
  BY FirstFixpoint
<1>3. \A c \in DOMAIN nb : F2[c] = From(nb, Inserted, F2, c, 1)
  BY <1>1, FirstFixpoint
<1> HIDE DEF F, F2
<1>4. \A c \in D : F2[c] \subseteq F[c]
  <2>1. E[n] = F[cont] /\ \A c \in D : E[c] = F[c]
    BY <1>1
  <2> HIDE DEF E
  <2>2. ASSUME NEW c \in DOMAIN nb
        PROVE  From(nb, Inserted, E, c, 1) \subseteq E[c]
    <3>1. CASE c = n
      <4>1. From(nb, Inserted, E, n, 1) = E[cont]
        BY CheckFromNew
      <4> QED BY <3>1, <4>1, <2>1
    <3>2. CASE c # n
      <4>1. c \in D /\ 1 \in Nat
        BY <3>2, <1>1
      <4>2. From(nb, Inserted, E, c, 1) = From(body, Inserted, F, c, 1)
        BY <4>1, <2>1, CheckFromOld
      <4> QED BY <4>1, <4>2, <2>1, <1>2
    <3> QED BY <3>1, <3>2
  <2>3. \A c \in DOMAIN nb : F2[c] \subseteq E[c]
    BY <1>1, <2>2, FirstLeast DEF F2
  <2> QED BY <2>1, <2>3, <1>1
<1>5. \A c \in D : G2[c] = F2[c]
  OBVIOUS
<1> HIDE DEF G2
<1>6. F2[n] = F2[cont]
  BY <1>1, <1>3, CheckFromNew
<1>7. \A c \in D : F[c] \subseteq F2[c]
  <2>1. ASSUME NEW c \in D
        PROVE  From(body, Inserted, G2, c, 1) \subseteq G2[c]
    <3>1. F2[n] = G2[cont] /\ \A d \in D : F2[d] = G2[d]
      BY <1>5, <1>6
    <3>2. 1 \in Nat
      OBVIOUS
    <3>3. From(nb, Inserted, F2, c, 1) = From(body, Inserted, G2, c, 1)
      BY <3>1, <3>2, CheckFromOld
    <3> QED BY <3>3, <1>1, <1>3, <1>5
  <2>2. \A c \in D : F[c] \subseteq G2[c]
    BY <2>1, FirstLeast DEF F
  <2> QED BY <2>2, <1>5
<1> QED BY <1>4, <1>6, <1>7 DEF F, F2

(* A check changes nothing about the flow of what it does not insert.      *)
LEMMA CheckFlow ==
  ASSUME NEW body, Closed(body), 1 \in DOMAIN body,
         NEW b \in DOMAIN body, NEW cont \in DOMAIN body,
         body[b].succ = {cont}, NEW nb, CheckAt(body, nb, b, cont)
  PROVE  Flow(nb, Inserted) = Flow(body, Inserted)
<1> DEFINE D == DOMAIN body
           n == Fresh(body)
           L == Len(body[b].ins)
           F == First(body, Inserted)
           F2 == First(nb, Inserted)
<1>1. /\ Closed(nb) /\ DOMAIN nb = D \cup {n} /\ n \notin D
      /\ Len(nb[b].ins) = L + 1 /\ Len(nb[n].ins) = 1
      /\ \A c \in D : c # b => nb[c] = body[c]
      /\ \A i \in 1 .. L : nb[b].ins[i] = body[b].ins[i]
      /\ nb[b].ins[L + 1] \in Inserted /\ nb[n].ins[1] \in Inserted
  BY DEF CheckAt, Inserted
<1>2. L \in Nat /\ \A c \in D : DOMAIN body[c].ins \subseteq Nat
  <2>1. L \in Nat /\ \A c \in D : DOMAIN body[c].ins = 1 .. Len(body[c].ins)
    BY BodyShape
  <2> QED BY <2>1
<1>3. DOMAIN body[b].ins = 1 .. L /\ DOMAIN nb[b].ins = 1 .. L + 1 /\ DOMAIN nb[n].ins = 1 .. 1
  <2>1. \A c \in D : DOMAIN body[c].ins = 1 .. Len(body[c].ins)
    BY BodyShape
  <2>2. \A c \in DOMAIN nb : DOMAIN nb[c].ins = 1 .. Len(nb[c].ins)
    BY <1>1, BodyShape
  <2> QED BY <1>1, <2>1, <2>2
<1>4. F2[n] = F[cont] /\ \A c \in D : F2[c] = F[c]
  BY CheckFirst
<1>5. \A c \in D, j \in Nat : From(nb, Inserted, F2, c, j) = From(body, Inserted, F, c, j)
  BY <1>4, CheckFromOld
<1> HIDE DEF F, F2, L, n
<1>6. \A c \in DOMAIN nb : \A j : (j \in DOMAIN nb[c].ins /\ nb[c].ins[j] \notin Inserted) <=>
        (c \in D /\ j \in DOMAIN body[c].ins /\ body[c].ins[j] \notin Inserted)
  <2> SUFFICES ASSUME NEW c \in DOMAIN nb, NEW j
               PROVE  (j \in DOMAIN nb[c].ins /\ nb[c].ins[j] \notin Inserted) <=>
                        (c \in D /\ j \in DOMAIN body[c].ins /\ body[c].ins[j] \notin Inserted)
    OBVIOUS
  <2>1. CASE c = n
    BY <2>1, <1>1, <1>3
  <2>2. CASE c = b
    <3>1. j \in 1 .. L + 1 <=> j \in 1 .. L \/ j = L + 1
      BY <1>2
    <3> QED BY <2>2, <3>1, <1>1, <1>3
  <2>3. CASE c # n /\ c # b
    BY <2>3, <1>1
  <2> QED BY <2>1, <2>2, <2>3
<1>7. \A c \in D : \A j : j \in DOMAIN body[c].ins => nb[c].ins[j] = body[c].ins[j] /\ j + 1 \in Nat
  BY <1>1, <1>2, <1>3
<1>8. \A x, y, c, j : FlowFrom(nb, Inserted, c, j, x, y) <=> FlowFrom(body, Inserted, c, j, x, y)
  BY <1>1, <1>5, <1>6, <1>7 DEF FlowFrom, F, F2
<1>9. \A e : e \in Flow(nb, Inserted) <=> e \in Flow(body, Inserted)
  BY <1>4, <1>8, FlowIs DEF F, F2
<1> QED BY <1>9

-----------------------------------------------------------------------------
(* With nothing hidden, what comes next of an instruction is the next one  *)
(* of its block.                                                           *)
LEMMA NextInBlock ==
  ASSUME NEW body, Closed(body), NEW b \in DOMAIN body, NEW j \in 1 .. Len(body[b].ins), NEW G
  PROVE  From(body, {}, G, b, j) = {body[b].ins[j]}
<1>1. DOMAIN body[b].ins = 1 .. Len(body[b].ins) /\ j \in Nat
  BY BodyShape
<1>2. j \in Shown(body, {}, b, j) /\ \A l \in Shown(body, {}, b, j) : j <= l
  BY <1>1 DEF Shown
<1>3. Earliest(body, {}, b, j) = body[b].ins[j]
  BY <1>2, EarliestIsLeast
<1> QED BY <1>2, <1>3 DEF From

(* After a check, with nothing hidden: in a block there was, what came     *)
(* next still does, or the check does.                                     *)
LEMMA CheckNext ==
  ASSUME NEW body, Closed(body), NEW b \in DOMAIN body, NEW cont \in DOMAIN body,
         NEW nb, CheckAt(body, nb, b, cont), NEW G, NEW E,
         \A d \in DOMAIN body : E[d] \subseteq G[d] \cup {Check},
         NEW c \in DOMAIN body, NEW j \in Nat \ {0}, c = b => j <= Len(body[b].ins) + 1
  PROVE  From(nb, {}, E, c, j) \subseteq From(body, {}, G, c, j) \cup {Check}
<1>1. CASE c # b
  <2>1. nb[c] = body[c] /\ body[c].succ \subseteq DOMAIN body
    BY <1>1, BodyShape DEF CheckAt
  <2>2. Shown(nb, {}, c, j) = Shown(body, {}, c, j)
    BY <2>1 DEF Shown
  <2>3. Earliest(nb, {}, c, j) = Earliest(body, {}, c, j)
    BY <2>1, <2>2 DEF Earliest
  <2>4. UNION {E[d] : d \in nb[c].succ} \subseteq (UNION {G[d] : d \in body[c].succ}) \cup {Check}
    BY <2>1
  <2> QED BY <2>1, <2>2, <2>3, <2>4 DEF From
<1>2. CASE c = b
  <2> DEFINE L == Len(body[b].ins)
  <2>1. /\ L \in Nat /\ Closed(nb) /\ b \in DOMAIN nb /\ Len(nb[b].ins) = L + 1
        /\ \A i \in 1 .. L : nb[b].ins[i] = body[b].ins[i]
        /\ nb[b].ins[L + 1] = Check
    BY BodyShape DEF CheckAt
  <2> HIDE DEF L
  <2>2. j \in 1 .. L + 1
    BY <1>2, <2>1 DEF L
  <2>3. From(nb, {}, E, b, j) = {nb[b].ins[j]}
    BY <2>1, <2>2, NextInBlock
  <2>4. CASE j \in 1 .. L
    <3>1. From(body, {}, G, b, j) = {body[b].ins[j]}
      BY <2>4, NextInBlock DEF L
    <3> QED BY <1>2, <2>1, <2>3, <2>4, <3>1
  <2>5. CASE j = L + 1
    BY <1>2, <2>1, <2>3, <2>5
  <2> QED BY <2>1, <2>2, <2>4, <2>5
<1> QED BY <1>1, <1>2

(* A check comes between what the flow goes from and what it goes to, or   *)
(* leaves the two as they were.                                            *)
LEMMA CheckFlowAll ==
  ASSUME NEW body, Closed(body), 1 \in DOMAIN body,
         NEW b \in DOMAIN body, NEW cont \in DOMAIN body,
         NEW nb, CheckAt(body, nb, b, cont)
  PROVE  \A e \in Flow(nb, {}) :
           \/ e \in Flow(body, {}) /\ ~(e[1] = Start /\ b = 1 /\ Len(body[b].ins) = 0)
           \/ e[2] = Check
           \/ e[1] \in Inserted
<1> DEFINE D == DOMAIN body
           n == Fresh(body)
           L == Len(body[b].ins)
           F == First(body, {})
           F2 == First(nb, {})
           E == [c \in DOMAIN nb |-> IF c = n THEN {CallMorestack} ELSE F[c] \cup {Check}]
<1>1. /\ Closed(nb) /\ DOMAIN nb = D \cup {n} /\ n \notin D
      /\ Len(nb[b].ins) = L + 1 /\ Len(nb[n].ins) = 1
      /\ \A c \in D : c # b => nb[c] = body[c]
      /\ \A i \in 1 .. L : nb[b].ins[i] = body[b].ins[i]
      /\ nb[b].ins[L + 1] = Check /\ nb[n].ins[1] = CallMorestack
  BY DEF CheckAt
<1>2. L \in Nat /\ \A c \in D : DOMAIN body[c].ins \subseteq Nat
  <2>1. L \in Nat /\ \A c \in D : DOMAIN body[c].ins = 1 .. Len(body[c].ins)
    BY BodyShape
  <2> QED BY <2>1
<1>3. DOMAIN body[b].ins = 1 .. L /\ DOMAIN nb[b].ins = 1 .. L + 1 /\ DOMAIN nb[n].ins = 1 .. 1
  <2>1. \A c \in D : DOMAIN body[c].ins = 1 .. Len(body[c].ins)
    BY BodyShape
  <2>2. \A c \in DOMAIN nb : DOMAIN nb[c].ins = 1 .. Len(nb[c].ins)
    BY <1>1, BodyShape
  <2> QED BY <1>1, <2>1, <2>2
<1>4. \A c \in D : F[c] = From(body, {}, F, c, 1)
  BY FirstFixpoint
<1>5. \A c \in DOMAIN nb : F2[c] = From(nb, {}, F2, c, 1)
  BY <1>1, FirstFixpoint
<1>6. \A G : From(nb, {}, G, n, 1) = {CallMorestack}
  BY <1>1, NextInBlock
<1> HIDE DEF F, F2
<1>7. \A c \in D : F2[c] \subseteq F[c] \cup {Check}
  <2>1. E[n] = {CallMorestack} /\ \A c \in D : E[c] = F[c] \cup {Check}
    BY <1>1
  <2> HIDE DEF E
  <2>2. ASSUME NEW c \in DOMAIN nb
        PROVE  From(nb, {}, E, c, 1) \subseteq E[c]
    <3>1. CASE c = n
      BY <3>1, <1>6, <2>1
    <3>2. CASE c # n
      <4>1. c \in D /\ 1 \in Nat \ {0} /\ 1 <= L + 1
        BY <3>2, <1>1, <1>2
      <4>2. From(nb, {}, E, c, 1) \subseteq From(body, {}, F, c, 1) \cup {Check}
        BY <4>1, <2>1, CheckNext
      <4> QED BY <4>1, <4>2, <2>1, <1>4
    <3> QED BY <3>1, <3>2
  <2>3. \A c \in DOMAIN nb : F2[c] \subseteq E[c]
    BY <1>1, <2>2, FirstLeast DEF F2
  <2> QED BY <2>1, <2>3, <1>1
<1> HIDE DEF E
<1>8. ASSUME NEW x, NEW y, NEW c, NEW j, FlowFrom(nb, {}, c, j, x, y)
      PROVE  FlowFrom(body, {}, c, j, x, y) \/ y = Check \/ x \in Inserted
  <2>1. /\ c \in DOMAIN nb /\ j \in DOMAIN nb[c].ins
        /\ x = nb[c].ins[j] /\ y \in From(nb, {}, F2, c, j + 1)
    BY <1>8 DEF FlowFrom, F2
  <2>2. CASE c = n
    BY <2>1, <2>2, <1>1, <1>3 DEF Inserted
  <2>3. CASE c = b /\ j = L + 1
    BY <2>1, <2>3, <1>1 DEF Inserted
  <2>4. CASE c # n /\ ~(c = b /\ j = L + 1)
    <3>1. c \in D /\ j \in DOMAIN body[c].ins /\ x = body[c].ins[j] /\ (c = b => j + 1 <= L + 1)
      <4>1. CASE c = b
        BY <4>1, <2>1, <2>4, <1>1, <1>2, <1>3
      <4>2. CASE c # b
        BY <4>2, <2>1, <2>4, <1>1
      <4> QED BY <4>1, <4>2
    <3>2. j + 1 \in Nat \ {0}
      BY <3>1, <1>2
    <3>3. From(nb, {}, F2, c, j + 1) \subseteq From(body, {}, F, c, j + 1) \cup {Check}
      BY <3>1, <3>2, <1>7, CheckNext DEF L
    <3> QED BY <3>1, <3>3, <2>1 DEF FlowFrom, F
  <2> QED BY <2>2, <2>3, <2>4
<1>9. b = 1 /\ L = 0 => F2[1] = {Check}
  <2> SUFFICES ASSUME b = 1, L = 0 PROVE F2[1] = {Check}
    OBVIOUS
  <2>1. b \in DOMAIN nb /\ 1 \in 1 .. Len(nb[b].ins) /\ nb[b].ins[1] = Check
    BY <1>1
  <2>2. From(nb, {}, F2, b, 1) = {Check}
    BY <1>1, <2>1, NextInBlock
  <2> QED BY <1>5, <2>1, <2>2
<1>10. ASSUME NEW e \in Flow(nb, {})
       PROVE  \/ e \in Flow(body, {}) /\ ~(e[1] = Start /\ b = 1 /\ L = 0)
              \/ e[2] = Check \/ e[1] \in Inserted
  <2>1. PICK x, y : /\ e = <<x, y>>
                    /\ \/ x = Start /\ y \in F2[1]
                       \/ \E c, j : FlowFrom(nb, {}, c, j, x, y)
    BY FlowIs DEF F2
  <2>2. e[1] = x /\ e[2] = y
    BY <2>1
  <2>3. CASE x = Start /\ y \in F2[1]
    <3>1. y = Check \/ (y \in F[1] /\ ~(b = 1 /\ L = 0))
      BY <2>3, <1>7, <1>9
    <3>2. y \in F[1] => e \in Flow(body, {})
      BY <2>1, <2>3, FlowIs DEF F
    <3> QED BY <2>2, <3>1, <3>2
  <2>4. ASSUME NEW c, NEW j, FlowFrom(nb, {}, c, j, x, y), ~(x = Start)
        PROVE  e \in Flow(body, {}) \/ y = Check \/ x \in Inserted
    BY <2>1, <2>4, <1>8, FlowIs
  <2>5. ASSUME NEW c, NEW j, FlowFrom(nb, {}, c, j, x, y), x = Start
        PROVE  FALSE
    <3>1. c \in DOMAIN nb /\ j \in DOMAIN nb[c].ins /\ x = nb[c].ins[j]
      BY <2>5 DEF FlowFrom
    <3>2. x \in Instruction
      BY <1>1, <3>1, BodyShape, ElementOfSeq
    <3> QED BY <2>5, <3>2 DEF Start, Instruction, Allocas
  <2> QED BY <2>1, <2>2, <2>3, <2>4, <2>5
<1> QED BY <1>10 DEF L

-----------------------------------------------------------------------------
(* Where the instructions are.                                             *)
Has(body, b, k, x) ==
  b \in DOMAIN body /\ k \in DOMAIN body[b].ins /\ x = body[b].ins[k]

Holds(body, x) == \E b, k : Has(body, b, k, x)

(* What the pass keeps of a body, besides the flow: what has no id is what *)
(* it inserts, and what has one is in one place.                           *)
NoIdInserted(body) == \A b, k, x : Has(body, b, k, x) /\ x.id = 0 => x \in Inserted

OncePerId(body) ==
  \A b, k, x, c, j, y :
    Has(body, b, k, x) /\ Has(body, c, j, y) /\ x.id = y.id /\ x.id # 0 => b = c /\ k = j

Good(body) ==
  Closed(body) /\ 1 \in DOMAIN body /\ NoIdInserted(body) /\ OncePerId(body)

(* What a body has is neither the start nor the exit of the flow.          *)
LEMMA HasTyped ==
  ASSUME NEW body, Closed(body), NEW b, NEW k, NEW x, Has(body, b, k, x)
  PROVE  x \in Instruction /\ x # Start /\ x # Exit /\ k \in Nat \ {0}
<1>1. /\ body[b].ins \in Seq(Instruction) /\ DOMAIN body[b].ins = 1 .. Len(body[b].ins)
      /\ Len(body[b].ins) \in Nat
  BY BodyShape DEF Has
<1>2. x \in Instruction
  BY <1>1, ElementOfSeq DEF Has
<1> QED BY <1>1, <1>2 DEF Has, Instruction, Start, Exit, Allocas

(* Split moves the end of a block to the new one.                          *)
LEMMA SplitHas ==
  ASSUME NEW body, Closed(body), NEW b \in DOMAIN body, NEW k \in 1 .. Len(body[b].ins) + 1,
         NEW nb, SplitAt(body, nb, b, k), NEW c, NEW j, NEW x
  PROVE  Has(nb, c, j, x) <=>
           \/ c # b /\ c # Fresh(body) /\ Has(body, c, j, x)
           \/ c = b /\ j < k /\ Has(body, b, j, x)
           \/ c = Fresh(body) /\ j \in Nat \ {0} /\ Has(body, b, j + (k - 1), x)
<1> DEFINE n == Fresh(body)
           L == Len(body[b].ins)
<1>1. /\ Closed(nb) /\ DOMAIN nb = DOMAIN body \cup {n} /\ n \notin DOMAIN body
      /\ Len(nb[b].ins) = k - 1 /\ Len(nb[n].ins) = L - k + 1
      /\ \A d \in DOMAIN body : d # b => nb[d] = body[d]
      /\ \A i \in 1 .. k - 1 : nb[b].ins[i] = body[b].ins[i]
      /\ \A i \in 1 .. L - k + 1 : nb[n].ins[i] = body[b].ins[i + (k - 1)]
  BY DEF SplitAt
<1>2. DOMAIN body[b].ins = 1 .. L /\ L \in Nat
  BY BodyShape
<1>3. DOMAIN nb[b].ins = 1 .. k - 1 /\ DOMAIN nb[n].ins = 1 .. L - k + 1
  BY <1>1, BodyShape
<1> HIDE DEF n, L
<1>4. k \in Nat /\ k >= 1 /\ k <= L + 1
  BY <1>2 DEF L
<1>5. CASE c # b /\ c # n
  BY <1>1, <1>5 DEF Has, n
<1>6. CASE c = b
  <2>1. c # n
    BY <1>1, <1>6
  <2>2. j \in 1 .. k - 1 <=> j \in 1 .. L /\ j < k
    BY <1>2, <1>4
  <2> QED BY <2>1, <2>2, <1>1, <1>2, <1>3, <1>6 DEF Has, n
<1>7. CASE c = n
  <2>1. j \in 1 .. L - k + 1 <=> j \in Nat \ {0} /\ j + (k - 1) \in 1 .. L
    BY <1>2, <1>4
  <2>2. c # b
    BY <1>1, <1>7
  <2> QED BY <2>1, <2>2, <1>1, <1>2, <1>3, <1>7 DEF Has, n
<1> QED BY <1>5, <1>6, <1>7

(* Nothing is lost by it or comes into being.                              *)
LEMMA SplitHolds ==
  ASSUME NEW body, Closed(body), NEW b \in DOMAIN body, NEW k \in 1 .. Len(body[b].ins) + 1,
         NEW nb, SplitAt(body, nb, b, k), NEW x
  PROVE  Holds(nb, x) <=> Holds(body, x)
<1>1. Holds(nb, x) => Holds(body, x)
  BY SplitHas DEF Holds
<1>2. ASSUME NEW c, NEW j, Has(body, c, j, x)
      PROVE  Holds(nb, x)
  <2>1. j \in Nat /\ j >= 1 /\ k \in Nat /\ k >= 1 /\ c # Fresh(body)
    <3>1. DOMAIN body[c].ins = 1 .. Len(body[c].ins) /\ Len(body[b].ins) \in Nat
      BY <1>2, BodyShape DEF Has
    <3>2. c # Fresh(body)
      BY <1>2 DEF Has, SplitAt
    <3> QED BY <1>2, <3>1, <3>2 DEF Has
  <2>2. CASE c # b
    <3>1. Has(nb, c, j, x)
      BY <1>2, <2>1, <2>2, SplitHas
    <3> QED BY <3>1 DEF Holds
  <2>3. CASE c = b /\ j < k
    <3>1. Has(nb, c, j, x)
      BY <1>2, <2>1, <2>3, SplitHas
    <3> QED BY <3>1 DEF Holds
  <2>4. CASE c = b /\ ~(j < k)
    <3>1. PICK i \in Nat \ {0} : i + (k - 1) = j
      <4>1. j - (k - 1) \in Nat \ {0} /\ j - (k - 1) + (k - 1) = j
        BY <2>1, <2>4
      <4> QED BY <4>1
    <3>2. Has(body, b, i + (k - 1), x)
      BY <1>2, <2>4, <3>1
    <3>3. Has(nb, Fresh(body), i, x)
      BY <3>2, SplitHas
    <3> QED BY <3>3 DEF Holds
  <2> QED BY <2>2, <2>3, <2>4
<1> QED BY <1>1, <1>2 DEF Holds

(* Split keeps bodies good.                                                *)
LEMMA SplitGood ==
  ASSUME NEW body, Good(body), NEW b \in DOMAIN body, NEW k \in 1 .. Len(body[b].ins) + 1,
         NEW nb, SplitAt(body, nb, b, k)
  PROVE  Good(nb)
<1>1. Closed(body) /\ Closed(nb) /\ 1 \in DOMAIN nb /\ k \in Nat
  <2>1. Len(body[b].ins) \in Nat
    BY BodyShape DEF Good
  <2> QED BY <2>1 DEF Good, SplitAt
<1>2. NoIdInserted(nb)
  <2> SUFFICES ASSUME NEW c, NEW j, NEW x, Has(nb, c, j, x), x.id = 0
               PROVE  x \in Inserted
    BY DEF NoIdInserted
  <2>1. Holds(body, x)
    BY <1>1, SplitHolds DEF Holds
  <2> QED BY <2>1 DEF Holds, Good, NoIdInserted
<1>3. OncePerId(nb)
  <2> SUFFICES ASSUME NEW c, NEW j, NEW x, NEW d, NEW i, NEW y,
                      Has(nb, c, j, x), Has(nb, d, i, y), x.id = y.id, x.id # 0
               PROVE  c = d /\ j = i
    BY DEF OncePerId
  <2>1. \A p, l, z, q, m, w :
          Has(body, p, l, z) /\ Has(body, q, m, w) /\ z.id = w.id /\ z.id # 0 => p = q /\ l = m
    BY DEF Good, OncePerId
  <2>2. j \in Nat \ {0} /\ i \in Nat \ {0}
    BY <1>1, HasTyped
  <2>3. \/ c # b /\ c # Fresh(body) /\ Has(body, c, j, x)
        \/ c = b /\ j < k /\ Has(body, b, j, x)
        \/ c = Fresh(body) /\ j \in Nat \ {0} /\ Has(body, b, j + (k - 1), x)
    BY <1>1, SplitHas
  <2>4. \/ d # b /\ d # Fresh(body) /\ Has(body, d, i, y)
        \/ d = b /\ i < k /\ Has(body, b, i, y)
        \/ d = Fresh(body) /\ i \in Nat \ {0} /\ Has(body, b, i + (k - 1), y)
    BY <1>1, SplitHas
  <2>5. b # Fresh(body)
    BY DEF SplitAt
  <2> QED BY <1>1, <2>1, <2>2, <2>3, <2>4, <2>5
<1> QED BY <1>1, <1>2, <1>3 DEF Good

(* AddCheck adds its two instructions.                                     *)
LEMMA CheckHas ==
  ASSUME NEW body, Closed(body), NEW b \in DOMAIN body, NEW cont \in DOMAIN body,
         NEW nb, CheckAt(body, nb, b, cont), NEW c, NEW j, NEW x
  PROVE  Has(nb, c, j, x) <=>
           \/ Has(body, c, j, x)
           \/ c = b /\ j = Len(body[b].ins) + 1 /\ x = Check
           \/ c = Fresh(body) /\ j = 1 /\ x = CallMorestack
<1> DEFINE n == Fresh(body)
           L == Len(body[b].ins)
<1>1. /\ Closed(nb) /\ DOMAIN nb = DOMAIN body \cup {n} /\ n \notin DOMAIN body
      /\ Len(nb[b].ins) = L + 1 /\ Len(nb[n].ins) = 1
      /\ \A d \in DOMAIN body : d # b => nb[d] = body[d]
      /\ \A i \in 1 .. L : nb[b].ins[i] = body[b].ins[i]
      /\ nb[b].ins[L + 1] = Check /\ nb[n].ins[1] = CallMorestack
  BY DEF CheckAt
<1>2. DOMAIN body[b].ins = 1 .. L /\ L \in Nat
  BY BodyShape
<1>3. DOMAIN nb[b].ins = 1 .. L + 1 /\ DOMAIN nb[n].ins = 1 .. 1
  BY <1>1, BodyShape
<1> HIDE DEF n, L
<1>4. CASE c # b /\ c # n
  BY <1>1, <1>4 DEF Has, n
<1>5. CASE c = b
  <2>1. j \in 1 .. L + 1 <=> j \in 1 .. L \/ j = L + 1
    BY <1>2
  <2>2. L + 1 \notin 1 .. L /\ c # n
    BY <1>1, <1>2, <1>5
  <2> QED BY <2>1, <2>2, <1>1, <1>2, <1>3, <1>5 DEF Has, n, L
<1>6. CASE c = n
  <2>1. j \in 1 .. 1 <=> j = 1
    OBVIOUS
  <2> QED BY <2>1, <1>1, <1>3, <1>6 DEF Has, n
<1> QED BY <1>4, <1>5, <1>6

(* AddCheck keeps bodies good.                                             *)
LEMMA CheckGood ==
  ASSUME NEW body, Good(body), NEW b \in DOMAIN body, NEW cont \in DOMAIN body,
         NEW nb, CheckAt(body, nb, b, cont)
  PROVE  /\ Good(nb)
         /\ \A x : Holds(nb, x) <=> Holds(body, x) \/ x \in Inserted
<1>1. Closed(body) /\ Closed(nb) /\ 1 \in DOMAIN nb
  BY DEF Good, CheckAt
<1>2. \A c, j, x : Has(nb, c, j, x) <=>
           \/ Has(body, c, j, x)
           \/ c = b /\ j = Len(body[b].ins) + 1 /\ x = Check
           \/ c = Fresh(body) /\ j = 1 /\ x = CallMorestack
  BY <1>1, CheckHas
<1>3. Check.id = 0 /\ CallMorestack.id = 0 /\ Inserted = {Check, CallMorestack}
  BY DEF Check, CallMorestack, Inserted
<1>4. NoIdInserted(nb)
  BY <1>2, <1>3 DEF NoIdInserted, Good
<1>5. OncePerId(nb)
  BY <1>2, <1>3 DEF OncePerId, Good
<1>6. \A x : Holds(nb, x) <=> Holds(body, x) \/ x \in Inserted
  <2>1. Has(nb, b, Len(body[b].ins) + 1, Check) /\ Has(nb, Fresh(body), 1, CallMorestack)
    BY <1>2
  <2> QED BY <1>2, <1>3, <2>1 DEF Holds
<1> QED BY <1>1, <1>4, <1>5, <1>6 DEF Good

-----------------------------------------------------------------------------
(* The claim of StackMovesChecked for one body, but for the allocas in D.  *)
Checked(body, D) ==
  \A e \in Flow(body, {}) :
    e[1] = Start \/ (e[1].op \in Allocas /\ e[1].id \notin D) => e[2] = Check

HoldsAlloca(body, id) == \E x : Holds(body, x) /\ x.op \in Allocas /\ x.id = id

(* The flow goes from the start or from an instruction of the body.        *)
LEMMA FlowHolds ==
  ASSUME NEW body, NEW Hidden, NEW e \in Flow(body, Hidden)
  PROVE  e[1] = Start \/ Holds(body, e[1])
<1>1. PICK x, y : /\ e = <<x, y>>
                  /\ \/ x = Start /\ y \in First(body, Hidden)[1]
                     \/ \E b, k : FlowFrom(body, Hidden, b, k, x, y)
  BY FlowIs
<1> QED BY <1>1 DEF Holds, Has, FlowFrom

(* A check checks no less than there was.                                  *)
LEMMA CheckChecked ==
  ASSUME NEW body, Closed(body), 1 \in DOMAIN body,
         NEW b \in DOMAIN body, NEW cont \in DOMAIN body,
         NEW nb, CheckAt(body, nb, b, cont), NEW D, Checked(body, D)
  PROVE  Checked(nb, D)
<1>1. \A e \in Flow(nb, {}) : e \in Flow(body, {}) \/ e[2] = Check \/ e[1] \in Inserted
  BY CheckFlowAll
<1>2. \A x \in Inserted : x # Start /\ x.op \notin Allocas
  BY DEF Inserted, Start, Check, CallMorestack, Allocas
<1> QED BY <1>1, <1>2 DEF Checked

(* What a step of instrumentFunction may do to a body.                     *)
Kept(body, nb) ==
  /\ Good(nb)
  /\ Flow(nb, Inserted) = Flow(body, Inserted)
  /\ \A x : x.op \in Allocas => (Holds(nb, x) <=> Holds(body, x))

(* The check at the entry: it comes first, and leaves all allocas to be    *)
(* handled, as none is in the entry block any more.                        *)
LEMMA EntryBody ==
  ASSUME NEW body, Good(body), NEW nb, nb = CheckEntry(body)
  PROVE  /\ Kept(body, nb)
         /\ Checked(nb, NotStatic(nb))
         /\ Checked(body, {}) => Checked(nb, {})
         /\ \A id \in NotStatic(nb) : HoldsAlloca(nb, id)
<1> DEFINE s == Split(body, 1, 1)
           n == Fresh(body)
<1>1. Closed(body) /\ 1 \in DOMAIN body /\ 1 \in 1 .. Len(body[1].ins) + 1
  <2>1. Closed(body) /\ 1 \in DOMAIN body
    BY DEF Good
  <2>2. Len(body[1].ins) \in Nat
    BY <2>1, BodyShape
  <2> QED BY <2>1, <2>2
<1>2. SplitAt(body, s, 1, 1)
  BY <1>1, SplitShape
<1>3. nb = AddCheck(s, 1, n)
  BY DEF CheckEntry
<1> HIDE DEF s
<1>4. Closed(s) /\ 1 \in DOMAIN s /\ n \in DOMAIN s /\ s[1].succ = {n} /\ Len(s[1].ins) = 0
  BY <1>1, <1>2 DEF SplitAt
<1>5. CheckAt(s, nb, 1, n)
  BY <1>3, <1>4, CheckShape
<1>6. Good(s) /\ \A x : Holds(s, x) <=> Holds(body, x)
  BY <1>1, <1>2, SplitGood, SplitHolds
<1>7. Good(nb) /\ \A x : Holds(nb, x) <=> Holds(s, x) \/ x \in Inserted
  BY <1>4, <1>5, <1>6, CheckGood
<1>8. \A x \in Inserted : x # Start /\ x.op \notin Allocas
  BY DEF Inserted, Start, Check, CallMorestack, Allocas
<1>9. Flow(nb, Inserted) = Flow(s, Inserted) /\ \A H : Flow(s, H) = Flow(body, H)
  BY <1>1, <1>2, <1>4, <1>5, CheckFlow, SplitFlow
<1>10. Kept(body, nb)
  BY <1>6, <1>7, <1>8, <1>9 DEF Kept
<1>11. Checked(body, {}) => Checked(nb, {})
  <2> SUFFICES ASSUME Checked(body, {}) PROVE Checked(nb, {})
    OBVIOUS
  <2>1. Checked(s, {})
    BY <1>9 DEF Checked
  <2> QED BY <2>1, <1>4, <1>5, CheckChecked
<1>12. ASSUME NEW c, NEW j, NEW x, Has(nb, c, j, x), x.op \in Allocas
       PROVE  c # 1
  <2> SUFFICES ASSUME c = 1 PROVE FALSE
    OBVIOUS
  <2>1. 1 # Fresh(s)
    BY <1>4, <1>5 DEF CheckAt
  <2>2. Has(s, 1, j, x) \/ x = Check
    BY <2>1, <1>4, <1>5, <1>12, CheckHas
  <2>3. ~Has(s, 1, j, x)
    <3>1. DOMAIN s[1].ins = 1 .. 0
      BY <1>4, BodyShape
    <3> QED BY <3>1 DEF Has
  <2> QED BY <2>2, <2>3, <1>8, <1>12 DEF Inserted
<1>13. \A x : Holds(nb, x) /\ x.op \in Allocas => x.id \in NotStatic(nb)
  <2> SUFFICES ASSUME NEW c, NEW j, NEW x, Has(nb, c, j, x), x.op \in Allocas
               PROVE  x.id \in NotStatic(nb)
    BY DEF Holds
  <2> DEFINE p == <<c, j>>
  <2>1. p \in Places(nb)
    BY PlacesAre DEF Has
  <2>2. p[1] = c /\ p[2] = j /\ nb[p[1]].ins[p[2]] = x
    BY DEF Has
  <2>3. c # 1
    BY <1>12
  <2> HIDE DEF p
  <2> QED BY <2>1, <2>2, <2>3 DEF NotStatic, isStaticAlloca
<1>14. Checked(nb, NotStatic(nb))
  <2> SUFFICES ASSUME NEW e \in Flow(nb, {}),
                      e[1] = Start \/ (e[1].op \in Allocas /\ e[1].id \notin NotStatic(nb))
               PROVE  e[2] = Check
    BY DEF Checked
  <2>1. \/ e \in Flow(s, {}) /\ ~(e[1] = Start /\ 1 = 1 /\ Len(s[1].ins) = 0)
        \/ e[2] = Check
        \/ e[1] \in Inserted
    BY <1>4, <1>5, CheckFlowAll
  <2>2. e[1] = Start \/ Holds(nb, e[1])
    BY FlowHolds
  <2> QED BY <2>1, <2>2, <1>4, <1>8, <1>13
<1>15. ASSUME NEW id \in NotStatic(nb)
       PROVE  HoldsAlloca(nb, id)
  <2>1. PICK p \in Places(nb) : nb[p[1]].ins[p[2]].op \in Allocas /\ nb[p[1]].ins[p[2]].id = id
    BY DEF NotStatic
  <2>2. p[1] \in DOMAIN nb /\ p[2] \in DOMAIN nb[p[1]].ins
    <3>1. <<p[1], p[2]>> \in Places(nb)
      BY PlacesAre
    <3> QED BY <3>1, PlacesAre
  <2>3. Holds(nb, nb[p[1]].ins[p[2]])
    BY <2>2 DEF Holds, Has
  <2> QED BY <2>1, <2>3 DEF HoldsAlloca
<1> QED BY <1>10, <1>11, <1>14, <1>15

(* One alloca handled: a check comes right after it, and nowhere is one    *)
(* lost.                                                                   *)
LEMMA AllocaBody ==
  ASSUME NEW body, Good(body), NEW id, HoldsAlloca(body, id), NEW nb, nb = CheckAlloca(body, id)
  PROVE  /\ Kept(body, nb)
         /\ \A D : Checked(body, D) => Checked(nb, D \ {id})
<1>1. PICK x, b, k : Has(body, b, k, x) /\ x.op \in Allocas /\ x.id = id
  BY DEF HoldsAlloca, Holds
<1> DEFINE at == CHOOSE p \in Places(body) : body[p[1]].ins[p[2]].id = id
           before == Split(body, b, k)
           alone == Split(before, Fresh(body), 2)
           n == Fresh(body)
           m == Fresh(before)
           L == Len(body[b].ins)
<1>2. \A y \in Inserted : y # Start /\ y.op \notin Allocas
  BY DEF Inserted, Start, Check, CallMorestack, Allocas
<1>3. id # 0 /\ Closed(body) /\ 1 \in DOMAIN body
  BY <1>1, <1>2 DEF Good, NoIdInserted
<1>4. at[1] = b /\ at[2] = k
  <2>1. <<b, k>> \in Places(body) /\ body[<<b, k>>[1]].ins[<<b, k>>[2]].id = id
    BY <1>1, PlacesAre DEF Has
  <2>2. at \in Places(body) /\ body[at[1]].ins[at[2]].id = id
    BY <2>1
  <2> HIDE DEF at
  <2>3. <<at[1], at[2]>> \in Places(body)
    BY <2>2, PlacesAre
  <2>4. Has(body, at[1], at[2], body[at[1]].ins[at[2]])
    BY <2>3, PlacesAre DEF Has
  <2> QED BY <2>2, <2>4, <1>1, <1>3 DEF Good, OncePerId
<1>5. nb = AddCheck(alone, n, m)
  <2>1. nb = AddCheck(Split(Split(body, at[1], at[2]), Fresh(body), 2), Fresh(body),
                      Fresh(Split(body, at[1], at[2])))
    BY DEF CheckAlloca
  <2> HIDE DEF at
  <2> QED BY <2>1, <1>4
<1> HIDE DEF at
<1>6. b \in DOMAIN body /\ L \in Nat /\ k \in 1 .. L /\ k \in 1 .. L + 1 /\ x = body[b].ins[k]
  <2>1. b \in DOMAIN body /\ L \in Nat /\ DOMAIN body[b].ins = 1 .. L
    BY <1>1, <1>3, BodyShape DEF Has
  <2> QED BY <2>1, <1>1 DEF Has
<1>7. SplitAt(body, before, b, k)
  BY <1>3, <1>6, SplitShape
<1> HIDE DEF before
<1>8. Closed(before) /\ 1 \in DOMAIN before /\ n \in DOMAIN before
      /\ Len(before[n].ins) = L - k + 1 /\ before[n].ins[1] = x
  <2>1. /\ Closed(before) /\ DOMAIN before = DOMAIN body \cup {n}
        /\ Len(before[n].ins) = L - k + 1
        /\ \A j \in 1 .. L - k + 1 : before[n].ins[j] = body[b].ins[j + (k - 1)]
    BY <1>7 DEF SplitAt
  <2>2. 1 \in 1 .. L - k + 1 /\ 1 + (k - 1) = k
    BY <1>6
  <2>3. before[n].ins[1] = body[b].ins[1 + (k - 1)]
    BY <2>1, <2>2
  <2> QED BY <2>1, <2>2, <2>3, <1>3, <1>6
<1>9. 2 \in 1 .. Len(before[n].ins) + 1
  BY <1>6, <1>8
<1>10. SplitAt(before, alone, n, 2)
  BY <1>8, <1>9, SplitShape
<1> HIDE DEF alone
<1>11. Closed(alone) /\ 1 \in DOMAIN alone /\ n \in DOMAIN alone /\ m \in DOMAIN alone
       /\ alone[n].succ = {m} /\ Len(alone[n].ins) = 1 /\ alone[n].ins[1] = x
  <2>1. /\ Closed(alone) /\ DOMAIN alone = DOMAIN before \cup {m}
        /\ alone[n].succ = {m} /\ Len(alone[n].ins) = 2 - 1
        /\ \A j \in 1 .. 2 - 1 : alone[n].ins[j] = before[n].ins[j]
    BY <1>10 DEF SplitAt
  <2> QED BY <2>1, <1>8
<1> HIDE DEF n, m
<1>12. CheckAt(alone, nb, n, m)
  BY <1>5, <1>11, CheckShape
<1>13. Good(before) /\ (\A y : Holds(before, y) <=> Holds(body, y))
       /\ \A H : Flow(before, H) = Flow(body, H)
  BY <1>3, <1>6, <1>7, SplitGood, SplitHolds, SplitFlow
<1>14. Good(alone) /\ (\A y : Holds(alone, y) <=> Holds(before, y))
       /\ \A H : Flow(alone, H) = Flow(before, H)
  BY <1>8, <1>9, <1>10, <1>13, SplitGood, SplitHolds, SplitFlow
<1>15. Good(nb) /\ (\A y : Holds(nb, y) <=> Holds(alone, y) \/ y \in Inserted)
       /\ Flow(nb, Inserted) = Flow(alone, Inserted)
  BY <1>11, <1>12, <1>14, CheckGood, CheckFlow
<1>16. Kept(body, nb)
  BY <1>2, <1>13, <1>14, <1>15 DEF Kept
<1>17. ASSUME NEW y, NEW z, NEW c, NEW j, FlowFrom(nb, {}, c, j, y, z), y.id = id
       PROVE  z = Check
  <2>1. Has(nb, n, 1, x) /\ Len(nb[n].ins) = 2 /\ nb[n].ins[2] = Check /\ n \in DOMAIN nb
    <3>1. Len(nb[n].ins) = Len(alone[n].ins) + 1 /\ nb[n].ins[Len(alone[n].ins) + 1] = Check
          /\ n \in DOMAIN nb
      BY <1>11, <1>12 DEF CheckAt
    <3>2. Has(alone, n, 1, x)
      <4>1. DOMAIN alone[n].ins = 1 .. 1
        BY <1>11, BodyShape
      <4> QED BY <4>1, <1>11 DEF Has
    <3>3. Has(nb, n, 1, x)
      BY <3>2, <1>11, <1>12, CheckHas
    <3> QED BY <3>1, <3>3, <1>11
  <2>2. Has(nb, c, j, y) /\ z \in From(nb, {}, First(nb, {}), c, j + 1)
    BY <1>17 DEF FlowFrom, Has
  <2>3. c = n /\ j = 1
    BY <2>1, <2>2, <1>1, <1>3, <1>15, <1>17 DEF Good, OncePerId
  <2>4. 2 \in 1 .. Len(nb[n].ins) /\ j + 1 = 2
    BY <2>1, <2>3
  <2>5. From(nb, {}, First(nb, {}), n, 2) = {nb[n].ins[2]}
    <3>1. Closed(nb)
      BY <1>15 DEF Good
    <3> QED BY <3>1, <2>1, <2>4, NextInBlock
  <2> QED BY <2>1, <2>2, <2>3, <2>4, <2>5
<1>18. ASSUME NEW D, Checked(body, D)
       PROVE  Checked(nb, D \ {id})
  <2>1. Checked(alone, D)
    BY <1>13, <1>14, <1>18 DEF Checked
  <2>2. Checked(nb, D)
    BY <2>1, <1>11, <1>12, CheckChecked
  <2> SUFFICES ASSUME NEW e \in Flow(nb, {}),
                      e[1] = Start \/ (e[1].op \in Allocas /\ e[1].id \notin D \ {id})
               PROVE  e[2] = Check
    BY DEF Checked
  <2>3. CASE e[1] = Start \/ e[1].id \notin D
    BY <2>2, <2>3 DEF Checked
  <2>4. CASE e[1] # Start /\ e[1].id = id
    <3>1. PICK y, z : /\ e = <<y, z>>
                      /\ \/ y = Start /\ z \in First(nb, {})[1]
                         \/ \E c, j : FlowFrom(nb, {}, c, j, y, z)
      BY FlowIs
    <3>2. e[1] = y /\ e[2] = z
      BY <3>1
    <3> QED BY <3>1, <3>2, <2>4, <1>17
  <2> QED BY <2>3, <2>4
<1> QED BY <1>16, <1>18

-----------------------------------------------------------------------------
(* The inductive invariant: the functions of the source stay where they    *)
(* are and are skipped as before, and what is appended is skipped; their   *)
(* bodies keep their flow; the moves of the stack pointer are checked in   *)
(* the functions that are done and, but for DynAllocas, in the one at hand. *)
Module ==
  /\ source \in Modules
  /\ functions \in Seq(IRFunction)
  /\ Len(source) <= Len(functions)
  /\ f \in Nat \ {0} /\ passes \in Nat

Skipped ==
  /\ \A k \in DOMAIN source : shouldSkip(functions[k]) <=> shouldSkip(source[k])
  /\ \A k \in DOMAIN functions \ DOMAIN source : shouldSkip(functions[k])

Bodies ==
  \A k \in Defined :
    /\ Good(functions[k].body)
    /\ Flow(functions[k].body, Inserted) = Flow(source[k].body, Inserted)

Done ==
  \A k \in Defined :
    (k < f \/ passes > 0) /\ ~shouldSkip(source[k]) => Checked(functions[k].body, {})

AtHand ==
  DynAllocas # {} =>
    /\ f \in Defined /\ ~shouldSkip(source[f])
    /\ \A id \in DynAllocas : HoldsAlloca(functions[f].body, id)
    /\ Checked(functions[f].body, DynAllocas)

PassInv == Module /\ Skipped /\ Bodies /\ Done /\ AtHand

(* The modules of the assumption, one function at a time.                  *)
LEMMA SourceIs ==
  ASSUME NEW m \in Modules
  PROVE  /\ m \in Seq(IRFunction) /\ Len(m) \in Nat /\ DOMAIN m = 1 .. Len(m)
         /\ \A k \in DOMAIN m :
              /\ ~shouldSkip(m[k]) => m[k].body # <<>>
              /\ m[k].body # <<>> => Good(m[k].body)
<1>1. /\ m \in Seq(IRFunction)
      /\ \A k \in DOMAIN m :
           /\ "declaration" \in m[k].attrs <=> m[k].body = <<>>
           /\ Closed(m[k].body) /\ Distinct(m[k].body)
           /\ \A p \in Places(m[k].body) : m[k].body[p[1]].ins[p[2]].id # 0
  BY ModulesAssumption
<1>2. Len(m) \in Nat /\ DOMAIN m = 1 .. Len(m)
  BY <1>1, LenProperties
<1>3. ASSUME NEW k \in DOMAIN m, ~shouldSkip(m[k])
      PROVE  m[k].body # <<>>
  BY <1>1, <1>3 DEF shouldSkip
<1>4. ASSUME NEW body, Closed(body), Distinct(body), body # <<>>,
             \A p \in Places(body) : body[p[1]].ins[p[2]].id # 0
      PROVE  Good(body)
  <2>1. 1 \in DOMAIN body
    BY <1>4, EmptySeq, LenProperties DEF Closed
  <2>2. ASSUME NEW b, NEW k, NEW x, Has(body, b, k, x)
        PROVE  x.id # 0 /\ \E p \in Places(body) : p = <<b, k>> /\ x = body[p[1]].ins[p[2]]
    <3>1. <<b, k>> \in Places(body) /\ x = body[b].ins[k]
      BY <2>2, PlacesAre DEF Has
    <3>2. PICK p : p = <<b, k>>
      OBVIOUS
    <3>3. p \in Places(body) /\ p[1] = b /\ p[2] = k
      BY <3>1, <3>2
    <3> QED BY <3>1, <3>2, <3>3, <1>4
  <2>3. NoIdInserted(body)
    BY <2>2 DEF NoIdInserted
  <2>4. OncePerId(body)
    <3> SUFFICES ASSUME NEW b, NEW k, NEW x, NEW c, NEW j, NEW y,
                        Has(body, b, k, x), Has(body, c, j, y), x.id = y.id, x.id # 0
                 PROVE  b = c /\ k = j
      BY DEF OncePerId
    <3>1. PICK p \in Places(body) : p = <<b, k>> /\ x = body[p[1]].ins[p[2]]
      BY <2>2
    <3>2. PICK q \in Places(body) : q = <<c, j>> /\ y = body[q[1]].ins[q[2]]
      BY <2>2
    <3>3. p = q
      BY <3>1, <3>2, <1>4 DEF Distinct
    <3>4. <<b, k>> = <<c, j>>
      BY <3>1, <3>2, <3>3
    <3> QED BY <3>4
  <2> QED BY <1>4, <2>1, <2>3, <2>4 DEF Good
<1>5. \A k \in DOMAIN m : m[k].body # <<>> => Good(m[k].body)
  BY <1>1, <1>4
<1> QED BY <1>1, <1>2, <1>3, <1>5

(* Before the pass nothing is done and the flow is the one of the source.  *)
LEMMA PassInitial ==
  ASSUME Init
  PROVE  PassInv
<1>1. source \in Modules /\ functions = source /\ passes = 0 /\ f = 1 /\ DynAllocas = {}
  BY DEF Init
<1>2. Module
  BY <1>1, SourceIs DEF Module
<1>3. Skipped
  BY <1>1 DEF Skipped
<1>4. Bodies
  BY <1>1, SourceIs DEF Bodies, Defined
<1>5. Done
  <2>1. \A k \in DOMAIN source : ~(k < 1)
    BY <1>1, SourceIs
  <2> QED BY <1>1, <2>1 DEF Done, Defined
<1>6. AtHand
  BY <1>1 DEF AtHand
<1> QED BY <1>2, <1>3, <1>4, <1>5, <1>6 DEF PassInv

(* One function of a module gets a new body, and perhaps the attribute; a  *)
(* declaration may be appended.                                            *)
Rewritten(fs, gs, k, body) ==
  /\ gs \in Seq(IRFunction) /\ Len(fs) <= Len(gs)
  /\ gs[k].body = body /\ (shouldSkip(gs[k]) <=> shouldSkip(fs[k]))
  /\ \A i \in DOMAIN fs : i # k => gs[i] = fs[i]
  /\ \A i \in DOMAIN gs \ DOMAIN fs : shouldSkip(gs[i])

(* An assignment to a function that leaves alone why it is skipped or not. *)
LEMMA BodyReplaced ==
  ASSUME NEW fs \in Seq(IRFunction), NEW k \in DOMAIN fs, NEW r \in IRFunction,
         shouldSkip(r) <=> shouldSkip(fs[k])
  PROVE  LET gs == [fs EXCEPT ![k] = r] IN Rewritten(fs, gs, k, r.body) /\ Len(gs) = Len(fs)
<1> DEFINE gs == [fs EXCEPT ![k] = r]
<1>1. DOMAIN fs = 1 .. Len(fs) /\ Len(fs) \in Nat
  BY LenProperties
<1>2. gs \in Seq(IRFunction) /\ Len(gs) = Len(fs) /\ gs[k] = r
      /\ \A i \in DOMAIN fs : i # k => gs[i] = fs[i]
  BY <1>1, ExceptSeq
<1>3. DOMAIN gs = DOMAIN fs
  BY <1>1, <1>2, LenProperties
<1> HIDE DEF gs
<1> QED BY <1>1, <1>2, <1>3 DEF Rewritten, gs

(* getOrInsertFunction keeps what is there; the declaration is skipped.    *)
LEMMA MorestackDeclared ==
  ASSUME NEW fs \in Seq(IRFunction)
  PROVE  /\ WithMorestack(fs) \in Seq(IRFunction) /\ Len(fs) <= Len(WithMorestack(fs))
         /\ \A i \in DOMAIN fs : WithMorestack(fs)[i] = fs[i]
         /\ \A i \in DOMAIN WithMorestack(fs) \ DOMAIN fs : shouldSkip(WithMorestack(fs)[i])
<1> DEFINE d == Declaration(MorestackName)
<1>1. d \in IRFunction /\ shouldSkip(d)
  <2>1. <<>> \in Seq(Block)
    BY EmptySeq
  <2> QED BY <2>1, NamesAssumption DEF Declaration, IRFunction, shouldSkip
<1>2. Len(fs) \in Nat /\ DOMAIN fs = 1 .. Len(fs)
  BY LenProperties
<1> HIDE DEF d
<1>3. /\ Append(fs, d) \in Seq(IRFunction) /\ Len(Append(fs, d)) = Len(fs) + 1
      /\ \A i \in 1 .. Len(fs) : Append(fs, d)[i] = fs[i]
      /\ Append(fs, d)[Len(fs) + 1] = d
  BY <1>1, AppendProperties
<1>4. DOMAIN Append(fs, d) = 1 .. Len(fs) + 1
  BY <1>3, LenProperties
<1>5. CASE \E k \in DOMAIN fs : fs[k].name = MorestackName
  <2>1. WithMorestack(fs) = fs
    BY <1>5 DEF WithMorestack
  <2> QED BY <2>1, <1>2
<1>6. CASE ~(\E k \in DOMAIN fs : fs[k].name = MorestackName)
  <2>1. WithMorestack(fs) = Append(fs, d)
    BY <1>6 DEF WithMorestack, d
  <2>2. \A i \in (1 .. Len(fs) + 1) \ (1 .. Len(fs)) : i = Len(fs) + 1
    BY <1>2
  <2>3. Len(fs) <= Len(fs) + 1
    BY <1>2
  <2> QED BY <2>1, <2>2, <2>3, <1>1, <1>2, <1>3, <1>4
<1> QED BY <1>5, <1>6

(* A step of instrumentFunction: the function at hand gets a body that     *)
(* keeps the flow, and what is still to be checked in it are DynAllocas.   *)
LEMMA RewriteStep ==
  ASSUME PassInv, UNCHANGED <<source, passes>>,
         f \in Defined, ~shouldSkip(source[f]),
         f' = IF DynAllocas' = {} THEN f + 1 ELSE f,
         NEW body, Rewritten(functions, functions', f, body),
         Kept(functions[f].body, body), Checked(body, DynAllocas'),
         Checked(functions[f].body, {}) => Checked(body, {}),
         \A id \in DynAllocas' : HoldsAlloca(body, id)
  PROVE  PassInv'
<1>1. /\ source' = source /\ passes' = passes /\ Defined' = Defined
      /\ f \in DOMAIN source /\ f \in Nat /\ f # 0 /\ passes \in Nat
  BY DEF Defined, PassInv, Module
<1>2. /\ DOMAIN source \subseteq DOMAIN functions /\ DOMAIN functions \subseteq DOMAIN functions'
      /\ Len(source) <= Len(functions') /\ DOMAIN source \subseteq Nat
  <2>1. /\ Len(functions) \in Nat /\ DOMAIN functions = 1 .. Len(functions)
        /\ Len(functions') \in Nat /\ DOMAIN functions' = 1 .. Len(functions')
        /\ Len(functions) <= Len(functions') /\ Len(source) <= Len(functions)
    BY LenProperties DEF PassInv, Module, Rewritten
  <2>2. DOMAIN source = 1 .. Len(source) /\ Len(source) \in Nat
    BY SourceIs DEF PassInv, Module
  <2> QED BY <2>1, <2>2
<1>3. /\ functions'[f].body = body /\ (shouldSkip(functions'[f]) <=> shouldSkip(functions[f]))
      /\ \A k \in DOMAIN functions : k # f => functions'[k] = functions[k]
      /\ \A k \in DOMAIN functions' \ DOMAIN functions : shouldSkip(functions'[k])
  BY DEF Rewritten
<1>4. Module'
  <2>1. f' \in Nat \ {0}
    BY <1>1
  <2> QED BY <1>1, <1>2, <2>1 DEF PassInv, Module, Rewritten
<1>5. Skipped'
  <2>1. \A k \in DOMAIN source : shouldSkip(functions'[k]) <=> shouldSkip(source[k])
    <3> SUFFICES ASSUME NEW k \in DOMAIN source
                 PROVE  shouldSkip(functions'[k]) <=> shouldSkip(source[k])
      OBVIOUS
    <3>1. shouldSkip(functions[k]) <=> shouldSkip(source[k])
      BY DEF PassInv, Skipped
    <3> QED BY <3>1, <1>2, <1>3
  <2>2. \A k \in DOMAIN functions' \ DOMAIN source : shouldSkip(functions'[k])
    <3> SUFFICES ASSUME NEW k \in DOMAIN functions' \ DOMAIN source
                 PROVE  shouldSkip(functions'[k])
      OBVIOUS
    <3>1. CASE k \in DOMAIN functions
      <4>1. shouldSkip(functions[k]) /\ k # f
        BY <3>1, <1>1 DEF PassInv, Skipped
      <4> QED BY <3>1, <4>1, <1>3
    <3>2. CASE k \notin DOMAIN functions
      BY <3>2, <1>3
    <3> QED BY <3>1, <3>2
  <2> QED BY <1>1, <2>1, <2>2 DEF Skipped
<1>6. \A k \in Defined : k \in DOMAIN source /\ (k # f => functions'[k] = functions[k])
  BY <1>2, <1>3 DEF Defined
<1>7. Bodies'
  <2> SUFFICES ASSUME NEW k \in Defined
               PROVE  /\ Good(functions'[k].body)
                      /\ Flow(functions'[k].body, Inserted) = Flow(source[k].body, Inserted)
    BY <1>1 DEF Bodies
  <2>1. /\ Good(functions[k].body)
        /\ Flow(functions[k].body, Inserted) = Flow(source[k].body, Inserted)
    BY DEF PassInv, Bodies
  <2>2. CASE k = f
    BY <2>1, <2>2, <1>3 DEF Kept
  <2>3. CASE k # f
    BY <2>1, <2>3, <1>6
  <2> QED BY <2>2, <2>3
<1>8. Done'
  <2> SUFFICES ASSUME NEW k \in Defined, k < f' \/ passes > 0, ~shouldSkip(source[k])
               PROVE  Checked(functions'[k].body, {})
    BY <1>1 DEF Done
  <2>1. k < f \/ passes > 0 => Checked(functions[k].body, {})
    BY DEF PassInv, Done
  <2>2. CASE k = f
    <3>1. DynAllocas' = {} \/ passes > 0
      BY <2>2, <1>1
    <3> QED BY <2>1, <2>2, <3>1, <1>3
  <2>3. CASE k # f
    <3>1. k \in Nat
      BY <1>2, <1>6
    <3>2. k < f \/ passes > 0
      BY <2>3, <3>1, <1>1
    <3> QED BY <2>1, <2>3, <3>2, <1>6
  <2> QED BY <2>2, <2>3
<1>9. AtHand'
  <2> SUFFICES ASSUME DynAllocas' # {}
               PROVE  /\ f' \in Defined /\ ~shouldSkip(source[f'])
                      /\ \A id \in DynAllocas' : HoldsAlloca(functions'[f'].body, id)
                      /\ Checked(functions'[f'].body, DynAllocas')
    BY <1>1 DEF AtHand
  <2>1. f' = f
    OBVIOUS
  <2> QED BY <2>1, <1>3
<1> QED BY <1>4, <1>5, <1>7, <1>8, <1>9 DEF PassInv

(* instrumentFunction to the collection of the allocas is such a step ...  *)
LEMMA EntryStep ==
  ASSUME PassInv, InstrumentEntry
  PROVE  PassInv'
<1>1. PICK body : body = CheckEntry(functions[f].body)
  OBVIOUS
<1>2. /\ functions' = WithMorestack([functions EXCEPT ![f].body = body,
                        ![f].attrs = @ \cup {"split-stack-instrumented"}])
      /\ DynAllocas' = NotStatic(body)
      /\ f' = IF DynAllocas' = {} THEN f + 1 ELSE f
      /\ UNCHANGED <<source, passes>>
      /\ f <= Len(functions) /\ ~shouldSkip(functions[f])
  BY <1>1 DEF InstrumentEntry, InLoop
<1>3. functions \in Seq(IRFunction) /\ f \in DOMAIN functions
  BY <1>2, LenProperties DEF PassInv, Module
<1>4. f \in DOMAIN source /\ ~shouldSkip(source[f])
  BY <1>2, <1>3 DEF PassInv, Skipped
<1>5. f \in Defined
  BY <1>4, SourceIs DEF PassInv, Module, Defined
<1>6. Good(functions[f].body)
  BY <1>5 DEF PassInv, Bodies
<1>7. /\ Kept(functions[f].body, body)
      /\ Checked(body, DynAllocas')
      /\ Checked(functions[f].body, {}) => Checked(body, {})
      /\ \A id \in DynAllocas' : HoldsAlloca(body, id)
  BY <1>1, <1>2, <1>6, EntryBody
<1>8. body \in Seq(Block)
  BY <1>7 DEF Kept, Good, Closed
<1>9. PICK r : r = [functions[f] EXCEPT !.body = body,
                                       !.attrs = @ \cup {"split-stack-instrumented"}]
  OBVIOUS
<1>10. r \in IRFunction /\ r.body = body /\ (shouldSkip(r) <=> shouldSkip(functions[f]))
  <2>1. functions[f] \in IRFunction
    BY <1>3, ElementOfSeq
  <2> QED BY <2>1, <1>8, <1>9 DEF IRFunction, shouldSkip
<1>11. PICK gs : gs = [functions EXCEPT ![f] = r]
  OBVIOUS
<1>12. Rewritten(functions, gs, f, body) /\ Len(gs) = Len(functions)
  BY <1>3, <1>10, <1>11, BodyReplaced
<1>13. DOMAIN gs = DOMAIN functions /\ gs \in Seq(IRFunction)
  BY <1>3, <1>12, LenProperties DEF Rewritten
<1>14. functions' = WithMorestack(gs)
  <2>1. gs = [functions EXCEPT ![f].body = body,
                ![f].attrs = @ \cup {"split-stack-instrumented"}]
    BY <1>3, <1>9, <1>11
  <2> QED BY <2>1, <1>2
<1>15. Rewritten(functions, functions', f, body)
  <2>1. /\ functions' \in Seq(IRFunction) /\ Len(gs) <= Len(functions')
        /\ \A i \in DOMAIN gs : functions'[i] = gs[i]
        /\ \A i \in DOMAIN functions' \ DOMAIN gs : shouldSkip(functions'[i])
    BY <1>13, <1>14, MorestackDeclared
  <2> QED BY <2>1, <1>3, <1>12, <1>13 DEF Rewritten
<1> QED BY <1>2, <1>4, <1>5, <1>7, <1>15, RewriteStep

(* ... and so is a turn of its loop over them.                             *)
LEMMA AllocaStep ==
  ASSUME PassInv, InstrumentAlloca
  PROVE  PassInv'
<1>1. PICK id \in DynAllocas : /\ functions' = [functions EXCEPT ![f].body = CheckAlloca(@, id)]
                               /\ DynAllocas' = DynAllocas \ {id}
  BY DEF InstrumentAlloca
<1>2. f' = IF DynAllocas' = {} THEN f + 1 ELSE f
  BY DEF InstrumentAlloca
<1>3. UNCHANGED <<source, passes>>
  BY DEF InstrumentAlloca
<1>4. /\ f \in Defined /\ ~shouldSkip(source[f])
      /\ \A i \in DynAllocas : HoldsAlloca(functions[f].body, i)
      /\ Checked(functions[f].body, DynAllocas)
  BY <1>1 DEF PassInv, AtHand
<1>5. PICK body : body = CheckAlloca(functions[f].body, id)
  OBVIOUS
<1>6. Good(functions[f].body)
  BY <1>4 DEF PassInv, Bodies
<1>7. /\ Kept(functions[f].body, body)
      /\ \A D : Checked(functions[f].body, D) => Checked(body, D \ {id})
  BY <1>1, <1>4, <1>5, <1>6, AllocaBody
<1>8. Checked(body, DynAllocas') /\ (Checked(functions[f].body, {}) => Checked(body, {}))
  <2>1. {} \ {id} = {}
    OBVIOUS
  <2>2. Checked(functions[f].body, {}) => Checked(body, {} \ {id})
    BY <1>7
  <2> QED BY <2>1, <2>2, <1>1, <1>4, <1>7
<1>9. \A i \in DynAllocas' : HoldsAlloca(body, i)
  BY <1>1, <1>4, <1>7 DEF HoldsAlloca, Kept
<1>10. body \in Seq(Block)
  BY <1>7 DEF Kept, Good, Closed
<1>11. functions \in Seq(IRFunction) /\ f \in DOMAIN functions
  <2>1. /\ functions \in Seq(IRFunction) /\ Len(source) <= Len(functions)
        /\ DOMAIN source = 1 .. Len(source) /\ Len(source) \in Nat
    BY SourceIs DEF PassInv, Module
  <2>2. DOMAIN functions = 1 .. Len(functions) /\ Len(functions) \in Nat
    BY <2>1, LenProperties
  <2> QED BY <2>1, <2>2, <1>4 DEF Defined
<1>12. PICK r : r = [functions[f] EXCEPT !.body = body]
  OBVIOUS
<1>13. r \in IRFunction /\ r.body = body /\ (shouldSkip(r) <=> shouldSkip(functions[f]))
  <2>1. functions[f] \in IRFunction
    BY <1>11, ElementOfSeq
  <2> QED BY <2>1, <1>10, <1>12 DEF IRFunction, shouldSkip
<1>14. functions' = [functions EXCEPT ![f] = r]
  BY <1>1, <1>5, <1>11, <1>12
<1>15. Rewritten(functions, functions', f, body)
  BY <1>11, <1>13, <1>14, BodyReplaced
<1> QED BY <1>2, <1>3, <1>4, <1>7, <1>8, <1>9, <1>15, RewriteStep

(* Every step keeps the invariant.                                         *)
LEMMA PassStep ==
  ASSUME PassInv, [Next]_vars
  PROVE  PassInv'
<1>1. CASE Skip
  <2>1. /\ f \in DOMAIN functions /\ f \in Nat \ {0} /\ shouldSkip(functions[f])
        /\ f' = f + 1 /\ DynAllocas = {}
        /\ UNCHANGED <<source, functions, passes, DynAllocas>>
    BY <1>1, LenProperties DEF Skip, InLoop, PassInv, Module
  <2>2. Module' /\ Skipped' /\ Bodies' /\ AtHand'
    BY <2>1 DEF PassInv, Module, Skipped, Bodies, Defined, AtHand
  <2>3. Done'
    <3> SUFFICES ASSUME NEW k \in Defined, k < f + 1 \/ passes > 0, ~shouldSkip(source[k])
                 PROVE  Checked(functions[k].body, {})
      BY <2>1 DEF Done, Defined
    <3>1. k \in Nat /\ k # f
      <4>1. k \in DOMAIN source /\ DOMAIN source = 1 .. Len(source) /\ Len(source) \in Nat
        BY SourceIs DEF PassInv, Module, Defined
      <4>2. shouldSkip(functions[k]) <=> shouldSkip(source[k])
        BY <4>1 DEF PassInv, Skipped
      <4> QED BY <4>1, <4>2, <2>1
    <3>2. k < f \/ passes > 0
      BY <3>1, <2>1
    <3> QED BY <3>2 DEF PassInv, Done
  <2> QED BY <2>2, <2>3 DEF PassInv
<1>2. CASE InstrumentEntry
  BY <1>2, EntryStep
<1>3. CASE InstrumentAlloca
  BY <1>3, AllocaStep
<1>4. CASE PassReturns
  <2>1. /\ f > Len(functions) /\ passes' = passes + 1 /\ f' = 1
        /\ UNCHANGED <<source, functions, DynAllocas>>
    BY <1>4 DEF PassReturns
  <2>2. \A k \in Defined : k < f
    <3>1. Defined \subseteq 1 .. Len(source) /\ Len(source) \in Nat /\ Len(functions) \in Nat
          /\ Len(source) <= Len(functions) /\ f \in Nat
      BY SourceIs, LenProperties DEF PassInv, Module, Defined
    <3> QED BY <3>1, <2>1
  <2>3. DynAllocas = {}
    BY <2>1, <2>2 DEF PassInv, AtHand, Module
  <2>4. Module' /\ Skipped' /\ Bodies' /\ AtHand'
    BY <2>1, <2>3 DEF PassInv, Module, Skipped, Bodies, Defined, AtHand
  <2>5. Done'
    BY <2>1, <2>2 DEF PassInv, Done, Defined
  <2> QED BY <2>4, <2>5 DEF PassInv
<1>5. CASE Compiled \/ UNCHANGED vars
  BY <1>5 DEF Compiled, vars, PassInv, Module, Skipped, Bodies, Done, AtHand, Defined
<1> QED BY <1>1, <1>2, <1>3, <1>4, <1>5 DEF Next

-----------------------------------------------------------------------------
(* Whatever the pass is given and however often it is run, the             *)
(* instructions of a function come in the order they had, along every      *)
(* path.                                                                   *)
THEOREM FlowIsPreserved == Spec => []FlowPreserved
<1>1. PassInv => FlowPreserved
  BY DEF PassInv, Bodies, FlowPreserved
<1> QED BY <1>1, PassInitial, PassStep, PTL DEF Spec

(* In a function instrumentFunction has done, the first thing is a check,  *)
(* and so is what follows any alloca, static ones of the source included.  *)
THEOREM StackMovesAreChecked == Spec => []StackMovesChecked
<1>1. PassInv => StackMovesChecked
  BY DEF PassInv, Done, Checked, StackMovesChecked
<1> QED BY <1>1, PassInitial, PassStep, PTL DEF Spec

=============================================================================

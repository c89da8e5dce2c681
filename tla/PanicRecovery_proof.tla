------------------------ MODULE PanicRecovery_proof ------------------------
(***************************************************************************)
(* Proofs about PanicRecovery, for every set of task programs, every       *)
(* number of tasks, every heap and either way of linking the image: how    *)
(* the core stops, what the resume hook counts, that the core's memory is  *)
(* handed out by BumpAllocator's rules, and the refinement of TaskRunner.  *)
(***************************************************************************)
EXTENDS PanicRecovery, FiniteSetTheorems, SequenceTheorems, TLAPS

-----------------------------------------------------------------------------
(* Types. *)
Resource == [kind : {"own", "box"}, id : Nat]
StackFrame == [fn : Nat, ip : Nat, owned : Seq(Resource)]

Modes == {"main", "run", "box", "raise", "search", "unwind", "pad",
          "returned", "caught", "spin", "oom"}

PanicTypeOK ==
  /\ mode \in Modes
  /\ frames \in Seq(StackFrame)
  /\ started \in Nat /\ made \in Nat
  /\ RESUME_WRAP_COUNT \in Nat /\ padsDue \in Nat

(* There is a stack exactly where something of a task can run. *)
StackShape ==
  /\ mode \in {"main", "returned", "caught"} => frames = <<>>
  /\ mode \in {"run", "box", "raise", "search", "pad"} => frames # <<>>

(* The resources of the stack, read from the innermost frame outwards, are *)
(* in the reverse of the order in which they were made.                    *)
Descending(owned) ==
  \A k, l \in 1 .. Len(owned) : k < l => owned[k].id > owned[l].id

NewestFirst ==
  /\ \A i \in DOMAIN frames : Descending(frames[i].owned)
  /\ \A i \in DOMAIN frames : \A r \in Owned(frames[i]) : r <= made
  /\ \A i, j \in DOMAIN frames : i < j =>
       \A r \in Owned(frames[i]), s \in Owned(frames[j]) : r > s

StackInv == PanicTypeOK /\ StackShape /\ NewestFirst

-----------------------------------------------------------------------------
(* Resources are numbered. *)
LEMMA ResourceId == \A r \in Resource : r.id \in Nat
BY DEF Resource

(* A frame that gets a resource: it is owned first, and what was owned     *)
(* before is owned still.                                                  *)
LEMMA OwnedMore ==
  ASSUME NEW f \in StackFrame, NEW g \in StackFrame, NEW r \in Resource,
         g.owned = <<r>> \o f.owned
  PROVE  /\ g.owned # <<>>
         /\ Owned(g) = Owned(f) \cup {r.id}
         /\ (\A s \in Owned(f) : s < r.id) /\ Descending(f.owned) => Descending(g.owned)
<1> DEFINE q == f.owned
           p == g.owned
<1>1. q \in Seq(Resource) /\ Len(q) \in Nat /\ p \in Seq(Resource)
  BY DEF StackFrame
<1>2. Len(p) = Len(q) + 1 /\ p[1] = r /\ \A k \in 1 .. Len(q) : p[k + 1] = q[k]
  BY <1>1
<1> HIDE DEF p, q
<1>3. DOMAIN p = 1 .. Len(q) + 1 /\ DOMAIN q = 1 .. Len(q)
  BY <1>1, <1>2
<1>4. \A k \in 1 .. Len(q) + 1 : k = 1 \/ (k - 1 \in 1 .. Len(q) /\ p[k] = q[k - 1])
  BY <1>1, <1>2
<1>5. Owned(f) = {q[k].id : k \in 1 .. Len(q)} /\ Owned(g) = {p[k].id : k \in 1 .. Len(q) + 1}
  BY <1>3 DEF Owned, p, q
<1>6. Owned(g) = Owned(f) \cup {r.id}
  <2>1. \A x \in Owned(g) : x \in Owned(f) \cup {r.id}
    BY <1>2, <1>4, <1>5
  <2>2. \A x \in Owned(f) : x \in Owned(g)
    <3> SUFFICES ASSUME NEW k \in 1 .. Len(q) PROVE q[k].id \in Owned(g)
      BY <1>5
    <3>1. k + 1 \in 1 .. Len(q) + 1 /\ p[k + 1] = q[k]
      BY <1>1, <1>2
    <3> QED BY <1>5, <3>1
  <2>3. r.id \in Owned(g)
    <3>1. 1 \in 1 .. Len(q) + 1
      BY <1>1
    <3> QED BY <1>2, <1>5, <3>1
  <2> QED BY <2>1, <2>2, <2>3
<1>7. p # <<>>
  BY <1>1, <1>2
<1>8. ASSUME \A s \in Owned(f) : s < r.id, Descending(q)
      PROVE  Descending(p)
  <2> SUFFICES ASSUME NEW k \in 1 .. Len(q) + 1, NEW l \in 1 .. Len(q) + 1, k < l
               PROVE  p[k].id > p[l].id
    BY <1>2 DEF Descending
  <2>1. l - 1 \in 1 .. Len(q) /\ p[l] = q[l - 1]
    BY <1>1, <1>4
  <2>2. CASE k = 1
    <3>1. q[l - 1].id \in Owned(f)
      BY <1>5, <2>1
    <3>2. q[l - 1].id < r.id /\ p[k] = r
      BY <1>2, <1>8, <2>2, <3>1
    <3>3. q[l - 1].id \in Nat /\ r.id \in Nat
      BY <1>1, <2>1, ElementOfSeq, ResourceId
    <3> QED BY <2>1, <3>2, <3>3
  <2>3. CASE k # 1
    <3>1. k - 1 \in 1 .. Len(q) /\ p[k] = q[k - 1] /\ k - 1 < l - 1
      BY <1>4, <2>3
    <3> QED BY <1>8, <2>1, <3>1 DEF Descending
  <2> QED BY <2>2, <2>3
<1> QED BY <1>6, <1>7, <1>8 DEF p, q

(* A frame that drops its newest resource: the others stay, and all of     *)
(* them are older.                                                         *)
LEMMA OwnedLess ==
  ASSUME NEW f \in StackFrame, NEW g \in StackFrame,
         f.owned # <<>>, g.owned = Tail(f.owned), Descending(f.owned)
  PROVE  /\ Descending(g.owned)
         /\ Head(f.owned).id \in Owned(f)
         /\ \A s \in Owned(f) : s <= Head(f.owned).id
         /\ Owned(g) = Owned(f) \ {Head(f.owned).id}
<1> DEFINE q == f.owned
           p == g.owned
           h == Head(q).id
<1>1. q \in Seq(Resource) /\ Len(q) \in Nat \ {0} /\ p \in Seq(Resource)
  BY DEF StackFrame
<1>2. Len(p) = Len(q) - 1 /\ Head(q) = q[1] /\ \A k \in 1 .. Len(q) - 1 : p[k] = q[k + 1]
  BY <1>1
<1>3. h \in Nat /\ h = q[1].id
  <2>1. q[1] \in Resource
    BY <1>1, ElementOfSeq
  <2> QED BY <1>2, <2>1, ResourceId
<1> HIDE DEF p, q, h
<1>4. DOMAIN p = 1 .. Len(q) - 1 /\ DOMAIN q = 1 .. Len(q)
  BY <1>1, <1>2
<1>5. Owned(f) = {q[k].id : k \in 1 .. Len(q)} /\ Owned(g) = {p[k].id : k \in 1 .. Len(q) - 1}
  BY <1>4 DEF Owned, p, q
<1>6. Descending(q)
  BY DEF q
<1>7. Descending(p)
  <2> SUFFICES ASSUME NEW k \in 1 .. Len(q) - 1, NEW l \in 1 .. Len(q) - 1, k < l
               PROVE  p[k].id > p[l].id
    BY <1>2 DEF Descending
  <2>1. k + 1 \in 1 .. Len(q) /\ l + 1 \in 1 .. Len(q) /\ k + 1 < l + 1
    BY <1>1
  <2> QED BY <1>2, <1>6, <2>1 DEF Descending
<1>8. \A k \in 2 .. Len(q) : q[k].id \in Nat /\ q[k].id < h
  <2> SUFFICES ASSUME NEW k \in 2 .. Len(q)
               PROVE  q[k].id \in Nat /\ q[k].id < h
    OBVIOUS
  <2>1. k \in 1 .. Len(q) /\ 1 \in 1 .. Len(q) /\ 1 < k
    BY <1>1
  <2>2. q[k].id \in Nat
    BY <1>1, <2>1, ElementOfSeq, ResourceId
  <2>3. q[1].id > q[k].id
    BY <1>6, <2>1 DEF Descending
  <2> QED BY <1>3, <2>2, <2>3
<1>9. h \in Owned(f)
  <2>1. 1 \in 1 .. Len(q)
    BY <1>1
  <2> QED BY <1>3, <1>5, <2>1
<1>10. \A s \in Owned(f) : s <= h
  <2> SUFFICES ASSUME NEW k \in 1 .. Len(q) PROVE q[k].id <= h
    BY <1>5
  <2>1. k = 1 \/ k \in 2 .. Len(q)
    BY <1>1
  <2> QED BY <1>3, <1>8, <2>1
<1>11. Owned(g) = Owned(f) \ {h}
  <2>1. \A x \in Owned(g) : x \in Owned(f) /\ x # h
    <3> SUFFICES ASSUME NEW k \in 1 .. Len(q) - 1
                 PROVE  p[k].id \in Owned(f) /\ p[k].id # h
      BY <1>5
    <3>1. k + 1 \in 2 .. Len(q) /\ k + 1 \in 1 .. Len(q) /\ p[k] = q[k + 1]
      BY <1>1, <1>2
    <3> QED BY <1>3, <1>5, <1>8, <3>1
  <2>2. \A x \in Owned(f) : x # h => x \in Owned(g)
    <3> SUFFICES ASSUME NEW k \in 1 .. Len(q), q[k].id # h
                 PROVE  q[k].id \in Owned(g)
      BY <1>5
    <3>1. k # 1
      BY <1>3
    <3>2. k - 1 \in 1 .. Len(q) - 1 /\ p[k - 1] = q[k - 1 + 1] /\ k - 1 + 1 = k
      BY <1>1, <1>2, <3>1
    <3> QED BY <1>5, <3>2
  <2> QED BY <2>1, <2>2
<1> QED BY <1>7, <1>9, <1>10, <1>11 DEF p, q, h

-----------------------------------------------------------------------------
(* The innermost frame of a stack that has one. *)
LEMMA TopIsFrame ==
  ASSUME frames \in Seq(StackFrame), frames # <<>>
  PROVE  /\ Top \in StackFrame /\ Top = frames[1]
         /\ Len(frames) \in Nat \ {0} /\ DOMAIN frames = 1 .. Len(frames)
         /\ 1 \in DOMAIN frames
         /\ Top.fn \in Nat /\ Top.ip \in Nat /\ Top.owned \in Seq(Resource)
<1>1. Len(frames) \in Nat \ {0} /\ DOMAIN frames = 1 .. Len(frames)
  BY EmptySeq, LenProperties
<1>2. 1 \in 1 .. Len(frames)
  BY <1>1
<1>3. frames[1] \in StackFrame
  BY <1>2, ElementOfSeq
<1> QED BY <1>1, <1>2, <1>3 DEF Top, StackFrame

(* The innermost frame is replaced and the others stay. *)
TopBecomes(g) ==
  /\ frames' \in Seq(StackFrame) /\ frames' # <<>>
  /\ DOMAIN frames' = DOMAIN frames
  /\ frames'[1] = g
  /\ \A i \in DOMAIN frames : i # 1 => frames'[i] = frames[i]

(* SetTop changes the top of the frames and nothing else.                  *)
LEMMA SetTopReplaces ==
  ASSUME frames \in Seq(StackFrame), frames # <<>>, NEW g \in StackFrame, SetTop(g)
  PROVE  TopBecomes(g) /\ Len(frames') = Len(frames)
<1>1. 1 \in 1 .. Len(frames) /\ DOMAIN frames = 1 .. Len(frames) /\ Len(frames) \in Nat \ {0}
  BY TopIsFrame
<1>2. frames' = [frames EXCEPT ![1] = g]
  BY DEF SetTop
<1>3. /\ frames' \in Seq(StackFrame)
      /\ Len(frames') = Len(frames)
      /\ \A j \in 1 .. Len(frames) : frames'[j] = IF j = 1 THEN g ELSE frames[j]
  BY <1>1, <1>2, ExceptSeq
<1>4. DOMAIN frames' = 1 .. Len(frames')
  BY <1>3, LenProperties
<1>5. frames' # <<>>
  BY <1>1, <1>3
<1> QED BY <1>1, <1>3, <1>4, <1>5 DEF TopBecomes

(* What is live is what some frame owns. *)
LEMMA LiveIsOwned ==
  /\ \A x : x \in Live <=> \E i \in DOMAIN frames : x \in Owned(frames[i])
  /\ \A x : x \in Live' <=> \E i \in DOMAIN frames' : x \in Owned(frames'[i])
BY DEF Live, Owned

(* A frame's resources are numbers. *)
LEMMA OwnedNumbers ==
  ASSUME frames \in Seq(StackFrame), NEW i \in DOMAIN frames
  PROVE  frames[i] \in StackFrame /\ \A r \in Owned(frames[i]) : r \in Nat
<1>1. frames[i] \in StackFrame
  BY LenProperties
<1>2. frames[i].owned \in Seq(Resource)
  BY <1>1 DEF StackFrame
<1>3. \A k \in DOMAIN frames[i].owned : frames[i].owned[k] \in Resource
  BY <1>2
<1> QED BY <1>1, <1>3, ResourceId DEF Owned

(* A resource is made: it is the newest of all, and live from now on. *)
LEMMA Keeps ==
  ASSUME PanicTypeOK, NewestFirst, frames # <<>>,
         NEW kind \in {"own", "box"}, Keep(kind)
  PROVE  /\ frames' \in Seq(StackFrame) /\ frames' # <<>>
         /\ Len(frames') = Len(frames) /\ made' \in Nat
         /\ NewestFirst'
         /\ Top'.fn = Top.fn /\ Top'.ip = Top.ip + 1 /\ Top'.owned # <<>>
         /\ made + 1 \notin Live /\ (\A s \in Live : s < made + 1)
         /\ Live' = Live \cup {made + 1}
<1> DEFINE r == [kind |-> kind, id |-> made']
           g == [Step(Top) EXCEPT !.owned = <<r>> \o @]
<1>1. made \in Nat /\ made' = made + 1 /\ frames \in Seq(StackFrame)
  BY DEF PanicTypeOK, Keep
<1>2. r \in Resource /\ r.id = made + 1
  BY <1>1 DEF Resource
<1>3. Top \in StackFrame /\ Top = frames[1] /\ 1 \in DOMAIN frames /\ Top.owned \in Seq(Resource)
  BY <1>1, TopIsFrame
<1>4. SetTop(g)
  BY DEF Keep
<1>5. g.fn = Top.fn /\ g.ip = Top.ip + 1 /\ g.owned = <<r>> \o Top.owned
  BY <1>3 DEF Step, StackFrame
<1>6. g \in StackFrame
  <2> HIDE DEF r
  <2>1. <<r>> \in Seq(Resource)
    BY <1>2
  <2>2. <<r>> \o Top.owned \in Seq(Resource)
    BY <1>3, <2>1, ConcatProperties
  <2>3. Step(Top) \in StackFrame /\ Step(Top).owned = Top.owned
    BY <1>3 DEF Step, StackFrame
  <2> QED BY <2>2, <2>3 DEF StackFrame
<1> HIDE DEF r, g
<1>7. TopBecomes(g) /\ Len(frames') = Len(frames)
  BY <1>1, <1>4, <1>6, SetTopReplaces
<1>8. \A i \in DOMAIN frames : \A s \in Owned(frames[i]) : s \in Nat /\ s < made + 1
  BY <1>1, OwnedNumbers DEF NewestFirst
<1>9. /\ g.owned # <<>>
      /\ Owned(g) = Owned(Top) \cup {made + 1}
      /\ Descending(g.owned)
  <2>1. Descending(Top.owned) /\ \A s \in Owned(Top) : s < made + 1
    BY <1>3, <1>8 DEF NewestFirst
  <2>2. g.owned = <<r>> \o Top.owned
    BY <1>5
  <2>3. Top \in StackFrame /\ g \in StackFrame /\ r \in Resource
    BY <1>2, <1>3, <1>6
  <2>4. /\ g.owned # <<>>
        /\ Owned(g) = Owned(Top) \cup {r.id}
        /\ (\A s \in Owned(Top) : s < r.id) /\ Descending(Top.owned) => Descending(g.owned)
    BY <2>2, <2>3, OwnedMore
  <2> QED BY <1>2, <2>1, <2>4
<1>10. NewestFirst'
  <2>1. \A i \in DOMAIN frames' : Descending(frames'[i].owned)
    BY <1>7, <1>9 DEF TopBecomes, NewestFirst
  <2>2. \A i \in DOMAIN frames' : \A s \in Owned(frames'[i]) : s <= made'
    BY <1>1, <1>3, <1>7, <1>8, <1>9 DEF TopBecomes
  <2>3. ASSUME NEW i \in DOMAIN frames', NEW j \in DOMAIN frames', i < j,
               NEW x \in Owned(frames'[i]), NEW y \in Owned(frames'[j])
        PROVE  x > y
    <3>1. i \in DOMAIN frames /\ j \in DOMAIN frames /\ j # 1 /\ frames'[j] = frames[j]
      BY <1>1, <1>7, <2>3, LenProperties DEF TopBecomes
    <3>2. y \in Owned(frames[j]) /\ y \in Nat /\ y < made + 1
      BY <1>8, <2>3, <3>1
    <3>3. x \in Owned(frames[i]) \/ x = made + 1
      BY <1>3, <1>7, <1>9, <2>3, <3>1 DEF TopBecomes
    <3> QED BY <1>1, <2>3, <3>1, <3>2, <3>3 DEF NewestFirst
  <2> QED BY <2>1, <2>2, <2>3 DEF NewestFirst, Descending, Owned
<1>11. made + 1 \notin Live /\ \A s \in Live : s < made + 1
  BY <1>1, <1>8, LiveIsOwned
<1>12. Live' = Live \cup {made + 1}
  <2>1. \A x \in Live' : x \in Live \cup {made + 1}
    BY <1>3, <1>7, <1>9, LiveIsOwned DEF TopBecomes
  <2>2. \A x \in Live \cup {made + 1} : x \in Live'
    BY <1>3, <1>7, <1>9, LiveIsOwned DEF TopBecomes
  <2> QED BY <2>1, <2>2
<1>13. Top' = g
  BY <1>7 DEF TopBecomes, Top
<1> QED BY <1>1, <1>5, <1>7, <1>9, <1>10, <1>11, <1>12, <1>13 DEF TopBecomes

(* The newest resource of the innermost frame is dropped: it was the       *)
(* newest of all.                                                          *)
LEMMA Drops ==
  ASSUME PanicTypeOK, NewestFirst, frames # <<>>, DropNewest, made' = made
  PROVE  /\ frames' \in Seq(StackFrame) /\ frames' # <<>>
         /\ NewestFirst'
         /\ DOMAIN frames' = DOMAIN frames
         /\ \A i \in DOMAIN frames : i # 1 => frames'[i] = frames[i]
         /\ Top.owned # <<>>
         /\ Head(Top.owned).id \in Live
         /\ \A s \in Live : s <= Head(Top.owned).id
         /\ Live' = Live \ {Head(Top.owned).id}
<1> DEFINE h == Head(Top.owned).id
           g == [Top EXCEPT !.owned = Tail(@)]
<1>1. made \in Nat /\ frames \in Seq(StackFrame)
  BY DEF PanicTypeOK
<1>2. Top \in StackFrame /\ Top = frames[1] /\ 1 \in DOMAIN frames
      /\ Top.owned \in Seq(Resource) /\ DOMAIN frames = 1 .. Len(frames)
  BY <1>1, TopIsFrame
<1>3. Top.owned # <<>> /\ SetTop(g)
  BY DEF DropNewest
<1>4. g \in StackFrame /\ g.owned = Tail(Top.owned)
  <2>1. Tail(Top.owned) \in Seq(Resource)
    BY <1>2, <1>3, HeadTailProperties
  <2> QED BY <1>2, <2>1 DEF StackFrame
<1> HIDE DEF g
<1>5. TopBecomes(g)
  BY <1>1, <1>3, <1>4, SetTopReplaces
<1>6. Descending(Top.owned)
  BY <1>2 DEF NewestFirst
<1>7. /\ Descending(g.owned)
      /\ h \in Owned(Top)
      /\ \A s \in Owned(Top) : s <= h
      /\ Owned(g) = Owned(Top) \ {h}
  BY <1>2, <1>3, <1>4, <1>6, OwnedLess
<1> HIDE DEF h
<1>8. h \in Nat
  BY <1>1, <1>2, <1>7, OwnedNumbers
<1>9. \A i \in DOMAIN frames : i # 1 => \A s \in Owned(frames[i]) : s \in Nat /\ s < h
  <2> SUFFICES ASSUME NEW i \in DOMAIN frames, i # 1, NEW s \in Owned(frames[i])
               PROVE  s \in Nat /\ s < h
    OBVIOUS
  <2>1. 1 < i
    BY <1>2
  <2>2. s \in Nat
    BY <1>1, OwnedNumbers
  <2>3. h > s
    BY <1>2, <1>7, <2>1 DEF NewestFirst
  <2> QED BY <1>8, <2>2, <2>3
<1>10. NewestFirst'
  <2>1. \A i \in DOMAIN frames' : Descending(frames'[i].owned)
    BY <1>5, <1>7 DEF TopBecomes, NewestFirst
  <2>2. \A i \in DOMAIN frames' : Owned(frames'[i]) \subseteq Owned(frames[i])
    BY <1>2, <1>5, <1>7 DEF TopBecomes
  <2>3. \A i \in DOMAIN frames' : \A s \in Owned(frames'[i]) : s <= made'
    BY <1>5, <2>2 DEF TopBecomes, NewestFirst
  <2>4. \A i, j \in DOMAIN frames' : i < j =>
          \A r \in Owned(frames'[i]), s \in Owned(frames'[j]) : r > s
    BY <1>5, <2>2 DEF TopBecomes, NewestFirst
  <2> QED BY <2>1, <2>3, <2>4 DEF NewestFirst, Descending, Owned
<1>11. h \in Live
  BY <1>2, <1>7, LiveIsOwned
<1>12. \A s \in Live : s <= h
  <2> SUFFICES ASSUME NEW i \in DOMAIN frames, NEW s \in Owned(frames[i])
               PROVE  s <= h
    BY LiveIsOwned
  <2> QED BY <1>2, <1>7, <1>8, <1>9
<1>13. Live' = Live \ {h}
  <2>1. \A x \in Live' : x \in Live \ {h}
    <3> SUFFICES ASSUME NEW i \in DOMAIN frames, NEW x \in Owned(frames'[i])
                 PROVE  x \in Owned(frames[i]) /\ x # h
      BY <1>5, LiveIsOwned DEF TopBecomes
    <3> QED BY <1>2, <1>5, <1>7, <1>8, <1>9 DEF TopBecomes
  <2>2. \A x \in Live \ {h} : x \in Live'
    BY <1>2, <1>5, <1>7, LiveIsOwned DEF TopBecomes
  <2> QED BY <2>1, <2>2
<1> QED BY <1>3, <1>5, <1>10, <1>11, <1>12, <1>13 DEF TopBecomes, h

(* An instruction that owns nothing new only moves the innermost frame on. *)
LEMMA Steps ==
  ASSUME PanicTypeOK, NewestFirst, frames # <<>>, SetTop(Step(Top)), made' = made
  PROVE  /\ frames' \in Seq(StackFrame) /\ frames' # <<>>
         /\ Len(frames') = Len(frames)
         /\ Top'.fn = Top.fn /\ Top'.ip = Top.ip + 1 /\ Top'.owned = Top.owned
         /\ NewestFirst' /\ Live' = Live
<1>1. frames \in Seq(StackFrame)
  BY DEF PanicTypeOK
<1>2. Top \in StackFrame /\ Top = frames[1]
  BY <1>1, TopIsFrame
<1>3. /\ Step(Top) \in StackFrame
      /\ Step(Top).fn = Top.fn /\ Step(Top).ip = Top.ip + 1 /\ Step(Top).owned = Top.owned
  BY <1>2 DEF Step, StackFrame
<1>4. TopBecomes(Step(Top)) /\ Len(frames') = Len(frames)
  BY <1>1, <1>3, SetTopReplaces
<1>5. \A i \in DOMAIN frames' : frames'[i].owned = frames[i].owned
  BY <1>2, <1>3, <1>4 DEF TopBecomes
<1>6. \A i \in DOMAIN frames' : Owned(frames'[i]) = Owned(frames[i])
  BY <1>5 DEF Owned
<1>7. NewestFirst'
  BY <1>4, <1>5, <1>6 DEF NewestFirst, TopBecomes
<1>8. Live' = Live
  BY <1>4, <1>6, LiveIsOwned DEF TopBecomes
<1>9. Top' = Step(Top)
  BY <1>4 DEF TopBecomes, Top
<1> QED BY <1>3, <1>4, <1>7, <1>8, <1>9 DEF TopBecomes

(* A call puts a frame that owns nothing on the stack. *)
LEMMA Pushes ==
  ASSUME PanicTypeOK, NewestFirst, frames # <<>>, made' = made,
         frames' = <<Frame(Top.fn + 1), Step(Top)>> \o Tail(frames)
  PROVE  /\ frames' \in Seq(StackFrame) /\ frames' # <<>>
         /\ NewestFirst' /\ Live' = Live
<1> DEFINE new == Frame(Top.fn + 1)
           old == Step(Top)
           rest == Tail(frames)
           n == Len(frames)
<1>1. frames \in Seq(StackFrame)
  BY DEF PanicTypeOK
<1>2. Top \in StackFrame /\ Top = frames[1] /\ n \in Nat \ {0} /\ DOMAIN frames = 1 .. n
  BY <1>1, TopIsFrame
<1>3. old \in StackFrame /\ old.owned = Top.owned
  BY <1>2 DEF Step, StackFrame
<1>4. new \in StackFrame /\ new.owned = <<>>
  BY <1>2 DEF Frame, StackFrame
<1>5. /\ rest \in Seq(StackFrame) /\ Len(rest) = n - 1
      /\ \A i \in 1 .. n - 1 : rest[i] = frames[i + 1]
  BY <1>1
<1> HIDE DEF new, old, rest, n
<1>6. frames' = <<new, old>> \o rest
  BY DEF new, old, rest
<1>7. /\ frames' \in Seq(StackFrame) /\ Len(frames') = n + 1
      /\ frames'[1] = new /\ frames'[2] = old
      /\ \A i \in 3 .. n + 1 : frames'[i] = rest[i - 2]
  <2> DEFINE two == <<new, old>>
  <2>1. two \in Seq(StackFrame) /\ Len(two) = 2 /\ two[1] = new /\ two[2] = old
    BY <1>3, <1>4
  <2> HIDE DEF two
  <2>2. /\ two \o rest \in Seq(StackFrame)
        /\ Len(two \o rest) = Len(two) + Len(rest)
        /\ \A i \in 1 .. Len(two) + Len(rest) :
             (two \o rest)[i] = IF i <= Len(two) THEN two[i] ELSE rest[i - Len(two)]
    BY <1>5, <2>1, ConcatProperties
  <2>3. frames' = two \o rest
    BY <1>6 DEF two
  <2>4. Len(frames') = n + 1
    BY <1>2, <1>5, <2>1, <2>2, <2>3
  <2>5. \A i \in 1 .. n + 1 : frames'[i] = IF i <= 2 THEN two[i] ELSE rest[i - 2]
    <3>1. Len(two) + Len(rest) = n + 1
      BY <1>2, <1>5, <2>1
    <3> QED BY <2>1, <2>2, <2>3, <3>1
  <2>6. frames'[1] = new /\ frames'[2] = old
    <3>1. 1 \in 1 .. n + 1 /\ 2 \in 1 .. n + 1
      BY <1>2
    <3> QED BY <2>1, <2>5, <3>1
  <2>7. \A i \in 3 .. n + 1 : i \in 1 .. n + 1 /\ ~(i <= 2)
    BY <1>2
  <2>8. \A i \in 3 .. n + 1 : frames'[i] = rest[i - 2]
    BY <2>5, <2>7
  <2> QED BY <2>2, <2>3, <2>4, <2>6, <2>8
<1>8. DOMAIN frames' = 1 .. n + 1
  BY <1>7, LenProperties
<1>9. \A i \in 2 .. n + 1 : i - 1 \in 1 .. n /\ frames'[i].owned = frames[i - 1].owned
  <2> SUFFICES ASSUME NEW i \in 2 .. n + 1
               PROVE  i - 1 \in 1 .. n /\ frames'[i].owned = frames[i - 1].owned
    OBVIOUS
  <2>1. i - 1 \in 1 .. n
    BY <1>2
  <2>2. CASE i = 2
    BY <1>2, <1>3, <1>7, <2>2
  <2>3. CASE i # 2
    <3>1. i \in 3 .. n + 1 /\ i - 2 \in 1 .. n - 1 /\ i - 2 + 1 = i - 1
      BY <1>2, <2>3
    <3> QED BY <1>5, <1>7, <2>1, <3>1
  <2> QED BY <2>1, <2>2, <2>3
<1>10. \A i \in 2 .. n + 1 : Owned(frames'[i]) = Owned(frames[i - 1])
  BY <1>9 DEF Owned
<1>11. Owned(frames'[1]) = {} /\ Descending(frames'[1].owned)
  BY <1>4, <1>7 DEF Owned, Descending
<1>12. NewestFirst'
  <2>1. \A i \in DOMAIN frames' : i = 1 \/ i \in 2 .. n + 1
    BY <1>2, <1>8
  <2>2. \A i \in DOMAIN frames' : Descending(frames'[i].owned)
    BY <1>2, <1>9, <1>11, <2>1 DEF NewestFirst
  <2>3. \A i \in DOMAIN frames' : \A r \in Owned(frames'[i]) : r <= made'
    BY <1>2, <1>9, <1>10, <1>11, <2>1 DEF NewestFirst
  <2>4. ASSUME NEW i \in DOMAIN frames', NEW j \in DOMAIN frames', i < j,
               NEW r \in Owned(frames'[i]), NEW s \in Owned(frames'[j])
        PROVE  r > s
    <3>1. i \in 2 .. n + 1
      BY <1>11, <2>1
    <3>2. j \in 2 .. n + 1 /\ i - 1 < j - 1
      BY <1>2, <1>8, <2>4, <3>1
    <3>3. /\ i - 1 \in DOMAIN frames /\ j - 1 \in DOMAIN frames
          /\ r \in Owned(frames[i - 1]) /\ s \in Owned(frames[j - 1])
      BY <1>2, <1>9, <1>10, <3>1, <3>2
    <3> QED BY <3>2, <3>3 DEF NewestFirst
  <2> QED BY <2>2, <2>3, <2>4 DEF NewestFirst, Descending, Owned
<1>13. Live' = Live
  <2>1. \A x \in Live' : x \in Live
    <3> SUFFICES ASSUME NEW i \in 1 .. n + 1, NEW x \in Owned(frames'[i])
                 PROVE  x \in Live
      BY <1>8, LiveIsOwned
    <3>1. i \in 2 .. n + 1
      BY <1>2, <1>11
    <3> QED BY <1>2, <1>9, <1>10, <3>1, LiveIsOwned
  <2>2. \A x \in Live : x \in Live'
    <3> SUFFICES ASSUME NEW i \in 1 .. n, NEW x \in Owned(frames[i])
                 PROVE  x \in Live'
      BY <1>2, LiveIsOwned
    <3>1. PICK j \in 2 .. n + 1 : j - 1 = i
      <4>1. i + 1 \in 2 .. n + 1 /\ i + 1 - 1 = i
        BY <1>2
      <4> QED BY <4>1
    <3>2. j \in DOMAIN frames'
      BY <1>2, <1>8
    <3>3. x \in Owned(frames'[j])
      BY <1>10, <3>1
    <3> QED BY <3>2, <3>3, LiveIsOwned
  <2> QED BY <2>1, <2>2
<1>14. frames' # <<>>
  BY <1>2, <1>7
<1> QED BY <1>7, <1>12, <1>13, <1>14

(* The frames that have something to drop. *)
Pads == {i \in DOMAIN frames : frames[i].owned # <<>>}

(* They are finitely many. *)
LEMMA PadsFinite ==
  ASSUME frames \in Seq(StackFrame)
  PROVE  IsFiniteSet(Pads) /\ Cardinality(Pads) \in Nat
<1>1. DOMAIN frames = 1 .. Len(frames) /\ Len(frames) \in Nat
  BY LenProperties
<1>2. IsFiniteSet(1 .. Len(frames)) /\ Pads \subseteq 1 .. Len(frames)
  BY <1>1, FS_Interval DEF Pads
<1> QED BY <1>2, FS_Subset, FS_CardinalityType

(* A frame is left when it owns nothing: nothing is lost, and the frames   *)
(* that still have something to drop are the same number.                  *)
LEMMA Pops ==
  ASSUME PanicTypeOK, NewestFirst, frames # <<>>, Top.owned = <<>>, made' = made,
         frames' = Tail(frames)
  PROVE  /\ frames' \in Seq(StackFrame)
         /\ NewestFirst' /\ Live' = Live
         /\ 1 \notin Pads
         /\ Cardinality(Pads') = Cardinality(Pads)
<1> DEFINE n == Len(frames)
<1>1. frames \in Seq(StackFrame)
  BY DEF PanicTypeOK
<1>2. Top = frames[1] /\ n \in Nat \ {0} /\ DOMAIN frames = 1 .. n
  BY <1>1, TopIsFrame
<1>3. /\ frames' \in Seq(StackFrame) /\ Len(frames') = n - 1
      /\ \A i \in 1 .. n - 1 : frames'[i] = frames[i + 1]
  BY <1>1
<1> HIDE DEF n
<1>4. DOMAIN frames' = 1 .. n - 1
  BY <1>3, LenProperties
<1>5. Owned(frames[1]) = {} /\ 1 \notin Pads
  BY <1>2 DEF Owned, Pads
<1>6. \A i \in 1 .. n - 1 : i + 1 \in 1 .. n
  BY <1>2
<1>7. NewestFirst'
  <2>1. \A i \in DOMAIN frames' : i + 1 \in DOMAIN frames /\ frames'[i] = frames[i + 1] /\ i \in Nat
    BY <1>2, <1>3, <1>4, <1>6
  <2>2. \A i \in DOMAIN frames' : Descending(frames'[i].owned)
    BY <2>1 DEF NewestFirst
  <2>3. \A i \in DOMAIN frames' : \A r \in Owned(frames'[i]) : r <= made'
    BY <2>1 DEF NewestFirst
  <2>4. \A i, j \in DOMAIN frames' : i < j =>
          \A r \in Owned(frames'[i]), s \in Owned(frames'[j]) : r > s
    <3> SUFFICES ASSUME NEW i \in DOMAIN frames', NEW j \in DOMAIN frames', i < j
                 PROVE  \A r \in Owned(frames'[i]), s \in Owned(frames'[j]) : r > s
      OBVIOUS
    <3>1. i + 1 < j + 1
      BY <2>1
    <3> QED BY <2>1, <3>1 DEF NewestFirst
  <2> QED BY <2>2, <2>3, <2>4 DEF NewestFirst, Descending, Owned
<1>8. \A i \in 1 .. n : i = 1 \/ (i - 1 \in 1 .. n - 1 /\ frames'[i - 1] = frames[i])
  <2> SUFFICES ASSUME NEW i \in 1 .. n, i # 1
               PROVE  i - 1 \in 1 .. n - 1 /\ frames'[i - 1] = frames[i]
    OBVIOUS
  <2>1. i - 1 \in 1 .. n - 1 /\ i - 1 + 1 = i
    BY <1>2
  <2> QED BY <1>3, <2>1
<1>9. Live' = Live
  <2>1. \A x \in Live' : x \in Live
    BY <1>2, <1>3, <1>4, <1>6, LiveIsOwned
  <2>2. \A x \in Live : x \in Live'
    <3> SUFFICES ASSUME NEW i \in 1 .. n, NEW x \in Owned(frames[i])
                 PROVE  x \in Live'
      BY <1>2, LiveIsOwned
    <3>1. i # 1
      BY <1>5
    <3>2. i - 1 \in 1 .. n - 1 /\ frames'[i - 1] = frames[i]
      BY <1>8, <3>1
    <3> QED BY <1>4, <3>2, LiveIsOwned
  <2> QED BY <2>1, <2>2
<1>10. Cardinality(Pads') = Cardinality(Pads)
  <2> DEFINE f == [i \in Pads |-> i - 1]
  <2>1. \A i \in Pads : i \in 1 .. n /\ i # 1
    BY <1>2, <1>5 DEF Pads
  <2>2. Pads' = {i \in 1 .. n - 1 : frames[i + 1].owned # <<>>}
    BY <1>3, <1>4 DEF Pads
  <2>3. Pads = {i \in 1 .. n : frames[i].owned # <<>>}
    BY <1>2 DEF Pads
  <2>4. f \in [Pads -> Pads']
    <3> SUFFICES ASSUME NEW i \in Pads PROVE i - 1 \in Pads'
      OBVIOUS
    <3>1. i - 1 \in 1 .. n - 1 /\ i - 1 + 1 = i
      BY <1>2, <2>1
    <3> QED BY <2>2, <2>3, <3>1
  <2>5. \A i, j \in Pads : f[i] = f[j] => i = j
    BY <1>2, <2>1
  <2>6. \A k \in Pads' : \E i \in Pads : f[i] = k
    <3> SUFFICES ASSUME NEW k \in Pads' PROVE \E i \in Pads : f[i] = k
      OBVIOUS
    <3>1. k \in 1 .. n - 1 /\ k + 1 \in Pads /\ k + 1 - 1 = k
      BY <1>2, <1>6, <2>2, <2>3
    <3> QED BY <3>1
  <2>7. f \in Bijection(Pads, Pads')
    BY <2>4, <2>5, <2>6 DEF Bijection, Injection, Surjection, IsInjective
  <2> HIDE DEF f
  <2>8. ExistsBijection(Pads, Pads')
    BY <2>7 DEF ExistsBijection
  <2> QED BY <1>1, <2>8, PadsFinite, FS_Bijection
<1> QED BY <1>3, <1>5, <1>7, <1>9, <1>10

(* A task starts with one frame that owns nothing. *)
LEMMA Begins ==
  ASSUME frames = <<>>, frames' = <<Frame(1)>>
  PROVE  /\ frames' \in Seq(StackFrame) /\ frames' # <<>> /\ Len(frames') = 1
         /\ Top'.fn = 1 /\ Top'.ip = 1
         /\ NewestFirst' /\ Live' = Live /\ Live = {}
<1>1. Frame(1) \in StackFrame /\ Frame(1).owned = <<>> /\ Frame(1).fn = 1 /\ Frame(1).ip = 1
  BY DEF Frame, StackFrame
<1>2. /\ frames' \in Seq(StackFrame) /\ Len(frames') = 1 /\ frames'[1] = Frame(1)
      /\ DOMAIN frames' = {1}
  BY <1>1
<1>3. Owned(frames'[1]) = {} /\ Descending(frames'[1].owned)
  BY <1>1, <1>2 DEF Owned, Descending
<1>4. NewestFirst'
  BY <1>2, <1>3 DEF NewestFirst
<1>5. Live = {} /\ Live' = {}
  BY <1>2, <1>3, LiveIsOwned
<1>6. frames' # <<>> /\ Top' = Frame(1)
  BY <1>2 DEF Top
<1> QED BY <1>1, <1>2, <1>4, <1>5, <1>6

-----------------------------------------------------------------------------
(* Steps that leave the stack alone. *)
OffStack ==
  \/ BoxNew \/ OutOfMemory \/ PanicStops \/ Panic \/ Raise \/ SearchFinds
  \/ NoLandingPad \/ EnterPad \/ Land \/ TaskRunReturns \/ InspectCatch
  \/ Conclude \/ MainDone \/ UNCHANGED vars

(* They do. *)
LEMMA OffStackSame ==
  ASSUME OffStack
  PROVE  /\ UNCHANGED <<frames, made, started>>
         /\ NewestFirst => NewestFirst'
         /\ Live' = Live /\ Pads' = Pads
<1>1. UNCHANGED <<frames, made, started>>
  BY DEF OffStack, BoxNew, OutOfMemory, PanicStops, Panic, Raise, SearchFinds,
         NoLandingPad, EnterPad, Land, TaskRunReturns, InspectCatch, Conclude,
         MainDone, vars, taskVars
<1> QED BY <1>1 DEF NewestFirst, Descending, Owned, Live, Pads

(* What is left when every action of Next has been named. *)
LEMMA Cases ==
  ASSUME [Next]_vars
  PROVE  \/ StartTask \/ Own \/ BoxReturned \/ Mark \/ Call \/ ScopeEnd \/ Return
         \/ PassFrame \/ PadDrop \/ Resume
         \/ OffStack
BY DEF Next, CoreStep, Spinning, Running, Unwinding, Stopping, OffStack

(* The stack keeps its shape and its order. *)
LEMMA StackStep ==
  ASSUME StackInv, [Next]_vars
  PROVE  StackInv'
<1> USE DEF StackInv, StackShape
<1>1. CASE StartTask
  <2>1. frames' \in Seq(StackFrame) /\ frames' # <<>> /\ NewestFirst'
    BY <1>1, Begins DEF StartTask
  <2> QED BY <1>1, <2>1 DEF StartTask, PanicTypeOK, Modes, resumeVars
<1>2. CASE Own
  <2>1. frames # <<>> /\ Keep("own") /\ mode = "run"
    BY <1>2 DEF Own, At
  <2>2. frames' \in Seq(StackFrame) /\ frames' # <<>> /\ NewestFirst' /\ made' \in Nat
    BY <2>1, Keeps
  <2> QED BY <1>2, <2>1, <2>2 DEF Own, PanicTypeOK, resumeVars
<1>3. CASE BoxReturned
  <2>1. frames # <<>> /\ Keep("box")
    BY <1>3 DEF BoxReturned
  <2>2. frames' \in Seq(StackFrame) /\ frames' # <<>> /\ NewestFirst' /\ made' \in Nat
    BY <2>1, Keeps
  <2> QED BY <1>3, <2>1, <2>2 DEF BoxReturned, PanicTypeOK, Modes, resumeVars
<1>4. CASE Mark
  <2>1. frames # <<>> /\ SetTop(Step(Top)) /\ made' = made /\ mode = "run"
    BY <1>4 DEF Mark, At, taskVars
  <2>2. frames' \in Seq(StackFrame) /\ frames' # <<>> /\ NewestFirst'
    BY <2>1, Steps
  <2> QED BY <1>4, <2>1, <2>2 DEF Mark, PanicTypeOK, taskVars, resumeVars
<1>5. CASE Call
  <2>1. /\ frames # <<>> /\ made' = made /\ mode = "run"
        /\ frames' = <<Frame(Top.fn + 1), Step(Top)>> \o Tail(frames)
    BY <1>5 DEF Call, At, taskVars
  <2>2. frames' \in Seq(StackFrame) /\ frames' # <<>> /\ NewestFirst'
    BY <2>1, Pushes
  <2> QED BY <1>5, <2>1, <2>2 DEF Call, PanicTypeOK, taskVars, resumeVars
<1>6. CASE ScopeEnd \/ PadDrop
  <2>1. frames # <<>> /\ DropNewest /\ made' = made /\ mode \in {"run", "pad"} /\ mode' = mode
    BY <1>6 DEF ScopeEnd, PadDrop, taskVars
  <2>2. frames' \in Seq(StackFrame) /\ frames' # <<>> /\ NewestFirst'
    BY <2>1, Drops
  <2> QED BY <1>6, <2>1, <2>2 DEF ScopeEnd, PadDrop, PanicTypeOK, taskVars, resumeVars
<1>7. CASE Return \/ PassFrame \/ Resume
  <2>1. frames # <<>> /\ Top.owned = <<>> /\ made' = made /\ frames' = Tail(frames)
    BY <1>7 DEF Return, PassFrame, Resume, taskVars
  <2>2. frames' \in Seq(StackFrame) /\ NewestFirst'
    BY <2>1, Pops
  <2>3. mode' \in Modes /\ StackShape'
    BY <1>7, <2>1 DEF Return, PassFrame, Resume, Modes, PanicTypeOK
  <2>4. started' \in Nat /\ RESUME_WRAP_COUNT' \in Nat /\ padsDue' \in Nat
    BY <1>7 DEF Return, PassFrame, Resume, PanicTypeOK, taskVars, resumeVars
  <2> QED BY <2>1, <2>2, <2>3, <2>4 DEF PanicTypeOK
<1>8. CASE OffStack
  <2>1. UNCHANGED <<frames, made, started>> /\ NewestFirst'
    BY <1>8, OffStackSame
  <2>2. mode' \in Modes /\ StackShape'
    <3>1. CASE BoxNew \/ Panic \/ Raise \/ EnterPad
      <4>1. frames # <<>> /\ mode' \in {"box", "raise", "search", "pad"}
        BY <3>1 DEF BoxNew, Panic, Raise, EnterPad, At
      <4> QED BY <2>1, <4>1 DEF Modes
    <3>2. CASE Land \/ TaskRunReturns \/ InspectCatch
      <4>1. frames = <<>> /\ mode' \in {"returned", "main", "caught"}
        BY <3>2 DEF Land, TaskRunReturns, InspectCatch
      <4> QED BY <2>1, <4>1 DEF Modes
    <3>3. CASE OutOfMemory \/ PanicStops \/ SearchFinds \/ NoLandingPad \/ Conclude \/ MainDone
      <4>1. mode' \in {"oom", "spin", "unwind"}
        BY <3>3 DEF OutOfMemory, PanicStops, SearchFinds, NoLandingPad, Conclude, MainDone
      <4> QED BY <4>1 DEF Modes
    <3>4. CASE UNCHANGED vars
      BY <2>1, <3>4 DEF vars, PanicTypeOK
    <3> QED BY <1>8, <3>1, <3>2, <3>3, <3>4 DEF OffStack
  <2>3. RESUME_WRAP_COUNT' \in Nat /\ padsDue' \in Nat
    <3>1. CASE Panic
      <4>1. Cardinality(Pads) \in Nat
        BY PadsFinite DEF PanicTypeOK
      <4> QED BY <3>1, <4>1 DEF Panic, Pads, PanicTypeOK
    <3>2. CASE ~Panic
      <4>1. UNCHANGED resumeVars
        BY <1>8, <3>2
           DEF OffStack, BoxNew, OutOfMemory, PanicStops, Raise,
               SearchFinds, NoLandingPad, EnterPad, Land, TaskRunReturns, InspectCatch,
               Conclude, MainDone, vars
      <4> QED BY <4>1 DEF resumeVars, PanicTypeOK
    <3> QED BY <3>1, <3>2
  <2> QED BY <2>1, <2>2, <2>3 DEF PanicTypeOK
<1> QED BY <1>1, <1>2, <1>3, <1>4, <1>5, <1>6, <1>7, <1>8, Cases

(* The count of the hook and what is still to be counted add up to what    *)
(* was due when the task panicked.  In the landing pad of a frame, the     *)
(* frame itself is still to be counted, also when nothing is left in it.   *)
CountInv ==
  image = "task_run" =>
    /\ mode \in {"raise", "search", "unwind"} =>
         RESUME_WRAP_COUNT + Cardinality(Pads) = padsDue
    /\ mode = "pad" => RESUME_WRAP_COUNT + Cardinality(Pads \cup {1}) = padsDue
    /\ mode = "returned" /\ result = "Err" => RESUME_WRAP_COUNT = padsDue

(* Every step keeps the sum. *)
LEMMA CountStep ==
  ASSUME StackInv, CountInv, [Next]_vars
  PROVE  CountInv'
<1> USE DEF StackInv
<1>0. image' = image
  BY DEF Next, CoreStep, Running, Unwinding, Stopping, Spinning, StartTask, Own, BoxNew,
         BoxReturned, Mark, Call, ScopeEnd, Return, Panic, Raise, SearchFinds, PassFrame,
         EnterPad, PadDrop, Resume, Land, PanicStops, OutOfMemory, NoLandingPad, MainDone,
         TaskRunReturns, InspectCatch, Conclude, build, vars
<1> SUFFICES ASSUME image = "task_run" PROVE CountInv'
  BY <1>0 DEF CountInv
<1>1. frames \in Seq(StackFrame) /\ RESUME_WRAP_COUNT \in Nat
      /\ IsFiniteSet(Pads) /\ Cardinality(Pads) \in Nat
  BY PadsFinite DEF PanicTypeOK
<1>2. CASE StartTask \/ Own \/ BoxReturned \/ Mark \/ Call \/ ScopeEnd \/ Return
  <2>1. mode' \in {"run", "returned"} /\ (mode' = "returned" => result' = "Ok")
    BY <1>2 DEF StartTask, Own, BoxReturned, Mark, Call, ScopeEnd, Return, At
  <2> QED BY <2>1 DEF CountInv
<1>3. CASE PassFrame
  <2>1. /\ mode = "unwind" /\ mode' = "unwind" /\ frames # <<>> /\ Top.owned = <<>>
        /\ made' = made /\ frames' = Tail(frames) /\ UNCHANGED resumeVars
    BY <1>3 DEF PassFrame, taskVars
  <2>2. Cardinality(Pads') = Cardinality(Pads)
    BY <2>1, Pops
  <2> QED BY <2>1, <2>2 DEF CountInv, resumeVars
<1>4. CASE PadDrop
  <2>1. mode = "pad" /\ mode' = "pad" /\ frames # <<>> /\ DropNewest /\ made' = made
        /\ UNCHANGED resumeVars
    BY <1>4 DEF PadDrop, taskVars, StackShape
  <2>2. /\ DOMAIN frames' = DOMAIN frames
        /\ \A i \in DOMAIN frames : i # 1 => frames'[i] = frames[i]
    BY <2>1, Drops
  <2>3. Pads' \cup {1} = Pads \cup {1}
    BY <2>2 DEF Pads
  <2> QED BY <2>1, <2>3 DEF CountInv, resumeVars
<1>5. CASE Resume
  <2>1. /\ mode = "pad" /\ mode' = "unwind" /\ frames # <<>> /\ Top.owned = <<>>
        /\ made' = made /\ frames' = Tail(frames)
        /\ RESUME_WRAP_COUNT' = RESUME_WRAP_COUNT + 1 /\ padsDue' = padsDue
    BY <1>5 DEF Resume, taskVars, StackShape
  <2>2. 1 \notin Pads /\ Cardinality(Pads') = Cardinality(Pads)
    BY <2>1, Pops
  <2>3. Cardinality(Pads \cup {1}) = Cardinality(Pads) + 1
    BY <1>1, <2>2, FS_AddElement
  <2> QED BY <1>1, <2>1, <2>2, <2>3 DEF CountInv
<1>6. CASE OffStack
  <2>1. UNCHANGED frames /\ Pads' = Pads
    BY <1>6, OffStackSame
  <2>2. CASE Panic
    BY <2>1, <2>2 DEF Panic, CountInv, Pads
  <2>3. CASE EnterPad
    <3>1. 1 \in Pads
      BY <1>1, <2>3, TopIsFrame DEF EnterPad, Pads
    <3>2. Pads \cup {1} = Pads
      BY <3>1
    <3> QED BY <2>1, <2>3, <3>2 DEF EnterPad, CountInv, resumeVars
  <2>4. CASE Land
    <3>1. Pads = {}
      BY <2>4 DEF Land, Pads
    <3>2. Cardinality(Pads) = 0
      BY <3>1, FS_EmptySet
    <3> QED BY <1>1, <2>4, <3>2 DEF Land, CountInv, resumeVars
  <2>5. CASE Raise \/ SearchFinds
    BY <2>1, <2>5 DEF Raise, SearchFinds, CountInv, resumeVars
  <2>6. CASE BoxNew \/ OutOfMemory \/ PanicStops \/ NoLandingPad \/ TaskRunReturns
             \/ InspectCatch \/ Conclude \/ MainDone
    BY <2>6 DEF BoxNew, OutOfMemory, PanicStops, NoLandingPad, TaskRunReturns,
                InspectCatch, Conclude, MainDone, CountInv
  <2>7. CASE UNCHANGED vars
    BY <2>1, <2>7 DEF vars, resumeVars, taskVars, CountInv
  <2> QED BY <1>6, <2>2, <2>3, <2>4, <2>5, <2>6, <2>7 DEF OffStack
<1> QED BY <1>2, <1>3, <1>4, <1>5, <1>6, Cases

-----------------------------------------------------------------------------
(* The image and its linking never change. *)
LEMMA BuildStays ==
  ASSUME [Next]_vars
  PROVE  image' = image /\ eh_frame' = eh_frame
BY DEF Next, CoreStep, Running, Unwinding, Stopping, Spinning, StartTask, Own, BoxNew,
       BoxReturned, Mark, Call, ScopeEnd, Return, Panic, Raise, SearchFinds, PassFrame,
       EnterPad, PadDrop, Resume, Land, PanicStops, OutOfMemory, NoLandingPad, MainDone,
       TaskRunReturns, InspectCatch, Conclude, build, vars

(* main of main.rs reaches its last loop after the last task only. *)
TaskEnd ==
  image = "task_run" =>
    /\ mode # "caught"
    /\ mode = "spin" => ~eh_frame \/ (started = TaskRuns /\ Live = {})

(* main_with_unwinding.rs: run_demo holds its marker from its third        *)
(* instruction on and always panics, so what comes back is Err.            *)
DemoEnd ==
  image = "with_unwinding" =>
    /\ mode = "main" => started = 0
    /\ mode \in {"run", "box", "raise", "search"} =>
         /\ task = <<run_demo>>
         /\ Len(frames) = 1 /\ Top.fn = 1 /\ Top.ip \in 1 .. 4
         /\ Top.ip > 2 => Top.owned # <<>>
         /\ mode = "box" => Top.ip = 3
         /\ mode \in {"raise", "search"} => Top.ip = 4
    /\ mode \in {"unwind", "pad", "returned", "caught"} => eh_frame
    /\ mode \in {"returned", "caught"} => result = "Err"
    /\ mode = "caught" => PANIC_CAUGHT
    /\ mode = "spin" =>
         IF eh_frame THEN DEMO_UNWIND_STATE = 4 /\ Live = {}
                     ELSE DEMO_UNWIND_STATE = 105 /\ Live # {}

(* main_simple.rs never gets as far as unwinding. *)
SimpleEnd ==
  image = "simple" =>
    /\ mode = "main" => started = 0
    /\ mode \in {"main", "run", "spin"}
    /\ mode = "run" =>
         /\ task = <<simple_main>>
         /\ Len(frames) = 1 /\ Top.fn = 1 /\ Top.ip \in 1 .. 3
         /\ Top.ip > 2 => Top.owned # <<>>
    /\ mode = "spin" => DEMO_UNWIND_STATE = 100 /\ Live # {}

(* The heap is used by BumpAllocator's rules, and the core is in the alloc *)
(* error handler only when its one caller of alloc is.                     *)
HeapP == INSTANCE BumpAllocator_proof WITH
           Callers <- {Core}, Layouts <- {BoxLayout, ExceptionLayout},
           pc <- allocPc

HeapInv == HeapP!AllocInv /\ (mode = "oom" => allocPc[Core] = "halted")

PanicInv ==
  /\ image \in {"task_run", "with_unwinding", "simple"}
  /\ StackInv /\ CountInv
  /\ TaskEnd /\ DemoEnd /\ SimpleEnd
  /\ HeapInv

(* Where run_demo of main_with_unwinding.rs is. *)
LEMMA DemoProgram ==
  ASSUME DemoEnd, image = "with_unwinding", mode = "run"
  PROVE  /\ ~AtEnd /\ ~At("call")
         /\ At("mark") => Top.ip = 1
         /\ At("own") => Top.ip = 2
         /\ At("box") => Top.ip = 3
         /\ At("panic") => Top.ip = 4
<1>1. task = <<run_demo>> /\ Top.fn = 1 /\ Top.ip \in 1 .. 4
  BY DEF DemoEnd
<1>2. Body = <<"mark", "own", "box", "panic">>
  BY <1>1 DEF Body, run_demo
<1>3. /\ Len(Body) = 4 /\ Body[1] = "mark" /\ Body[2] = "own" /\ Body[3] = "box"
      /\ Body[4] = "panic"
  BY <1>2
<1>4. ~AtEnd
  BY <1>1, <1>3 DEF AtEnd
<1>5. Top.ip \in {1, 2, 3, 4}
  BY <1>1
<1> QED BY <1>3, <1>4, <1>5 DEF At

(* And main of main_simple.rs. *)
LEMMA SimpleProgram ==
  ASSUME SimpleEnd, image = "simple", mode = "run"
  PROVE  /\ ~AtEnd /\ ~At("call") /\ ~At("box")
         /\ At("mark") => Top.ip = 1
         /\ At("own") => Top.ip = 2
         /\ At("panic") => Top.ip = 3
<1>1. task = <<simple_main>> /\ Top.fn = 1 /\ Top.ip \in 1 .. 3
  BY DEF SimpleEnd
<1>2. Body = <<"mark", "own", "panic">>
  BY <1>1 DEF Body, simple_main
<1>3. Len(Body) = 3 /\ Body[1] = "mark" /\ Body[2] = "own" /\ Body[3] = "panic"
  BY <1>2
<1>4. ~AtEnd
  BY <1>1, <1>3 DEF AtEnd
<1>5. Top.ip \in {1, 2, 3}
  BY <1>1
<1> QED BY <1>3, <1>4, <1>5 DEF At

(* A stack whose innermost frame owns something has something live, and an *)
(* empty one has nothing.                                                  *)
LEMMA LiveOrNot ==
  ASSUME frames \in Seq(StackFrame)
  PROVE  /\ frames # <<>> /\ Top.owned # <<>> => Live # {}
         /\ frames = <<>> => Live = {}
<1>1. ASSUME frames # <<>>, Top.owned # <<>> PROVE Live # {}
  <2>1. 1 \in DOMAIN frames /\ Top = frames[1] /\ Top.owned \in Seq(Resource)
    BY <1>1, TopIsFrame
  <2>2. 1 \in DOMAIN Top.owned
    <3>1. Len(Top.owned) \in Nat \ {0} /\ DOMAIN Top.owned = 1 .. Len(Top.owned)
      BY <1>1, <2>1, EmptySeq, LenProperties
    <3> QED BY <3>1
  <2>3. Top.owned[1].id \in Owned(frames[1])
    BY <2>1, <2>2 DEF Owned
  <2> QED BY <2>1, <2>3, LiveIsOwned
<1>2. ASSUME frames = <<>> PROVE Live = {}
  BY <1>2 DEF Live
<1> QED BY <1>1, <1>2

(* Every step keeps TaskEnd. *)
LEMMA TaskEndStep ==
  ASSUME StackInv, TaskEnd, [Next]_vars
  PROVE  TaskEnd'
<1> SUFFICES ASSUME image = "task_run" PROVE TaskEnd'
  BY BuildStays DEF TaskEnd
<1>1. frames \in Seq(StackFrame)
  BY DEF StackInv, PanicTypeOK
<1>2. CASE StartTask \/ Own \/ BoxReturned \/ Mark \/ Call \/ ScopeEnd \/ Return
           \/ PassFrame \/ PadDrop \/ Resume
  <2>1. mode' \notin {"caught", "spin"}
    BY <1>2 DEF StartTask, Own, BoxReturned, Mark, Call, ScopeEnd, Return, PassFrame,
                PadDrop, Resume, At
  <2> QED BY <2>1 DEF TaskEnd
<1>3. CASE OffStack
  <2>1. UNCHANGED <<frames, started>> /\ Live' = Live
    BY <1>3, OffStackSame
  <2>2. CASE MainDone
    <3>1. Live = {} /\ started = TaskRuns
      BY <1>1, <2>2, LiveOrNot DEF MainDone, Runs, StackInv, StackShape
    <3> QED BY <2>1, <2>2, <3>1 DEF MainDone, TaskEnd
  <2>3. CASE NoLandingPad
    BY <2>3, BuildStays DEF NoLandingPad, TaskEnd
  <2>4. CASE BoxNew \/ OutOfMemory \/ PanicStops \/ Panic \/ Raise \/ SearchFinds
             \/ EnterPad \/ Land \/ TaskRunReturns \/ InspectCatch \/ Conclude
    <3>1. mode' \notin {"caught", "spin"}
      BY <2>4 DEF BoxNew, OutOfMemory, PanicStops, Panic, Raise, SearchFinds, EnterPad,
                  Land, TaskRunReturns, InspectCatch, Conclude, TaskEnd
    <3> QED BY <3>1 DEF TaskEnd
  <2>5. CASE UNCHANGED vars
    BY <2>1, <2>5, BuildStays DEF vars, TaskEnd
  <2> QED BY <1>3, <2>2, <2>3, <2>4, <2>5 DEF OffStack
<1> QED BY <1>2, <1>3, Cases

(* Every step keeps DemoEnd. *)
LEMMA DemoEndStep ==
  ASSUME StackInv, DemoEnd, [Next]_vars
  PROVE  DemoEnd'
<1> SUFFICES ASSUME image = "with_unwinding" PROVE DemoEnd'
  BY BuildStays DEF DemoEnd
<1>1. frames \in Seq(StackFrame) /\ PanicTypeOK /\ NewestFirst /\ StackShape
  BY DEF StackInv, PanicTypeOK
<1>2. image' = image /\ eh_frame' = eh_frame
  BY BuildStays
<1>3. CASE StartTask
  <2>1. task' = <<run_demo>> /\ frames = <<>> /\ frames' = <<Frame(1)>> /\ mode' = "run"
    BY <1>1, <1>3 DEF StartTask, Programs, StackShape
  <2>2. Len(frames') = 1 /\ Top'.fn = 1 /\ Top'.ip = 1
    BY <2>1, Begins
  <2> QED BY <2>1, <2>2 DEF DemoEnd
<1>4. CASE Own
  <2>1. mode = "run" /\ mode' = "run" /\ frames # <<>> /\ Keep("own") /\ task' = task
    BY <1>1, <1>4 DEF Own, At, StackShape
  <2>2. Top.ip = 2
    BY <1>4, <2>1, DemoProgram DEF Own
  <2>3. Len(frames') = Len(frames) /\ Top'.fn = Top.fn /\ Top'.ip = Top.ip + 1
        /\ Top'.owned # <<>>
    BY <1>1, <2>1, Keeps
  <2>4. Top'.ip = 3 /\ Len(frames') = 1 /\ Top'.fn = 1 /\ task' = <<run_demo>>
    BY <2>1, <2>2, <2>3 DEF DemoEnd
  <2> QED BY <2>1, <2>3, <2>4 DEF DemoEnd
<1>5. CASE BoxReturned
  <2>1. mode = "box" /\ mode' = "run" /\ frames # <<>> /\ Keep("box") /\ task' = task
    BY <1>1, <1>5 DEF BoxReturned, StackShape
  <2>2. Len(frames') = Len(frames) /\ Top'.fn = Top.fn /\ Top'.ip = Top.ip + 1
        /\ Top'.owned # <<>>
    BY <1>1, <2>1, Keeps
  <2>3. Top'.ip = 4 /\ Len(frames') = 1 /\ Top'.fn = 1 /\ task' = <<run_demo>>
    BY <2>1, <2>2 DEF DemoEnd
  <2> QED BY <2>1, <2>2, <2>3 DEF DemoEnd
<1>6. CASE Mark
  <2>1. mode = "run" /\ mode' = "run" /\ frames # <<>> /\ SetTop(Step(Top))
        /\ task' = task /\ made' = made
    BY <1>1, <1>6 DEF Mark, At, StackShape, taskVars
  <2>2. Top.ip = 1
    BY <1>6, <2>1, DemoProgram DEF Mark
  <2>3. Len(frames') = Len(frames) /\ Top'.fn = Top.fn /\ Top'.ip = Top.ip + 1
    BY <1>1, <2>1, Steps
  <2>4. Top'.ip = 2 /\ Len(frames') = 1 /\ Top'.fn = 1 /\ task' = <<run_demo>>
    BY <2>1, <2>2, <2>3 DEF DemoEnd
  <2> QED BY <2>1, <2>4 DEF DemoEnd
<1>7. CASE Call \/ ScopeEnd \/ Return
  BY <1>7, DemoProgram DEF Call, ScopeEnd, Return, At
<1>8. CASE PassFrame \/ PadDrop \/ Resume
  <2>1. mode \in {"unwind", "pad"} /\ mode' \in {"unwind", "pad"}
    BY <1>8 DEF PassFrame, PadDrop, Resume
  <2> QED BY <1>2, <2>1 DEF DemoEnd
<1>9. CASE OffStack
  <2>1. UNCHANGED <<frames, started>> /\ Live' = Live /\ Top' = Top
    BY <1>9, OffStackSame DEF Top
  <2>2. CASE BoxNew
    <3>1. mode = "run" /\ mode' = "box" /\ Top.ip = 3 /\ task' = task
      BY <2>2, DemoProgram DEF BoxNew, At, taskVars
    <3> QED BY <2>1, <3>1 DEF DemoEnd
  <2>3. CASE Panic
    <3>1. mode = "run" /\ mode' = "raise" /\ Top.ip = 4 /\ task' = task
      BY <2>3, DemoProgram DEF Panic, At, taskVars
    <3> QED BY <2>1, <3>1 DEF DemoEnd
  <2>4. CASE Raise
    BY <2>1, <2>4 DEF Raise, taskVars, DemoEnd
  <2>5. CASE SearchFinds \/ EnterPad
    BY <1>2, <2>5 DEF SearchFinds, EnterPad, DemoEnd
  <2>6. CASE NoLandingPad
    <3>1. Top.ip = 4 /\ Top.owned # <<>> /\ frames # <<>>
      BY <1>1, <2>6 DEF NoLandingPad, DemoEnd, StackShape
    <3>2. Live # {}
      BY <1>1, <3>1, LiveOrNot
    <3>3. mode' = "spin" /\ ~eh_frame /\ DEMO_UNWIND_STATE' = 105
      BY <2>6 DEF NoLandingPad
    <3> QED BY <1>2, <2>1, <3>2, <3>3 DEF DemoEnd
  <2>7. CASE Land
    BY <1>2, <2>7 DEF Land, DemoEnd
  <2>8. CASE InspectCatch
    BY <1>2, <2>8 DEF InspectCatch, DemoEnd, taskVars
  <2>9. CASE Conclude
    <3>1. frames = <<>> /\ mode = "caught" /\ mode' = "spin"
      BY <1>1, <2>9 DEF Conclude, StackShape
    <3>2. Live' = {}
      BY <1>1, <2>1, <3>1, LiveOrNot
    <3>3. eh_frame' /\ DEMO_UNWIND_STATE' = 4
      BY <1>2, <2>9, <3>1 DEF Conclude, DemoEnd
    <3> QED BY <3>1, <3>2, <3>3 DEF DemoEnd
  <2>10. CASE OutOfMemory
    BY <2>10 DEF OutOfMemory, DemoEnd
  <2>11. CASE PanicStops \/ TaskRunReturns \/ MainDone
    BY <2>11 DEF PanicStops, TaskRunReturns, MainDone, Runs, DemoEnd
  <2>12. CASE UNCHANGED vars
    BY <1>2, <2>1, <2>12 DEF vars, taskVars, stateVars, DemoEnd
  <2> QED BY <1>9, <2>2, <2>3, <2>4, <2>5, <2>6, <2>7, <2>8, <2>9, <2>10, <2>11, <2>12
          DEF OffStack
<1> QED BY <1>3, <1>4, <1>5, <1>6, <1>7, <1>8, <1>9, Cases

(* Every step keeps SimpleEnd. *)
LEMMA SimpleEndStep ==
  ASSUME StackInv, SimpleEnd, [Next]_vars
  PROVE  SimpleEnd'
<1> SUFFICES ASSUME image = "simple" PROVE SimpleEnd'
  BY BuildStays DEF SimpleEnd
<1>1. frames \in Seq(StackFrame) /\ PanicTypeOK /\ NewestFirst /\ StackShape
  BY DEF StackInv, PanicTypeOK
<1>2. CASE StartTask
  <2>1. task' = <<simple_main>> /\ frames = <<>> /\ frames' = <<Frame(1)>> /\ mode' = "run"
    BY <1>1, <1>2 DEF StartTask, Programs, StackShape
  <2>2. Len(frames') = 1 /\ Top'.fn = 1 /\ Top'.ip = 1
    BY <2>1, Begins
  <2> QED BY <2>1, <2>2 DEF SimpleEnd
<1>3. CASE Own
  <2>1. mode = "run" /\ mode' = "run" /\ frames # <<>> /\ Keep("own") /\ task' = task
    BY <1>1, <1>3 DEF Own, At, StackShape
  <2>2. Top.ip = 2
    BY <1>3, <2>1, SimpleProgram DEF Own
  <2>3. Len(frames') = Len(frames) /\ Top'.fn = Top.fn /\ Top'.ip = Top.ip + 1
        /\ Top'.owned # <<>>
    BY <1>1, <2>1, Keeps
  <2>4. Top'.ip = 3 /\ Len(frames') = 1 /\ Top'.fn = 1 /\ task' = <<simple_main>>
    BY <2>1, <2>2, <2>3 DEF SimpleEnd
  <2> QED BY <2>1, <2>3, <2>4 DEF SimpleEnd
<1>4. CASE Mark
  <2>1. mode = "run" /\ mode' = "run" /\ frames # <<>> /\ SetTop(Step(Top))
        /\ task' = task /\ made' = made
    BY <1>1, <1>4 DEF Mark, At, StackShape, taskVars
  <2>2. Top.ip = 1
    BY <1>4, <2>1, SimpleProgram DEF Mark
  <2>3. Len(frames') = Len(frames) /\ Top'.fn = Top.fn /\ Top'.ip = Top.ip + 1
    BY <1>1, <2>1, Steps
  <2>4. Top'.ip = 2 /\ Len(frames') = 1 /\ Top'.fn = 1 /\ task' = <<simple_main>>
    BY <2>1, <2>2, <2>3 DEF SimpleEnd
  <2> QED BY <2>1, <2>4 DEF SimpleEnd
<1>5. CASE BoxReturned \/ PassFrame \/ PadDrop \/ Resume
  BY <1>5 DEF BoxReturned, PassFrame, PadDrop, Resume, SimpleEnd
<1>6. CASE Call \/ ScopeEnd \/ Return
  BY <1>6, SimpleProgram DEF Call, ScopeEnd, Return, At
<1>7. CASE OffStack
  <2>1. UNCHANGED <<frames, started>> /\ Live' = Live /\ Top' = Top
    BY <1>7, OffStackSame DEF Top
  <2>2. CASE PanicStops
    <3>1. mode = "run" /\ Top.ip = 3 /\ frames # <<>>
      BY <1>1, <2>2, SimpleProgram DEF PanicStops, At, StackShape
    <3>2. Top.owned # <<>>
      BY <3>1 DEF SimpleEnd
    <3>3. Live # {}
      BY <1>1, <3>1, <3>2, LiveOrNot
    <3>4. mode' = "spin" /\ DEMO_UNWIND_STATE' = 100
      BY <2>2 DEF PanicStops
    <3> QED BY <2>1, <3>3, <3>4 DEF SimpleEnd
  <2>3. CASE BoxNew
    BY <2>3, SimpleProgram DEF BoxNew, At
  <2>4. CASE OutOfMemory \/ Raise \/ SearchFinds \/ NoLandingPad \/ EnterPad \/ Land
             \/ Conclude
    BY <2>4 DEF OutOfMemory, Raise, SearchFinds, NoLandingPad, EnterPad, Land, Conclude,
                SimpleEnd
  <2>5. CASE Panic \/ TaskRunReturns \/ InspectCatch \/ MainDone
    BY <2>5 DEF Panic, TaskRunReturns, InspectCatch, MainDone, Runs, SimpleEnd
  <2>6. CASE UNCHANGED vars
    BY <2>1, <2>6 DEF vars, taskVars, stateVars, SimpleEnd
  <2> QED BY <1>7, <2>2, <2>3, <2>4, <2>5, <2>6 DEF OffStack
<1> QED BY <1>2, <1>3, <1>4, <1>5, <1>6, <1>7, Cases

-----------------------------------------------------------------------------
(* Both names of the allocator's specification mean the same. *)
LEMMA SameAllocator ==
  /\ Heap!Init <=> HeapP!Init
  /\ [Heap!Next]_heapVars <=> [HeapP!Next]_(HeapP!vars)
  /\ [Heap!Next]_heapVars <=> [Heap!Next]_(Heap!vars)
<1>1. Heap!Init <=> HeapP!Init
  BY DEF Heap!Init, HeapP!Init
<1>2. /\ UNCHANGED heapVars <=> UNCHANGED HeapP!vars
      /\ UNCHANGED heapVars <=> UNCHANGED Heap!vars
  BY DEF Heap!vars, HeapP!vars, heapVars
<1>3. Heap!Next <=> HeapP!Next
  BY DEF Heap!Next, HeapP!Next, Heap!AllocCall, HeapP!AllocCall, Heap!AllocStep,
         HeapP!AllocStep, Heap!AllHalted, HeapP!AllHalted, Heap!AllocTake,
         HeapP!AllocTake, Heap!AllocRetry, HeapP!AllocRetry, Heap!AllocFail,
         HeapP!AllocFail, Heap!Block, HeapP!Block, Heap!Fits, HeapP!Fits,
         Heap!BlockEnd, HeapP!BlockEnd, Heap!AlignUp, HeapP!AlignUp, Heap!vars,
         HeapP!vars, Heap!Past, HeapP!Past
<1> QED BY <1>1, <1>2, <1>3

(* A step of the core is a step of its allocator, or none. *)
LEMMA CoreAllocates ==
  ASSUME [Next]_vars
  PROVE  [Heap!Next]_heapVars
<1>1. CASE BoxNew \/ Panic
  <2>1. Heap!AllocCall(Core)
    BY <1>1 DEF BoxNew, Panic, Allocate
  <2> QED BY <2>1 DEF Heap!Next
<1>2. CASE BoxReturned \/ Raise
  <2>1. Heap!AllocTake(Core)
    BY <1>2 DEF BoxReturned, Raise
  <2> QED BY <2>1 DEF Heap!Next, Heap!AllocStep
<1>3. CASE OutOfMemory
  <2>1. Heap!AllocFail(Core)
    BY <1>3 DEF OutOfMemory
  <2> QED BY <2>1 DEF Heap!Next, Heap!AllocStep
<1>4. CASE ~(BoxNew \/ Panic \/ BoxReturned \/ Raise \/ OutOfMemory)
  <2>1. UNCHANGED heapVars
    BY <1>4
       DEF Next, CoreStep, Running, Unwinding, Stopping, Spinning, StartTask, Own,
           Mark, Call, ScopeEnd, Return, SearchFinds, PassFrame, EnterPad, PadDrop, Resume,
           Land, PanicStops, NoLandingPad, MainDone, TaskRunReturns, InspectCatch,
           Conclude, vars
  <2> QED BY <2>1
<1> QED BY <1>1, <1>2, <1>3, <1>4

(* The core's heap starts, and stays, in the allocator's invariant. *)
LEMMA HeapInvStep ==
  ASSUME HeapInv, [Next]_vars
  PROVE  HeapInv'
<1>1. HeapP!AllocInv /\ [HeapP!Next]_(HeapP!vars)
  BY CoreAllocates, SameAllocator DEF HeapInv
<1>2. HeapP!AllocInv'
  BY <1>1, HeapP!AllocInvStep, PanicHeapAssumption
<1>3. mode' = "oom" => allocPc'[Core] = "halted"
  <2>1. CASE OutOfMemory
    <3>1. allocPc \in [{Core} -> {"idle", "alloc", "halted"}]
      BY <1>1 DEF HeapP!AllocInv, HeapP!TypeOK
    <3>2. allocPc' = [allocPc EXCEPT ![Core] = "halted"]
      BY <2>1 DEF OutOfMemory, Heap!AllocFail
    <3> QED BY <3>1, <3>2
  <2>2. CASE UNCHANGED vars
    BY <2>2 DEF vars, heapVars, HeapInv
  <2>3. CASE CoreStep /\ ~OutOfMemory
    <3>1. mode' # "oom"
      BY <2>3
         DEF CoreStep, Running, Unwinding, Stopping, StartTask, Own, BoxNew, BoxReturned,
             Mark, Call, ScopeEnd, Return, Panic, Raise, SearchFinds, PassFrame, EnterPad,
             PadDrop, Resume, Land, PanicStops, NoLandingPad, MainDone, TaskRunReturns,
             InspectCatch, Conclude, At
    <3> QED BY <3>1
  <2> QED BY <2>1, <2>2, <2>3 DEF Next, Spinning
<1> QED BY <1>2, <1>3 DEF HeapInv

(* The invariant holds initially. *)
LEMMA PanicInvInit ==
  ASSUME Init
  PROVE  PanicInv
<1>1. frames = <<>> /\ mode = "main" /\ Pads = {} /\ Live = {}
  BY DEF Init, Pads, Live
<1>2. StackInv
  <2>1. frames \in Seq(StackFrame)
    BY <1>1, EmptySeq
  <2> QED BY <1>1, <2>1 DEF Init, StackInv, PanicTypeOK, Modes, StackShape, NewestFirst
<1>3. HeapInv
  <2>1. HeapP!Init
    BY SameAllocator DEF Init
  <2>2. HeapP!AllocInv
    BY <2>1, HeapP!AllocInvInit, PanicHeapAssumption
  <2> QED BY <1>1, <2>2 DEF HeapInv
<1> QED BY <1>1, <1>2, <1>3 DEF Init, PanicInv, CountInv, TaskEnd, DemoEnd, SimpleEnd

(* And every step keeps it. *)
LEMMA PanicInvStep ==
  ASSUME PanicInv, [Next]_vars
  PROVE  PanicInv'
BY StackStep, CountStep, TaskEndStep, DemoEndStep, SimpleEndStep, HeapInvStep, BuildStays
   DEF PanicInv

(* So it always holds. *)
LEMMA PanicInvAlways == Spec => []PanicInv
<1>1. PanicInv /\ [Next]_vars => PanicInv'
  BY PanicInvStep
<1>2. Init => PanicInv
  BY PanicInvInit
<1> QED BY <1>1, <1>2, PTL DEF Spec

-----------------------------------------------------------------------------
(* Whatever tasks main starts, how the core stopped tells what happened:   *)
(* the alloc error handler only when memory ran out, main's last loop only *)
(* with everything dropped, and the codes of the two variants.             *)
THEOREM PanicEndingIsTold == Spec => []EndingIsTold
<1>1. PanicInv => EndingIsTold
  <2> SUFFICES ASSUME PanicInv PROVE EndingIsTold
    OBVIOUS
  <2>1. mode = "oom" => ~Heap!Fits(next, req[Core])
    <3> SUFFICES ASSUME mode = "oom" PROVE ~Heap!Fits(next, req[Core])
      OBVIOUS
    <3>1. allocPc[Core] = "halted" /\ HeapP!FailureIsReal
      BY DEF PanicInv, HeapInv, HeapP!AllocInv
    <3>2. ~HeapP!Fits(next, req[Core])
      BY <3>1 DEF HeapP!FailureIsReal
    <3> QED BY <3>2 DEF HeapP!Fits, HeapP!BlockEnd, HeapP!AlignUp,
                        Heap!Fits, Heap!BlockEnd, Heap!AlignUp
  <2>2. ASSUME mode = "spin"
        PROVE  CASE image = "task_run" -> ~eh_frame \/ (started = TaskRuns /\ Live = {})
                 [] image = "with_unwinding" ->
                      IF eh_frame THEN DEMO_UNWIND_STATE = 4 /\ Live = {}
                                  ELSE DEMO_UNWIND_STATE = 105 /\ Live # {}
                 [] image = "simple" -> DEMO_UNWIND_STATE = 100 /\ Live # {}
    BY <2>2 DEF PanicInv, TaskEnd, DemoEnd, SimpleEnd
  <2> QED BY <2>1, <2>2 DEF EndingIsTold
<1> QED BY <1>1, PanicInvAlways, PTL

(* _Unwind_Resume is called once for each frame that had something to drop *)
(* when the task panicked, at any depth of the stack.                      *)
THEOREM PanicResumesOnce == Spec => []ResumedOncePerFrame
<1>1. PanicInv => ResumedOncePerFrame
  BY DEF PanicInv, CountInv, ResumedOncePerFrame
<1> QED BY <1>1, PanicInvAlways, PTL

(* Whatever panics, the core asks its allocator for memory as the          *)
(* allocator's specification allows, with one caller.                      *)
THEOREM PanicUsesAllocator == Spec => Heap!Spec
<1>1. Init => Heap!Init
  BY DEF Init
<1>2. [Next]_vars => [Heap!Next]_(Heap!vars)
  BY CoreAllocates, SameAllocator
<1> QED BY <1>1, <1>2, PTL DEF Spec, Heap!Spec

-----------------------------------------------------------------------------
(* The modes in which a task is running. *)
Busy == Modes \ {"main", "spin", "oom"}

(* The steps of a task runner, as steps of the core. *)
LEMMA RunnerMoves ==
  /\ mode \in Busy /\ mode' \in Busy /\ Live' = Live => UNCHANGED Runner!vars
  /\ mode = "main" /\ mode' \in Busy /\ Live' = Live => Runner!Next
  /\ mode \in Busy \cup {"main"} /\ mode' \in {"spin", "oom"} /\ Live' = Live => Runner!Next
  /\ mode \in Busy /\ mode' = "main" /\ Live = {} /\ Live' = Live => Runner!Next
  /\ mode \in Busy /\ mode' \in Busy /\ Runner!Acquire => Runner!Next
  /\ mode \in Busy /\ mode' \in Busy /\ Runner!Release => Runner!Next
<1> USE DEF Busy, Modes
<1>1. mode \in Busy /\ mode' \in Busy /\ Live' = Live => UNCHANGED Runner!vars
  BY DEF Runner!vars
<1>2. mode = "main" /\ mode' \in Busy /\ Live' = Live => Runner!Next
  BY DEF Runner!Next, Runner!Start
<1>3. mode \in Busy \cup {"main"} /\ mode' \in {"spin", "oom"} /\ Live' = Live => Runner!Next
  BY DEF Runner!Next, Runner!Stop
<1>4. mode \in Busy /\ mode' = "main" /\ Live = {} /\ Live' = Live => Runner!Next
  BY DEF Runner!Next, Runner!Finish
<1>5. mode \in Busy /\ mode' \in Busy /\ Runner!Acquire => Runner!Next
  BY DEF Runner!Next
<1>6. mode \in Busy /\ mode' \in Busy /\ Runner!Release => Runner!Next
  BY DEF Runner!Next
<1> QED BY <1>1, <1>2, <1>3, <1>4, <1>5, <1>6

(* A resource made is acquired, a resource dropped is released. *)
LEMMA RunnerResources ==
  ASSUME mode \in Busy, mode' \in Busy
  PROVE  /\ (\E r : r \notin Live /\ (\A s \in Live : s < r) /\ Live' = Live \cup {r})
              => Runner!Acquire
         /\ (\E r \in Live : (\A s \in Live : s <= r) /\ Live' = Live \ {r})
              => Runner!Release
<1> USE DEF Busy, Modes
<1>1. ASSUME NEW r, r \notin Live, \A s \in Live : s < r, Live' = Live \cup {r}
      PROVE  Runner!Acquire
  <2>1. r \in Live' \ Live
    BY <1>1
  <2> QED BY <1>1, <2>1 DEF Runner!Acquire
<1>2. ASSUME NEW r \in Live, \A s \in Live : s <= r, Live' = Live \ {r}
      PROVE  Runner!Release
  BY <1>2 DEF Runner!Release
<1> QED BY <1>1, <1>2

(* Every step of the core is a step of a task runner, or none. *)
LEMMA RunnerStep ==
  ASSUME PanicInv, [Next]_vars
  PROVE  [Runner!Next]_(Runner!vars)
<1>1. PanicTypeOK /\ StackShape /\ NewestFirst /\ frames \in Seq(StackFrame)
  BY DEF PanicInv, StackInv, PanicTypeOK
<1>2. CASE StartTask
  <2>1. frames = <<>> /\ frames' = <<Frame(1)>> /\ mode = "main" /\ mode' = "run"
    BY <1>1, <1>2 DEF StartTask, StackShape
  <2>2. Live' = Live
    BY <2>1, Begins
  <2> QED BY <2>1, <2>2, RunnerMoves DEF Busy, Modes
<1>3. CASE Own \/ BoxReturned
  <2>1. PICK kind \in {"own", "box"} : Keep(kind)
    BY <1>3 DEF Own, BoxReturned
  <2>2. mode \in {"run", "box"} /\ mode' = "run" /\ frames # <<>>
    BY <1>1, <1>3 DEF Own, BoxReturned, At, StackShape
  <2>3. made + 1 \notin Live /\ (\A s \in Live : s < made + 1) /\ Live' = Live \cup {made + 1}
    BY <1>1, <2>1, <2>2, Keeps
  <2>4. mode \in Busy /\ mode' \in Busy
    BY <2>2 DEF Busy, Modes
  <2>5. Runner!Acquire
    BY <2>3, <2>4, RunnerResources
  <2> QED BY <2>4, <2>5, RunnerMoves
<1>4. CASE ScopeEnd \/ PadDrop
  <2>1. frames # <<>> /\ DropNewest /\ made' = made /\ mode \in {"run", "pad"} /\ mode' = mode
    BY <1>1, <1>4 DEF ScopeEnd, PadDrop, taskVars, StackShape
  <2>2. /\ Head(Top.owned).id \in Live
        /\ \A s \in Live : s <= Head(Top.owned).id
        /\ Live' = Live \ {Head(Top.owned).id}
    BY <1>1, <2>1, Drops
  <2>3. mode \in Busy /\ mode' \in Busy
    BY <2>1 DEF Busy, Modes
  <2>4. Runner!Release
    BY <2>2, <2>3, RunnerResources
  <2> QED BY <2>3, <2>4, RunnerMoves
<1>5. CASE Mark
  <2>1. mode = "run" /\ mode' = "run" /\ frames # <<>> /\ SetTop(Step(Top)) /\ made' = made
    BY <1>1, <1>5 DEF Mark, At, StackShape, taskVars
  <2>2. Live' = Live
    BY <1>1, <2>1, Steps
  <2> QED BY <2>1, <2>2, RunnerMoves DEF Busy, Modes
<1>6. CASE Call
  <2>1. /\ mode = "run" /\ mode' = "run" /\ frames # <<>> /\ made' = made
        /\ frames' = <<Frame(Top.fn + 1), Step(Top)>> \o Tail(frames)
    BY <1>1, <1>6 DEF Call, At, StackShape, taskVars
  <2>2. Live' = Live
    BY <1>1, <2>1, Pushes
  <2> QED BY <2>1, <2>2, RunnerMoves DEF Busy, Modes
<1>7. CASE Return \/ PassFrame \/ Resume
  <2>1. /\ frames # <<>> /\ Top.owned = <<>> /\ made' = made /\ frames' = Tail(frames)
        /\ mode \in {"run", "unwind", "pad"} /\ mode' \in {"run", "unwind", "returned"}
    BY <1>1, <1>7 DEF Return, PassFrame, Resume, taskVars, StackShape
  <2>2. Live' = Live
    BY <1>1, <2>1, Pops
  <2> QED BY <2>1, <2>2, RunnerMoves DEF Busy, Modes
<1>8. CASE OffStack
  <2>1. Live' = Live
    BY <1>8, OffStackSame
  <2>2. CASE BoxNew \/ Panic \/ Raise \/ SearchFinds \/ EnterPad \/ Land \/ InspectCatch
    <3>1. mode \in Busy /\ mode' \in Busy
      BY <2>2 DEF BoxNew, Panic, Raise, SearchFinds, EnterPad, Land, InspectCatch, At,
                  Busy, Modes
    <3> QED BY <2>1, <3>1, RunnerMoves
  <2>3. CASE OutOfMemory \/ PanicStops \/ NoLandingPad \/ Conclude \/ MainDone
    <3>1. mode \in Busy \cup {"main"} /\ mode' \in {"spin", "oom"}
      BY <2>3 DEF OutOfMemory, PanicStops, NoLandingPad, Conclude, MainDone, At,
                  Busy, Modes
    <3> QED BY <2>1, <3>1, RunnerMoves
  <2>4. CASE TaskRunReturns
    <3>1. mode \in Busy /\ mode' = "main" /\ Live = {}
      BY <1>1, <2>4, LiveOrNot DEF TaskRunReturns, StackShape, Busy, Modes
    <3> QED BY <2>1, <3>1, RunnerMoves
  <2>5. CASE UNCHANGED vars
    BY <2>1, <2>5 DEF vars, Runner!vars
  <2> QED BY <1>8, <2>2, <2>3, <2>4, <2>5 DEF OffStack
<1> QED BY <1>2, <1>3, <1>4, <1>5, <1>6, <1>7, <1>8, Cases

(* Recovery keeps what task_run promises to main: resources are dropped    *)
(* one by one, newest first across all frames, each once, and main goes on *)
(* only when nothing of the task is left, wherever the task panicked.      *)
THEOREM PanicImplementsTaskRunner == Spec => ImplementsTaskRunner
<1>1. Init => Runner!Init
  <2> SUFFICES ASSUME Init PROVE Runner!Init
    OBVIOUS
  <2>1. mode = "main" /\ Live = {}
    BY DEF Init, Live
  <2> QED BY <2>1 DEF Runner!Init
<1>2. PanicInv /\ [Next]_vars => [Runner!Next]_(Runner!vars)
  BY RunnerStep
<1> QED BY <1>1, <1>2, PanicInvAlways, PTL DEF Spec, ImplementsTaskRunner, Runner!Spec

=============================================================================

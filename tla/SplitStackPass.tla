--------------------------- MODULE SplitStackPass ---------------------------
(***************************************************************************)
(* The rewriting done by pass/SplitStackPass.cpp                           *)
(* (aarch64-split-stack-plugin): every function of an LLVM module that is  *)
(* not skipped gets a stack check at its entry and one after each alloca   *)
(* that is not static.  What the inserted code does when it runs is        *)
(* SplitStack; this module says where it is.                               *)
(*                                                                         *)
(* A block is its instructions and its successors; the terminator is what  *)
(* leads to them, and a block without successors returns.  Blocks are      *)
(* numbered, the entry block is 1.  Instructions of the source have ids in *)
(* the order of the text; what the pass inserts has id 0.  "check" stands  *)
(* for read_register, load, sub and icmp.                                  *)
(***************************************************************************)
EXTENDS Naturals, Sequences

CONSTANTS Modules,        \* the modules the pass may be given
          Names,          \* what functions may be called
          PassRuns        \* times it is run over the same module

VARIABLES source,         \* the module before the pass
          functions,      \* Module: its functions, in order
          passes,         \* complete runs of the pass
          f,              \* the loop of run: function number
          DynAllocas      \* local of instrumentFunction: ids still to handle

vars == <<source, functions, passes, f, DynAllocas>>

(* A name is cut behind the prefixes that shouldSkip looks for:            *)
(* <<"__morestack", "_overflow">> is __morestack_overflow, and a name with *)
(* neither prefix is in one piece.                                         *)
StartsWith(name, prefix) == name # <<>> /\ Head(name) = prefix

MorestackName == <<"__morestack">>

(* attrs: what shouldSkip asks, but for the name *)
shouldSkip(fun) ==
  \/ fun.attrs \cap {"declaration", "no-split-stack", "naked"} # {}
  \/ StartsWith(fun.name, "__morestack")
  \/ StartsWith(fun.name, "__split_stack")
  \/ fun.name = <<"__hopter_stklet_bound">>

Check == [op |-> "check", id |-> 0]
CallMorestack == [op |-> "__morestack", id |-> 0]

Allocas == {"alloca", "vla"}  \* of constant size, of a size known at run time

-----------------------------------------------------------------------------
(* BasicBlock::splitBasicBlock before instruction k of block b: the rest   *)
(* goes into a new block, to which b now branches.                         *)
Fresh(body) == Len(body) + 1

Split(body, b, k) ==
  Append([body EXCEPT ![b] = [ins |-> SubSeq(body[b].ins, 1, k - 1),
                              succ |-> {Fresh(body)}]],
         [ins |-> SubSeq(body[b].ins, k, Len(body[b].ins)), succ |-> body[b].succ])

(* A mutant. *)
AddCheckNoReturn(body, b, cont) ==      \* MB.CreateBr(Cont) is missing
  Append([body EXCEPT ![b] = [ins |-> Append(@.ins, Check),
                              succ |-> {cont, Fresh(body)}]],
         [ins |-> <<CallMorestack>>, succ |-> {}])

(* The terminator of b, a branch to cont, becomes the check: on to cont    *)
(* when there is room, else to a new block that calls __morestack first.   *)
AddCheck(body, b, cont) ==
  Append([body EXCEPT ![b] = [ins |-> Append(@.ins, Check),
                              succ |-> {cont, Fresh(body)}]],
         [ins |-> <<CallMorestack>>, succ |-> {cont}])

(* AllocaInst::isStaticAlloca: constant size, and in the entry block *)
isStaticAlloca(body, b, k) == body[b].ins[k].op = "alloca" /\ b = 1

Places(body) == UNION {{b} \X DOMAIN body[b].ins : b \in DOMAIN body}

(* A mutant. *)
NotStaticVla(body) ==         \* the allocas of constant size are forgotten
  {body[p[1]].ins[p[2]].id : p \in {q \in Places(body) : body[q[1]].ins[q[2]].op = "vla"}}

(* The allocas to be checked, by id; the pass keeps pointers to them. *)
NotStatic(body) ==
  {body[p[1]].ins[p[2]].id : p \in {q \in Places(body) :
      /\ body[q[1]].ins[q[2]].op \in Allocas
      /\ ~isStaticAlloca(body, q[1], q[2])}}

(* getFirstInsertionPt of the entry block, which has no phi: its start *)
CheckEntry(body) == AddCheck(Split(body, 1, 1), 1, Fresh(body))

(* Split before the alloca and after it, and check between. *)
CheckAlloca(body, id) ==
  LET at == CHOOSE p \in Places(body) : body[p[1]].ins[p[2]].id = id
      before == Split(body, at[1], at[2])
      alone == Split(before, Fresh(body), 2)
  IN AddCheck(alone, Fresh(body), Fresh(before))

(* "other" is every instruction that is neither an alloca nor inserted;    *)
(* of the attributes of a function, those that are asked for or set.       *)
Instruction == [op : Allocas \cup {"other", "check", "__morestack"}, id : Nat]
Block == [ins : Seq(Instruction), succ : SUBSET Nat]
IRFunction ==
  [name : Names,
   attrs : SUBSET {"declaration", "no-split-stack", "naked", "split-stack-instrumented"},
   body : Seq(Block)]

(* What LLVM guarantees of a module: functions that are declared only have *)
(* no body, blocks lead to blocks of the same function, instructions are   *)
(* distinct.                                                               *)

Closed(body) == body \in Seq(Block) /\ \A b \in DOMAIN body : body[b].succ \subseteq DOMAIN body

Distinct(body) ==
  \A p, q \in Places(body) :
    LET id == body[p[1]].ins[p[2]].id
    IN id # 0 /\ id = body[q[1]].ins[q[2]].id => p = q

ASSUME NamesAssumption == Names \subseteq Seq(STRING) /\ MorestackName \in Names

ASSUME ModulesAssumption ==
  \A m \in Modules :
    /\ m \in Seq(IRFunction)
    /\ \A k \in DOMAIN m :
         /\ "declaration" \in m[k].attrs <=> m[k].body = <<>>
         /\ Closed(m[k].body) /\ Distinct(m[k].body)
         /\ \A p \in Places(m[k].body) : m[k].body[p[1]].ins[p[2]].id # 0

-----------------------------------------------------------------------------
Init ==
  /\ source \in Modules
  /\ functions = source
  /\ passes = 0
  /\ f = 1
  /\ DynAllocas = {}

InLoop == passes < PassRuns /\ f <= Len(functions) /\ DynAllocas = {}

Declaration(name) == [name |-> name, attrs |-> {"declaration"}, body |-> <<>>]

(* getOrInsertFunction appends a declaration unless there is a function of *)
(* that name; the loop of run comes to it later.                           *)
WithMorestack(fs) ==
  IF \E k \in DOMAIN fs : fs[k].name = MorestackName
  THEN fs ELSE Append(fs, Declaration(MorestackName))

(* instrumentFunction returns early. *)
Skip ==
  /\ InLoop /\ shouldSkip(functions[f])
  /\ f' = f + 1
  /\ UNCHANGED <<source, functions, passes, DynAllocas>>

(* instrumentFunction, to the collection of the allocas. *)
InstrumentEntry ==
  /\ InLoop /\ ~shouldSkip(functions[f])
  /\ LET body == CheckEntry(functions[f].body)
     IN /\ functions' = WithMorestack([functions EXCEPT ![f].body = body,
                          ![f].attrs = @ \cup {"split-stack-instrumented"}])
        /\ DynAllocas' = NotStatic(body)
        /\ f' = IF DynAllocas' = {} THEN f + 1 ELSE f
  /\ UNCHANGED <<source, passes>>

(* One turn of the loop over DynAllocas, which are in the order of the     *)
(* blocks.                                                                 *)
InstrumentAlloca ==
  /\ \E id \in DynAllocas :
       /\ \A later \in DynAllocas : id <= later
       /\ functions' = [functions EXCEPT ![f].body = CheckAlloca(@, id)]
       /\ DynAllocas' = DynAllocas \ {id}
  /\ f' = IF DynAllocas' = {} THEN f + 1 ELSE f
  /\ UNCHANGED <<source, passes>>

(* run returns; the pass may be in the pipeline again. *)
PassReturns ==
  /\ passes < PassRuns /\ f > Len(functions)
  /\ passes' = passes + 1
  /\ f' = 1
  /\ UNCHANGED <<source, functions, DynAllocas>>

Compiled == passes = PassRuns /\ UNCHANGED vars

Next == Skip \/ InstrumentEntry \/ InstrumentAlloca \/ PassReturns \/ Compiled

Spec == Init /\ [][Next]_vars

-----------------------------------------------------------------------------
(* The control flow between those instructions of a body that are not      *)
(* hidden: which may come next after which, with only hidden ones between. *)
Start == [op |-> "start", id |-> 0]
Exit == [op |-> "exit", id |-> 0]

(* where block b shows something, from its instruction k on *)
Shown(body, Hidden, b, k) ==
  {j \in DOMAIN body[b].ins : j >= k /\ body[b].ins[j] \notin Hidden}

Silent(body, Hidden, b) == Shown(body, Hidden, b, 1) = {}

Earliest(body, Hidden, b, k) ==
  body[b].ins[CHOOSE j \in Shown(body, Hidden, b, k) :
                \A l \in Shown(body, Hidden, b, k) : j <= l]

(* the blocks b leads to through silent ones, itself among them *)
Reach(body, Hidden, b) ==
  LET reach[n \in 0 .. Len(body)] ==
        IF n = 0 THEN {b}
        ELSE LET near == reach[n - 1]
             IN near \cup UNION {body[c].succ : c \in {d \in near : Silent(body, Hidden, d)}}
  IN reach[Len(body)]

(* what may come first from the beginning of each block on *)
First(body, Hidden) ==
  [b \in DOMAIN body |->
     {IF Silent(body, Hidden, c) THEN Exit ELSE Earliest(body, Hidden, c, 1) :
        c \in {d \in Reach(body, Hidden, b) : Silent(body, Hidden, d) => body[d].succ = {}}}]

(* ... and from instruction k of b on, when it is that for the blocks *)
From(body, Hidden, first, b, k) ==
  IF Shown(body, Hidden, b, k) # {} THEN {Earliest(body, Hidden, b, k)}
  ELSE IF body[b].succ = {} THEN {Exit} ELSE UNION {first[c] : c \in body[b].succ}

Flow(body, Hidden) ==
  LET first == First(body, Hidden)
  IN ({Start} \X first[1])
       \cup UNION {{body[p[1]].ins[p[2]]} \X From(body, Hidden, first, p[1], p[2] + 1) :
                    p \in {q \in Places(body) : body[q[1]].ins[q[2]] \notin Hidden}}

Inserted == {Check, CallMorestack}

Defined == {k \in DOMAIN source : source[k].body # <<>>}

(* The program does what it did: along every path, through any number of   *)
(* splits, the instructions of the source come in the order they had, in   *)
(* the middle of the rewriting, after it, and after a second run.          *)
FlowPreserved ==
  \A k \in Defined : Flow(functions[k].body, Inserted) = Flow(source[k].body, Inserted)

(* What SplitStack relies on: in a function the pass has done, the first   *)
(* thing is a check, and nothing but a check follows an alloca, be it a    *)
(* variable-length array, one in a loop, or one that the split has taken   *)
(* out of the entry block; also when the pass has run before.              *)
StackMovesChecked ==
  \A k \in Defined : (k < f \/ passes > 0) /\ ~shouldSkip(source[k]) =>
    \A e \in Flow(functions[k].body, {}) :
      e[1] = Start \/ e[1].op \in Allocas => e[2] = Check

=============================================================================

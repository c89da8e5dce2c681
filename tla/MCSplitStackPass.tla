-------------------------- MODULE MCSplitStackPass --------------------------
(* SplitStackPass on every module of one function with two blocks of up to  *)
(* two instructions each, the second of which may be reached and may loop;  *)
(* and on one module that also holds functions the pass leaves alone.       *)
EXTENDS SplitStackPass, SequencesExt

Ops == {"alloca", "vla", "other"}

(* The operations as instructions with ids from n on. *)
Numbered(ops, n) == [k \in DOMAIN ops |-> [op |-> ops[k], id |-> n + k]]

Bodies ==
  {<<[ins |-> Numbered(a, 0), succ |-> s], [ins |-> Numbered(b, Len(a)), succ |-> t]>> :
     a \in SeqOf(Ops, 2), b \in SeqOf(Ops, 2), s \in {{}, {2}}, t \in {{}, {2}}}

Function(name, attrs, body) == [name |-> name, attrs |-> attrs, body |-> body]

Sample == <<[ins |-> Numbered(<<"alloca", "other">>, 0), succ |-> {2}],
            [ins |-> <<>>, succ |-> {}]>>

MCNames ==
  {<<"user">>, <<"user2">>, <<"printf">>, <<"handler">>, <<"vector">>,
   <<"__hopter_stklet_bound">>, <<"__hopter_stklet_bound", "_get">>,
   <<"__morestack">>, <<"__morestack", "_overflow">>, <<"__split_stack", "_ctor">>}

MCModules ==
  {<<Function(<<"user">>, {}, b)>> : b \in Bodies}
    \cup {<<Function(<<"printf">>, {"declaration"}, <<>>), Function(<<"user">>, {}, Sample),
            Function(<<"handler">>, {"no-split-stack"}, Sample),
            Function(<<"vector">>, {"naked"}, Sample), Function(<<"user2">>, {}, Sample)>>,
          <<Function(<<"__morestack", "_overflow">>, {}, Sample),
            Function(<<"__hopter_stklet_bound", "_get">>, {}, Sample),
            Function(<<"__morestack">>, {}, Sample),
            Function(<<"__split_stack", "_ctor">>, {}, Sample)>>}

=============================================================================

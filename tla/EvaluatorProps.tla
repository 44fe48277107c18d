---------------------------- MODULE EvaluatorProps --------------------------
(***************************************************************************)
(* What an evaluation must satisfy in every state.                         *)
(***************************************************************************)
EXTENDS Evaluator

CONSTANT Meaning(_, _)    \* the value of a term in a context, by recursion

(* Calls interpreted so far, in order: a history that only the properties  *)
(* see.                                                                    *)
VARIABLE interpreted

HInit == Init /\ interpreted = <<>>

HNext == /\ Next
         /\ interpreted' = IF Called /\ args \notin DOMAIN evalTrie
                           THEN Append(interpreted, args)
                           ELSE interpreted

HSpec == HInit /\ [][HNext]_<<vars, interpreted>> /\ WF_vars(Next)

-----------------------------------------------------------------------------
(* Evaluation by recursion.  It has no stack, no cache and no shortcut.    *)

KidMeaning(t, ctx, i) == Meaning(Kids(t)[i], ctx)

KidMeanings(t, ctx) == [i \in 1 .. Len(Kids(t)) |-> KidMeaning(t, ctx, i)]

(* The condition of an if-then-else is known.                              *)
Decided(t, ctx) == Kind(t) = "ite" /\ Kind(KidMeaning(t, ctx, 1)) = "bool"

Chosen(t, ctx) == IF KidMeaning(t, ctx, 1) = True THEN 2 ELSE 3

IsAtom(t) == IsParam(t) \/ Malformed(t)

Calls(t, ctx) == ~IsAtom(t) /\ ~Decided(t, ctx) /\ IsCall(t, KidMeanings(t, ctx))

(* The answer of a call: the value of the case chosen, if there is one.    *)
Answer(ts) == LET r == Interpret(ts)
              IN  IF r.body = Null THEN Null ELSE Meaning(r.body, r.ctx)

(* The evaluations that the value of a term is made of.                    *)
Needs(t, ctx) ==
    LET kids == IF IsAtom(t) THEN {}
                ELSE IF Decided(t, ctx) THEN {1, Chosen(t, ctx)}
                ELSE 1 .. Len(Kids(t))
        cases == IF Calls(t, ctx)
                 THEN {r \in {Interpret(KidMeanings(t, ctx))} : r.body # Null}
                 ELSE {}
    IN  {<<Kids(t)[i], ctx>> : i \in kids} \cup {<<r.body, r.ctx>> : r \in cases}

(* How it is made of them.                                                 *)
Composed(t, ctx) ==
    CASE IsParam(t) -> IF t \in DOMAIN ctx THEN ctx[t] ELSE t
      [] Malformed(t) -> t
      [] ~IsAtom(t) /\ Decided(t, ctx) -> KidMeaning(t, ctx, Chosen(t, ctx))
      [] OTHER ->
            LET ts == KidMeanings(t, ctx)
            IN  IF Calls(t, ctx) THEN Or(Answer(ts), Make(t, ts))
                ELSE IF Kind(t) \in LiteralOps \ {"ite"}
                THEN Or(LiteralOp(Kind(t), ts), Make(t, ts))
                ELSE Make(t, ts)

(* Meaning is evaluation by recursion on a set of evaluations, each a term *)
(* and a context, and the set has the evaluations that those in it need.   *)
IsEvaluation(evaluations) ==
    \A e \in evaluations :
        LET t == e[1]
            ctx == e[2]
        IN  /\ Meaning(t, ctx) \in Terms
            /\ Meaning(t, ctx) = Composed(t, ctx)
            /\ Needs(t, ctx) \subseteq evaluations

(* The recursion ends: what an evaluation needs is of lower rank.          *)
IsRank(rank) ==
    /\ rank \in [DOMAIN rank -> Nat]
    /\ \A e \in DOMAIN rank : \A d \in Needs(e[1], e[2]) : rank[d] < rank[e]

(* The flags that are computed with a term (computeFlags): a term that can *)
(* not evaluate is made of such terms, and one without parameters of such. *)
FlagsRight(t) ==
    /\ IsGround(t) => ~IsParam(t) /\ \A i \in 1 .. Len(Kids(t)) : IsGround(Kids(t)[i])
    /\ ~IsEvaluatable(t) =>
          /\ Kind(t) \notin LiteralOps \cup {"ite"}
          /\ ~IsCall(t, Kids(t))
          /\ \A i \in 1 .. Len(Kids(t)) : ~IsEvaluatable(Kids(t)[i])

(* No literal operator is an application (isLiteralOp).                    *)
KindsApart == LiteralOps \cap {"apply", "apply_opaque"} = {}

(* The terms evaluated are as mkExprInternal and computeFlags make them.   *)
SoundTerms(evaluations) ==
    /\ KindsApart
    /\ \A e \in evaluations : FlagsRight(e[1]) /\ Make(e[1], Kids(e[1])) = e[1]

(* A case whose body leaves nothing to substitute leaves nothing to        *)
(* evaluate either.                                                        *)
IsFinal(r) == r.body # Null /\ ShortCircuits(r) => ~IsEvaluatable(r.body)

FinalCases(evaluations) ==
    \A e \in evaluations : Calls(e[1], e[2]) => IsFinal(Interpret(KidMeanings(e[1], e[2])))

-----------------------------------------------------------------------------

IsCtx(c) == DOMAIN c \subseteq Terms /\ c \in [DOMAIN c -> Terms]

IsFrame(f) ==
    /\ f = [init |-> f.init, ctx |-> f.ctx, visited |-> f.visited, visit |-> f.visit,
            call |-> f.call]
    /\ f.init \in Terms
    /\ IsCtx(f.ctx)
    /\ DOMAIN f.visited \subseteq Terms
    /\ f.visited \in [DOMAIN f.visited -> Terms \cup {Null}]
    /\ f.visit \in Seq(Terms)
    /\ f.call \in Seq(Terms)

(* Types.  No null pointer gets into a term that is made, into what the    *)
(* trie is searched for or into what is kept.                              *)
TypeOK ==
    /\ input.term \in Terms /\ IsCtx(input.ctx)
    /\ estack \in Seq(ElementsOf(estack))
    /\ \A i \in DOMAIN estack : IsFrame(estack[i])
    /\ evalTrie \in [DOMAIN evalTrie -> Terms \cup {Null}]
    /\ DOMAIN evalTrie \subseteq Seq(Terms)
    /\ keep \subseteq Terms
    /\ result \in Terms \cup {Null}

(* Frame f waits for frame g to answer the call at the top of its stack.   *)
Awaits(f, g) ==
    LET t == LastOf(f.visit)
    IN  /\ f.visit # <<>>
        /\ t \in DOMAIN f.visited /\ f.visited[t] = Null
        /\ g.call = ArgsIn(f, t)
        /\ IsCall(t, g.call)
        /\ g.init = Interpret(g.call).body
        /\ g.ctx = Interpret(g.call).ctx

(* Each frame but the first evaluates the case chosen for a call, and that *)
(* call is what the frame below waits for: the term at the top of its      *)
(* stack, with the values its children have there.                         *)
FramesAligned ==
    \A i \in 1 .. Len(estack) - 1 : Awaits(estack[i], estack[i + 1])

(* The trie searches by address and stores addresses.  What its paths are  *)
(* made of is kept, and so is each answer, but those that the case of a    *)
(* program or the command of an oracle gave at once.                       *)
TrieKept ==
    /\ \A k \in DOMAIN evalTrie :
          /\ ElementsOf(k) \subseteq keep
          /\ evalTrie[k] \in keep \/ evalTrie[k] = Interpret(k).body
    /\ \A i \in 2 .. Len(estack) : ElementsOf(estack[i].call) \subseteq keep

(* "This is required to ensure that programs that traverse terms           *)
(* recursively preform a dag traversal" (type_checker.cpp): no call is     *)
(* interpreted twice in an evaluation, also not one without an answer.     *)
InterpretedOnce ==
    \A i, j \in DOMAIN interpreted : interpreted[i] = interpreted[j] => i = j

(* "The program evaluates in one step to the returned term, and is equal   *)
(* to the result of evaluating that expression in the context newCtx"      *)
(* (type_checker.h): the value returned is that of evaluation by recursion.*)
ResultRight == estack = <<>> => result = Meaning(input.term, input.ctx)

(* The call at hand is being answered already: its value needs itself.     *)
SelfCall == Called /\ \E i \in DOMAIN estack : estack[i].call = args

(* The loop ends, where evaluation by recursion does.                      *)
Terminates == <>(estack = <<>>)

=============================================================================

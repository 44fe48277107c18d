----------------------------- MODULE MCEvaluator ----------------------------
(***************************************************************************)
(* Small signatures, with calls that share arguments, programs that stop   *)
(* their recursion by an if-then-else, stuck conditions, higher-order      *)
(* arguments, and the evaluation by recursion that results are compared to.*)
(***************************************************************************)
EXTENDS EvalTerms, EvaluatorProps, FiniteSetsExt

-----------------------------------------------------------------------------
(* Symbols *)

z == Leaf("const", "z")
s == Leaf("const", "s")
pair == Leaf("const", "pair")
x == Leaf("param", "x")
y == Leaf("param", "y")
fib == Leaf("program", "fib")
mem == Leaf("program", "mem")
pred == Leaf("program", "pred")
same == Leaf("program", "same")
flip == Leaf("program", "flip")
orc == Leaf("oracle", "orc")

Call(f, ts) == Node("apply", <<f>> \o ts)
Succ(t) == Node("apply", <<s, t>>)
Pair(t, u) == Node("apply", << Node("apply", <<pair, t>>), u >>)
Ite(c, t, u) == Node("ite", <<c, t, u>>)
IsEq(t, u) == Node("is_eq", <<t, u>>)
Requires(t, u, v) == Node("requires", <<t, u, v>>)

Case(f, ts, body) == [args |-> <<f>> \o ts, body |-> body]

(* fib makes a call that its own calls make again; mem must not evaluate   *)
(* its last branch when it is at zero; same needs both arguments equal.    *)
MCPrograms ==
    [f \in {fib, mem, pred, same} |->
        CASE f = fib -> << Case(fib, <<Succ(Succ(x))>>,
                                Pair(Call(fib, <<Succ(x)>>), Call(fib, <<x>>))),
                           Case(fib, <<x>>, x) >>
          [] f = mem -> << Case(mem, <<x, y>>,
                                Ite(IsEq(x, z),
                                    Call(same, <<x, y>>),
                                    Call(mem, <<Call(pred, <<x>>), y>>))) >>
          [] f = pred -> << Case(pred, <<Succ(x)>>, x) >>
          [] f = same -> << Case(same, <<x, x>>, TrueTerm),
                            Case(same, <<x, Succ(y)>>, Requires(Call(orc, <<y>>), TrueTerm, x)) >>]

MCAnswers == [k \in { <<orc, z>> } |-> TrueTerm]

One == Succ(z)
Two == Succ(One)
Three == Succ(Two)


Symbols == {z, s, pair, x, y, fib, mem, pred, same, flip, orc, TrueTerm, FalseTerm}

RECURSIVE TermsOfHeight(_)
TermsOfHeight(n) ==
    IF n = 0 THEN Symbols
    ELSE Symbols \cup [kind: {"apply", "apply_opaque"} \cup OperatorKinds, name: {""},
                       kids: Seq(TermsOfHeight(n - 1)) \ {<<>>}]

(* No term of the runs is higher.                                          *)
MCTerms == TermsOfHeight(9)

-----------------------------------------------------------------------------
(* Calls of evaluate *)

Eval(t, ctx) == [term |-> t, ctx |-> ctx]

Open == { Call(fib, <<Succ(Succ(x))>>),
          Call(mem, <<x, y>>),
          Pair(Call(pred, <<x>>), Call(pred, <<y>>)),
          Ite(IsEq(x, y), Call(fib, <<x>>), Pair(Call(fib, <<x>>), y)),
          Ite(IsEq(x, One), Requires(x, y, z), Call(same, <<x, y>>)),
          Pair(Call(same, <<z, Succ(x)>>), Call(same, <<x, y>>)),
          Pair(IsEq(x, x), Node("apply_opaque", <<pair, x>>)),
          Ite(Call(same, <<x, x>>), Pair(x, x), y),
          Node("ite", <<IsEq(z, z), x>>) }

Contexts == { <<>>,
              [p \in {x} |-> Two],
              [p \in {x, y} |-> z],
              [p \in {x, y} |-> IF p = x THEN One ELSE Two],
              [p \in {x, y} |-> IF p = x THEN One ELSE z],
              [p \in {x} |-> Succ(y)] }

MCInputs == {Eval(t, ctx) : t \in Open, ctx \in Contexts}
       \cup {Eval(Call(fib, <<Succ(Succ(Three))>>), <<>>),
             Eval(Call(mem, <<One>>), <<>>),
             Eval(Node("apply", <<x, Two>>), [p \in {x} |-> fib])}

(* A program whose first case is a call without parameters: when the case  *)
(* was read the program was not defined yet, so the call was not made.     *)
RecursivePrograms ==
    [f \in {flip} |-> << Case(flip, <<TrueTerm>>, Call(flip, <<FalseTerm>>)),
                         Case(flip, <<FalseTerm>>, FalseTerm) >>]

RecursiveInputs == {Eval(Pair(Call(flip, <<x>>), y), [p \in {x, y} |-> IF p = x THEN t ELSE u]) :
                        t \in {TrueTerm, FalseTerm, z}, u \in {TrueTerm, z}}

-----------------------------------------------------------------------------
(* Evaluation by recursion *)

RECURSIVE Subst(_, _)
Subst(t, sub) == IF t \in DOMAIN sub THEN sub[t]
                 ELSE [t EXCEPT !.kids = [i \in DOMAIN @ |-> Subst(@[i], sub)]]

RECURSIVE Subterms(_)
Subterms(t) == {t} \cup UNION {Subterms(t.kids[i]) : i \in DOMAIN t.kids}

SubtermsOf(ts) == UNION {Subterms(ts[i]) : i \in DOMAIN ts}

ParamsOf(ts) == {t \in SubtermsOf(ts) : t.kind = "param"}

(* The substitutions that make the patterns of a case the arguments.       *)
Matchers(c, ts) ==
    IF Len(c.args) # Len(ts) THEN {}
    ELSE {sub \in [ParamsOf(c.args) -> SubtermsOf(ts)] :
            \A i \in DOMAIN ts : Subst(c.args[i], sub) = ts[i]}

Matching(cases, ts) == {i \in DOMAIN cases : Matchers(cases[i], ts) # {}}

RECURSIVE Evaluation(_, _)

(* A term whose children have values.                                      *)
Application(t, ts) ==
    IF t.kind \in {"is_eq", "requires"}
    THEN LET v == RunOperator(t.kind, ts) IN IF v = NullTerm THEN MkExpr(t, ts) ELSE v
    ELSE IF t.kind # "apply" \/ ~AllGround(ts) THEN MkExpr(t, ts)
    ELSE IF ts \in DOMAIN Answers THEN Answers[ts]
    ELSE IF ts[1] \notin DOMAIN Programs THEN MkExpr(t, ts)
    ELSE LET cases   == Programs[ts[1]]
             matches == Matching(cases, ts)
             first   == CHOOSE i \in matches : \A j \in matches : i <= j
         IN  IF matches = {} THEN MkExpr(t, ts)
             ELSE Evaluation(cases[first].body, CHOOSE sub \in Matchers(cases[first], ts) : TRUE)

(* The value of a term: its parameters are replaced, its subterms are      *)
(* evaluated before it, but of an if-then-else with a known condition only *)
(* one branch.  There is no stack, no cache and no shortcut.               *)
Evaluation(t, ctx) ==
    IF t.kind = "param" THEN IF t \in DOMAIN ctx THEN ctx[t] ELSE t
    ELSE IF t.kids = <<>> \/ (t.kind = "ite" /\ Len(t.kids) # 3) THEN t
    ELSE LET first == Evaluation(t.kids[1], ctx)
         IN  IF t.kind = "ite" /\ first = TrueTerm THEN Evaluation(t.kids[2], ctx)
             ELSE IF t.kind = "ite" /\ first = FalseTerm THEN Evaluation(t.kids[3], ctx)
             ELSE Application(t, [i \in DOMAIN t.kids |-> Evaluation(t.kids[i], ctx)])

-----------------------------------------------------------------------------
(* What the theorems assume of the parameters, for the calls of the runs.  *)

RECURSIVE Closure(_, _)
Closure(done, new) ==
    IF new = {} THEN done
    ELSE Closure(done \cup new, UNION {Needs(e[1], e[2]) : e \in new} \ (done \cup new))

Evaluations == Closure({}, {<<in.term, in.ctx>> : in \in Inputs})

RECURSIVE Height(_)
Height(e) == 1 + Max({0} \cup {Height(d) : d \in Needs(e[1], e[2])})

ASSUME EvaluationByRecursion ==
    /\ IsEvaluation(Evaluations)
    /\ IsRank([e \in Evaluations |-> Height(e)])
    /\ SoundTerms(Evaluations)

(* Not so for a case that was read before the program it calls was defined.*)
ASSUME CasesFinal == Programs # RecursivePrograms => FinalCases(Evaluations)

=============================================================================

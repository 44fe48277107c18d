------------------------------ MODULE EvalTerms -----------------------------
(***************************************************************************)
(* Expressions as the evaluator sees them, matching, and the choice of a   *)
(* program's case (src/expr.cpp, src/type_checker.cpp).                    *)
(*                                                                         *)
(* Expressions are hash-consed: two that have the same kind, name and      *)
(* children are one object, so equality of pointers is equality here.      *)
(* Everything but the kind and the children is left out.                   *)
(***************************************************************************)
EXTENDS Naturals, Sequences

CONSTANTS Programs,  \* d_attrConsTerm: from programs to cases [args, body]
          Answers    \* from oracle calls to the terms their commands print

Leaf(kind, name) == [kind |-> kind, name |-> name, kids |-> <<>>]

Node(kind, kids) == [kind |-> kind, name |-> "", kids |-> kids]

NullTerm == Leaf("null", "")

TrueTerm == Leaf("bool", "true")

FalseTerm == Leaf("bool", "false")

KindOf(t) == t.kind

ChildrenOf(t) == t.kids

MkExpr(t, ts) == [t EXCEPT !.kids = ts]

OperatorKinds == {"ite", "is_eq", "requires"}

KidSet(t) == {t.kids[i] : i \in DOMAIN t.kids}

RECURSIVE GroundTerm(_)
GroundTerm(t) == /\ t.kind # "param"
                 /\ \A kid \in KidSet(t) : GroundTerm(kid)

RECURSIVE EvaluatableTerm(_)
EvaluatableTerm(t) ==
    /\ t.kids # <<>>
    /\ \/ t.kind \in OperatorKinds
       \/ t.kind = "apply" /\ t.kids[1].kind \in {"program", "oracle"}
       \/ \E kid \in KidSet(t) : EvaluatableTerm(kid)

AllGround(ts) == \A i \in DOMAIN ts : GroundTerm(ts[i])

-----------------------------------------------------------------------------
(* Matching *)

SameOperator(a, b) == a.kind = b.kind /\ Len(a.kids) = Len(b.kids)

(* A parameter stands for the same term wherever it occurs.                *)
Bindable(a, b, ctx) == a.kind = "param" /\ (a \in DOMAIN ctx => ctx[a] = b)

Bound(a, b, ctx) == [x \in DOMAIN ctx \cup {a} |-> IF x = a THEN b ELSE ctx[x]]

Pairs(a, b) == [i \in DOMAIN a.kids |-> <<a.kids[i], b.kids[i]>>]

(* An iteration of the loop of match: stack has the pairs to match, the    *)
(* next one last, and visited those that were.  No successor: it fails.    *)
MatchStep(m) ==
    LET pair == m.stack[Len(m.stack)]
        rest == SubSeq(m.stack, 1, Len(m.stack) - 1)
        a    == pair[1]
        b    == pair[2]
        seen == m.visited \cup {pair}
    IN  IF a = b \/ pair \in m.visited THEN {[m EXCEPT !.stack = rest]}
        ELSE IF a.kids = <<>>
        THEN IF Bindable(a, b, m.ctx)
             THEN {[stack |-> rest, ctx |-> Bound(a, b, m.ctx), visited |-> seen]}
             ELSE {}
        ELSE IF SameOperator(a, b)
             THEN {[stack |-> rest \o Pairs(a, b), ctx |-> m.ctx, visited |-> seen]}
             ELSE {}

(* The contexts that the loop ends with: one, or none if it fails.         *)
RECURSIVE MatchLoop(_)
MatchLoop(m) == IF m.stack = <<>> THEN {m.ctx}
                ELSE UNION {MatchLoop(n) : n \in MatchStep(m)}

Match(a, b, ctx) == MatchLoop([stack |-> << <<a, b>> >>, ctx |-> ctx, visited |-> {}])

(* The arguments are matched one by one, in one context.                   *)
RECURSIVE MatchArgs(_, _, _)
MatchArgs(patterns, ts, ctx) ==
    IF patterns = <<>> THEN {ctx}
    ELSE UNION {MatchArgs(Tail(patterns), Tail(ts), c) : c \in Match(Head(patterns), Head(ts), ctx)}

-----------------------------------------------------------------------------
(* Programs, oracles and literal operators *)

(* Patterns begin with the program itself, as the calls do.                *)
CaseContexts(case, ts) ==
    IF Len(case.args) = Len(ts) THEN MatchArgs(Tail(case.args), Tail(ts), <<>>) ELSE {}

NotEvaluated == [body |-> NullTerm, ctx |-> <<>>]

(* The first case that matches, and the context it matches in.  The search *)
(* is given up at a case of another arity than the call.                   *)
FirstCase(cases, ts) ==
    LET matching == {i \in DOMAIN cases : /\ CaseContexts(cases[i], ts) # {}
                                          /\ \A j \in 1 .. i : Len(cases[j].args) = Len(ts)}
    IN  IF matching = {} THEN NotEvaluated
        ELSE LET i == CHOOSE j \in matching : \A k \in matching : j <= k
             IN  [body |-> cases[i].body, ctx |-> CHOOSE c \in CaseContexts(cases[i], ts) : TRUE]

(* evaluateProgramInternal.  An oracle that fails has no answer.           *)
RunProgram(ts) ==
    IF ~AllGround(ts) THEN NotEvaluated
    ELSE IF ts[1] \in DOMAIN Programs THEN FirstCase(Programs[ts[1]], ts)
    ELSE IF ts \in DOMAIN Answers THEN [body |-> Answers[ts], ctx |-> <<>>]
    ELSE NotEvaluated

(* evaluateLiteralOpInternal, for is_eq and requires.                      *)
RunOperator(kind, ts) ==
    IF kind = "is_eq"
    THEN IF ts[1] = ts[2] THEN TrueTerm
         ELSE IF AllGround(ts) THEN FalseTerm ELSE NullTerm
    ELSE IF ts[1] = ts[2] THEN ts[3] ELSE NullTerm

=============================================================================

------------------------------- MODULE Terms -------------------------------
(***************************************************************************)
(* How Ethos builds terms: State::mkExpr and its relatives (src/state.cpp) *)
(* and the operations on lists (src/type_checker.cpp).                     *)
(*                                                                         *)
(* An application is not built as it is written.  What is built depends on *)
(* the attribute of the operator (an associative operator is applied to    *)
(* two arguments at a time and may end in a nil terminator, a chainable    *)
(* one becomes a conjunction, and so on) and on the attributes of the      *)
(* arguments (a parameter marked :list stands for a tail).  The attributes *)
(* are the argument m of the operators below: the part of d_appData that   *)
(* markConstructorKind and bindBuiltin write.                              *)
(*                                                                         *)
(* Left to the modules that have them: the evaluation of the other         *)
(* operators of eo:: and of programs (Evaluator, LiteralOps), whose        *)
(* applications stay as they are here, and what needs types: the choice    *)
(* between overloads and the inference of the parameters of an operator.   *)
(***************************************************************************)
EXTENDS Naturals, Sequences, FiniteSets, SequencesExt

(* A term: the kind, the name and the type of a symbol, a number that      *)
(* tells two symbols apart or is the value of a numeral, and the children. *)
Node(k, args) == [kind |-> k, name |-> "", id |-> 0, type |-> <<>>, args |-> args]

Symbol(k, n, type, id) == [kind |-> k, name |-> n, id |-> id, type |-> <<type>>, args |-> <<>>]

Value(k, n, i) == [kind |-> k, name |-> n, id |-> i, type |-> <<>>, args |-> <<>>]

Null == Node("NONE", <<>>)

AbstractType == Node("ABSTRACT_TYPE", <<>>)

TypeType == Node("TYPE", <<>>)

BoolType == Node("BOOL_TYPE", <<>>)

Tuple(args) == Node("TUPLE", args)

Pair(t1, t2) == Tuple(<<t1, t2>>)

(* The attribute of a term, its constructor term and, of a builtin         *)
(* operator, the kind of its applications.                                 *)
NoInfo == [attr |-> "NONE", cons |-> Null, kind |-> "NONE"]

InfoOf(m, t) == IF t \in DOMAIN m THEN m[t] ELSE NoInfo

AttrOf(m, t) == InfoOf(m, t).attr

-----------------------------------------------------------------------------
(* Variables *)

RECURSIVE Variables(_)
Variables(t) == IF t.kind = "PARAM"
                THEN {t}
                ELSE UNION {Variables(t.args[i]) : i \in DOMAIN t.args}

VariablesIn(ts) == UNION {Variables(ts[i]) : i \in DOMAIN ts}

IsGround(t) == Variables(t) = {}

RECURSIVE IsEvaluatable(_, _)
IsEvaluatable(t, ops) ==
    \/ t.kind \in ops
    \/ t.kind = "APPLY" /\ t.args[1].kind \in {"PROGRAM_CONST", "ORACLE"}
    \/ \E i \in DOMAIN t.args : IsEvaluatable(t.args[i], ops)

(* evaluate under a context, of a term in which nothing evaluates.         *)
RECURSIVE Substitute(_, _)
Substitute(t, ctx) ==
    IF t \in DOMAIN ctx
    THEN ctx[t]
    ELSE [t EXCEPT !.args = [i \in DOMAIN @ |-> Substitute(@[i], ctx)]]

Context(vars, terms) ==
    [v \in Range(vars) |-> terms[CHOOSE i \in DOMAIN vars : vars[i] = v]]

-----------------------------------------------------------------------------
(* Types *)

Requires(t1, t2, ret) ==
    IF t1 = t2 THEN ret ELSE Node("EVAL_REQUIRES", <<t1, t2, ret>>)

RequiresAll(pairs, ret) ==
    FoldRight(LAMBDA p, curr : Requires(p.args[1], p.args[2], curr), pairs, ret)

(* A function type as written: flattened, that is, of one argument, and    *)
(* with the requirements of an argument moved to its result.               *)
FunctionType(args, ret) ==
    FoldRight(LAMBDA a, curr :
                  IF a.kind = "EVAL_REQUIRES"
                  THEN Node("FUNCTION_TYPE",
                            <<a.args[3], Requires(a.args[1], a.args[2], curr)>>)
                  ELSE Node("FUNCTION_TYPE", <<a, curr>>),
              args, ret)

(* The type of a program or of a proof rule, which is not flattened.       *)
PlainFunctionType(args, ret) ==
    IF args = <<>> THEN ret ELSE Node("FUNCTION_TYPE", Append(args, ret))

TypeConstantType(arity) == FunctionType([i \in 1 .. arity |-> TypeType], TypeType)

ProofType(t) == Node("PROOF_TYPE", <<t>>)

QuoteType(t) == Node("QUOTE_TYPE", <<t>>)

-----------------------------------------------------------------------------
(* Applications *)

(* Only an application to one argument exists; any other is curried.       *)
Curry(children) ==
    FoldLeft(LAMBDA f, a : Node("APPLY", <<f, a>>), Head(children), Tail(children))

Parameterized(hd, params) == Node("PARAMETERIZED", <<Tuple(params), hd>>)

Operator(t) == IF t.kind = "PARAMETERIZED" THEN t.args[2] ELSE t

(* The constructor term of an operator (in most cases a nil terminator).   *)
(* One that has parameters is instantiated with those given to the head;   *)
(* without any, it is not known.                                           *)
ConstructorTerm(m, hd) ==
    LET c == InfoOf(m, Operator(hd)).cons
    IN  IF c.kind # "PARAMETERIZED"
        THEN c
        ELSE IF hd.kind = "PARAMETERIZED"
                /\ Len(hd.args[1].args) = Len(c.args[1].args)
             THEN Substitute(c.args[2], Context(c.args[1].args, hd.args[1].args))
             ELSE Null

IsLeft(attr) == attr \in {"LEFT_ASSOC", "LEFT_ASSOC_NIL"}

HasNil(attr) == attr \in {"LEFT_ASSOC_NIL", "RIGHT_ASSOC_NIL"}

(* curr extended by the argument a.                                        *)
Join(m, attr, hd, curr, a) ==
    LET cc == IF IsLeft(attr) THEN <<hd, curr, a>> ELSE <<hd, a, curr>>
    IN  IF HasNil(attr) /\ AttrOf(m, a) = "LIST"
        THEN Node("EVAL_LIST_CONCAT", cc)
        ELSE Curry(cc)

(* The argument the application starts from is its outermost one, or the   *)
(* nil terminator, when there is one and that argument is not a list.      *)
Associative(m, attr, children) ==
    LET hd == Operator(children[1])
        args == Tail(children)
        outermost == IF IsLeft(attr) THEN Head(args) ELSE Last(args)
        startsFromNil == HasNil(attr) /\ AttrOf(m, outermost) # "LIST"
        nil == ConstructorTerm(m, children[1])
        start == IF ~startsFromNil THEN outermost
                 ELSE IF nil = Null THEN Node("EVAL_NIL", <<hd>> \o args)
                 ELSE nil
        rest == IF startsFromNil THEN args
                ELSE IF IsLeft(attr) THEN Tail(args) ELSE Front(args)
    IN  IF IsLeft(attr)
        THEN FoldLeft(LAMBDA curr, a : Join(m, attr, hd, curr, a), start, rest)
        ELSE FoldRight(LAMBDA a, curr : Join(m, attr, hd, curr, a), rest, start)

Chained(hd, args) ==
    IF args = <<>> THEN <<>>
    ELSE [i \in 1 .. Len(args) - 1 |-> Curry(<<hd, args[i], args[i + 1]>>)]

Pairwise(hd, args) ==
    FlattenSeq([i \in DOMAIN args |->
                   [j \in 1 .. Len(args) - i |-> Curry(<<hd, args[i], args[i + j]>>)]])

ListOps == {"EVAL_NIL", "EVAL_CONS", "EVAL_LIST_LENGTH", "EVAL_LIST_CONCAT",
            "EVAL_LIST_NTH", "EVAL_LIST_FIND"}

ListArity(k, n) == CASE k = "EVAL_NIL" -> n >= 1
                     [] k = "EVAL_LIST_LENGTH" -> n = 2
                     [] k = "EVAL_LIST_CONCAT" -> n >= 3
                     [] OTHER -> n = 3

-----------------------------------------------------------------------------
(* Lists *)

(* The elements of a list of op, from the outermost application inwards,   *)
(* and what is left.                                                       *)
RECURSIVE NAryChildren(_, _, _)
NAryChildren(t, op, left) ==
    IF t.kind = "APPLY" /\ Len(t.args) = 2 /\ t.args[1].kind = "APPLY"
       /\ t.args[1].args[1] = op
    THEN LET element == IF left THEN t.args[2] ELSE t.args[1].args[2]
             tail == IF left THEN t.args[1].args[2] ELSE t.args[2]
             below == NAryChildren(tail, op, left)
         IN  [below EXCEPT !.elements = <<element>> \o @]
    ELSE [elements |-> <<>>, rest |-> t]

Numeral(i) == Value("NUMERAL", "", i)

MinusOne == Value("NUMERAL", "-", 1)

(* Faulty: the elements of the first list are put before the second one    *)
(* in the order in which they were taken off.                              *)
PrependedReversed(op, left, elements, tail) ==
    IF left
    THEN FoldLeft(LAMBDA curr, e : Curry(<<op, curr, e>>), tail, elements)
    ELSE FoldLeft(LAMBDA curr, e : Curry(<<op, e, curr>>), tail, elements)

(* elements put back on a tail.                                            *)
Prepended(op, left, elements, tail) ==
    IF left
    THEN FoldLeft(LAMBDA curr, e : Curry(<<op, curr, e>>), tail, elements)
    ELSE FoldRight(LAMBDA e, curr : Curry(<<op, e, curr>>), elements, tail)

FirstIndex(s, x) == CHOOSE i \in DOMAIN s : s[i] = x /\ \A j \in 1 .. i - 1 : s[j] # x

(* The result of a list operation, or Null when it does not evaluate.  Of  *)
(* the arguments of a concatenation only the first two lists are looked    *)
(* at, and the nth element is taken without a look at the end of the list. *)
ListResult(m, k, args) ==
    LET op == Operator(args[1])
        attr == AttrOf(m, op)
        left == IsLeft(attr)
        nil == ConstructorTerm(m, args[1])
        read(t) == NAryChildren(t, op, left)
        isList(t) == read(t).rest = nil
        tail == args[IF left /\ k = "EVAL_LIST_CONCAT" THEN 2 ELSE 3]
        front == args[IF left THEN 3 ELSE 2]
        elements == read(args[2]).elements
    IN  IF \/ \E i \in DOMAIN args : ~IsGround(args[i])
           \/ ~HasNil(attr)
           \/ nil = Null
        THEN Null
        ELSE CASE k = "EVAL_NIL" -> nil
               [] k = "EVAL_CONS" ->
                    IF isList(tail) THEN Prepended(op, left, <<args[2]>>, tail) ELSE Null
               [] k = "EVAL_LIST_CONCAT" ->
                    IF isList(tail) /\ isList(front)
                    THEN Prepended(op, left, read(front).elements, tail)
                    ELSE Null
               [] k = "EVAL_LIST_LENGTH" ->
                    IF isList(args[2]) THEN Numeral(Len(elements)) ELSE Null
               [] k = "EVAL_LIST_NTH" ->
                    IF args[3].kind = "NUMERAL" /\ args[3].name = ""
                       /\ args[3].id < Len(elements)
                    THEN elements[args[3].id + 1]
                    ELSE Null
               [] k = "EVAL_LIST_FIND" ->
                    IF ~isList(args[2]) THEN Null
                    ELSE IF args[3] \notin Range(elements) THEN MinusOne
                    ELSE Numeral(FirstIndex(elements, args[3]) - 1)

-----------------------------------------------------------------------------
(* mkExpr *)

RECURSIVE MkApply(_, _)

MkExpr(m, k, args) ==
    LET result == ListResult(m, k, args)
    IN  IF k = "APPLY" THEN MkApply(m, args)
        ELSE IF k \in ListOps /\ ListArity(k, Len(args)) /\ result # Null THEN result
        ELSE Node(k, args)

(* A symbol without an attribute, a lambda or a program.                   *)
PlainApply(m, children) ==
    LET hd == Operator(children[1])
        args == Tail(children)
    IN  IF hd.kind = "LAMBDA" /\ Len(hd.args[1].args) = Len(args)
        THEN Substitute(hd.args[2], Context(hd.args[1].args, args))
        ELSE IF Len(children) > 2 /\ hd.kind \notin {"PROGRAM_CONST", "PROOF_RULE", "ORACLE"}
        THEN Curry(children)
        ELSE Node("APPLY", children)

(* Arguments up to the number of opaque ones make the operator.            *)
OpaqueApply(m, children) ==
    LET n == Len(Operator(children[1]).type[1].args) - 1
        op == Node("APPLY_OPAQUE", SubSeq(children, 1, n + 1))
    IN  IF n >= Len(children) THEN PlainApply(m, children)
        ELSE IF n + 1 = Len(children) THEN op
        ELSE MkApply(m, <<op>> \o SubSeq(children, n + 2, Len(children)))

(* What relates the arguments two by two is joined by the constructor      *)
(* term, unless there is only one pair of them.                            *)
Joined(m, children, pairs) ==
    IF Len(pairs) = 1
    THEN pairs[1]
    ELSE MkApply(m, <<ConstructorTerm(m, children[1])>> \o pairs)

MkApply(m, children) ==
    LET hd == Operator(children[1])
        info == InfoOf(m, hd)
        args == Tail(children)
    IN  IF info.kind = "FUNCTION_TYPE" THEN FunctionType(Front(args), Last(args))
        ELSE IF info.kind = "PARAMETERIZED" THEN Parameterized(args[1], Tail(args))
        ELSE IF info.kind # "NONE" THEN MkExpr(m, info.kind, args)
        ELSE CASE info.attr \in {"LEFT_ASSOC", "RIGHT_ASSOC", "LEFT_ASSOC_NIL", "RIGHT_ASSOC_NIL"}
             /\ args # <<>> -> Associative(m, info.attr, children)
          [] info.attr = "CHAINABLE" -> Joined(m, children, Chained(hd, args))
          [] info.attr = "PAIRWISE" -> Joined(m, children, Pairwise(hd, args))
          [] info.attr = "OPAQUE" -> OpaqueApply(m, children)
          [] OTHER -> PlainApply(m, children)

(* The list of bound variables of a binder and the list of bindings of a   *)
(* let binder.                                                             *)
MkBinderList(m, hd, vars) == MkApply(m, <<InfoOf(m, hd).cons>> \o vars)

MkLetBinderList(m, hd, bindings) ==
    LET cons == InfoOf(m, hd).cons
    IN  MkApply(m, <<cons.args[2]>> \o
                   [i \in DOMAIN bindings |-> MkApply(m, <<cons.args[1]>> \o bindings[i].args)])

(* The builtin lists.                                                      *)
ListType == Symbol("CONST", "eo::List", TypeType, 0)

ListNil == Symbol("CONST", "eo::List::nil", ListType, 0)

ListCons == Symbol("CONST", "eo::List::cons",
                   FunctionType(<<Symbol("PARAM", "T", TypeType, 0), ListType>>, ListType), 0)

MkList(m, ts) == IF ts = <<>> THEN ListNil ELSE MkApply(m, <<ListCons>> \o ts)

(* Two parameters that can be read and are not bound by the input.         *)
Self == Symbol("PARAM", "eo::self", AbstractType, 0)

Conclusion == Symbol("PARAM", "eo::conclusion", BoolType, 0)

True == Value("BOOLEAN", "true", 0)

False == Value("BOOLEAN", "false", 0)

(* The operators the constructor of State binds.                           *)
BuiltinKinds == [n \in {"->", "_", "eo::_", "eo::nil", "eo::cons", "eo::list_len",
                        "eo::list_concat", "eo::list_nth", "eo::list_find"} |->
                    CASE n = "->" -> "FUNCTION_TYPE"
                      [] n = "_" -> "APPLY"
                      [] n = "eo::_" -> "PARAMETERIZED"
                      [] n = "eo::nil" -> "EVAL_NIL"
                      [] n = "eo::cons" -> "EVAL_CONS"
                      [] n = "eo::list_len" -> "EVAL_LIST_LENGTH"
                      [] n = "eo::list_concat" -> "EVAL_LIST_CONCAT"
                      [] n = "eo::list_nth" -> "EVAL_LIST_NTH"
                      [] n = "eo::list_find" -> "EVAL_LIST_FIND"]

Builtin(n) == Symbol("CONST", n, AbstractType, 0)

(* What is marked and what is bound when the program starts.               *)
InitialMarks ==
    [t \in {Builtin(n) : n \in DOMAIN BuiltinKinds} \cup {ListCons} |->
        IF t = ListCons
        THEN [attr |-> "RIGHT_ASSOC_NIL", cons |-> ListNil, kind |-> "NONE"]
        ELSE [NoInfo EXCEPT !.kind = BuiltinKinds[t.name]]]

InitialBindings ==
    LET others == {ListType, ListNil, ListCons, Self, True, False}
    IN  [n \in DOMAIN BuiltinKinds \cup {t.name : t \in others} |->
            IF n \in DOMAIN BuiltinKinds
            THEN Builtin(n)
            ELSE CHOOSE t \in others : t.name = n]

=============================================================================

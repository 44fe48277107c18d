----------------------------- MODULE TermParser -----------------------------
(***************************************************************************)
(* The parser of terms, ExprParser (src/expr_parser.cpp).                  *)
(*                                                                         *)
(* Every function of the class is an operator from a state of the parser   *)
(* to the state it returns in.  The state s has the tokens that are still  *)
(* to be read, the lexer's stack of peeked tokens, what the class State    *)
(* keeps (the symbol table with its undo logs, the marks on symbols), the  *)
(* value returned last and the local variables of the function that runs.  *)
(* Nothing is undone when parsing fails: the program ends.                 *)
(*                                                                         *)
(* parseExpr is not recursive in the code.  It has a stack of frames, one  *)
(* for each term that has been opened, and a frame says how many scopes to *)
(* pop when its term is closed.  It is called recursively, with a stack of *)
(* its own, by the functions that read types, lists and attributes.        *)
(*                                                                         *)
(* Terms are built by Terms.tla.  The type checker is left out: it may     *)
(* only refuse what the parser has read.                                   *)
(***************************************************************************)
EXTENDS Terms, Integers, TLC

CONSTANT LookupVars   \* binders bind canonical variables, not fresh ones

-----------------------------------------------------------------------------
(* Tokens, which are represented by their text *)

AttrOfKeyword == [k \in {":var", ":implicit", ":type", ":list", ":requires", ":left-assoc",
                         ":right-assoc", ":left-assoc-nil", ":right-assoc-nil", ":chainable",
                         ":pairwise", ":binder", ":let-binder", ":opaque", ":syntax",
                         ":restrict", ":sorry"} |->
    CASE k = ":var" -> "VAR"                       [] k = ":implicit" -> "IMPLICIT"
      [] k = ":type" -> "TYPE"                     [] k = ":list" -> "LIST"
      [] k = ":requires" -> "REQUIRES"             [] k = ":left-assoc" -> "LEFT_ASSOC"
      [] k = ":right-assoc" -> "RIGHT_ASSOC"       [] k = ":left-assoc-nil" -> "LEFT_ASSOC_NIL"
      [] k = ":right-assoc-nil" -> "RIGHT_ASSOC_NIL" [] k = ":chainable" -> "CHAINABLE"
      [] k = ":pairwise" -> "PAIRWISE"             [] k = ":binder" -> "BINDER"
      [] k = ":let-binder" -> "LET_BINDER"         [] k = ":opaque" -> "OPAQUE"
      [] k = ":syntax" -> "SYNTAX"                 [] k = ":restrict" -> "RESTRICT"
      [] k = ":sorry" -> "SORRY"]

(* The keywords of declare-rule and program, and one with no meaning.      *)
OtherKeywords == {":ethos", ":assumption", ":premises", ":premise-list", ":args", ":requires",
                  ":conclusion", ":conclusion-given", ":unknown"}

Keywords == DOMAIN AttrOfKeyword \cup OtherKeywords

NumeralOf == "0" :> 0 @@ "1" :> 1 @@ "2" :> 2

LiteralKinds == {"<numeral>", "<string>"}

StringTexts == {"\"text\""}

Reserved == {"(", ")", "EOF", "let", "eo::define", "eo::match", "!", "par", "Type", "Bool"}

Kind(t) == IF t \in Reserved THEN t
           ELSE IF t \in Keywords THEN "KEYWORD"
           ELSE IF t \in DOMAIN NumeralOf THEN "INTEGER_LITERAL"
           ELSE IF t \in StringTexts THEN "STRING_LITERAL"
           ELSE "SYMBOL"

-----------------------------------------------------------------------------
(* Outcomes *)

Failed(s) == s.outcome # "ok"

EndsIf(c, s, how) == IF c /\ ~Failed(s) THEN [s EXCEPT !.outcome = how] ELSE s

(* parseError; it and EO_FATAL end the program.                            *)
ErrorIf(c, s) == EndsIf(c, s, "error")

Error(s) == ErrorIf(TRUE, s)

Asserts(c, s) == EndsIf(~c, s, "aborted")

(* A loop of the parser: Body until it clears more.                        *)
Repeat(s, Body(_)) ==
    LET RECURSIVE Loop(_)
        Loop(t) == IF t.more /\ ~Failed(t) THEN Loop(Body(t)) ELSE t
    IN  [Loop([s EXCEPT !.more = TRUE]) EXCEPT !.more = s.more]

Stop(s) == [s EXCEPT !.more = FALSE]

-----------------------------------------------------------------------------
(* The interface of the lexer *)

(* A peeked token comes back as a mere kind: its text is taken from the    *)
(* lexer, which has that of the token it read last.  A parser that goes on *)
(* at the end of the input, where every loop takes EOF again, never ends.  *)
NextToken(s) ==
    LET atEnd == s.input = <<>>
        t == IF atEnd THEN "EOF" ELSE Head(s.input)
    IN  IF s.peeked # <<>>
        THEN [s EXCEPT !.tok = Last(s.peeked), !.peeked = Front(@)]
        ELSE [EndsIf(atEnd /\ s.str = "EOF", s, "diverges")
                 EXCEPT !.tok = t, !.str = t, !.input = IF atEnd THEN @ ELSE Tail(@)]

Reinsert(s, t) == [s EXCEPT !.peeked = Append(@, t)]

PeekToken(s) == LET a == NextToken(Asserts(s.peeked = <<>>, s)) IN Reinsert(a, a.tok)

UnexpectedToken(s) == Error(Asserts(s.peeked = <<>>, s))

EatToken(s, k) == LET a == NextToken(s) IN IF Kind(a.tok) = k THEN a ELSE UnexpectedToken(a)

(* eatTokenChoice; the token taken says which of the two it was.           *)
EatTokenChoice(s, k, other) ==
    LET a == NextToken(s) IN IF Kind(a.tok) \in {k, other} THEN a ELSE UnexpectedToken(a)

Took(s, k) == Kind(s.tok) = k

(* tokenStrToSymbol of the token just taken.  stale records whether a text *)
(* was ever used for another token than the one it belongs to.             *)
TokenStrToSymbol(s) ==
    IF Took(s, "SYMBOL")
    THEN [s EXCEPT !.name = s.str, !.stale = @ \/ s.str # s.tok]
    ELSE UnexpectedToken(s)

ParseSymbol(s) == TokenStrToSymbol(NextToken(s))

ParseKeyword(s) == LET a == EatToken(s, "KEYWORD")
                   IN  [a EXCEPT !.name = a.str, !.stale = @ \/ a.str # a.tok]

ParseIntegerNumeral(s) == LET a == EatToken(s, "INTEGER_LITERAL")
                          IN  IF Failed(a) THEN a ELSE [a EXCEPT !.number = NumeralOf[a.str]]

ParseLiteralKind(s) == LET a == ParseSymbol(s) IN ErrorIf(a.name \notin LiteralKinds, a)

(* Faulty: the end of the input is skipped like any other token.           *)
ParseSymbolicExprPastEnd(s) ==
    LET Body(t) == LET a == NextToken(t)
                       d == CASE Took(a, "(") -> t.depth + 1
                              [] Took(a, ")") -> t.depth - 1
                              [] OTHER -> t.depth
                   IN  [a EXCEPT !.depth = d, !.more = d # 0]
    IN  Repeat([s EXCEPT !.depth = 0], Body)

(* nparen is unsigned and wraps around, which changes nothing: it is only  *)
(* compared with zero.                                                     *)
ParseSymbolicExpr(s) ==
    LET Body(t) == LET a == ErrorIf(NextToken(t).tok = "EOF", NextToken(t))
                       d == CASE Took(a, "(") -> t.depth + 1
                              [] Took(a, ")") -> t.depth - 1
                              [] OTHER -> t.depth
                   IN  [a EXCEPT !.depth = d, !.more = d # 0]
    IN  Repeat([s EXCEPT !.depth = 0], Body)

-----------------------------------------------------------------------------
(* The interface of State *)

IsNested(s) == s.declsSizeCtx # <<>>

OverloadsOf(s, e) == IF e \in DOMAIN s.overloads THEN s.overloads[e] ELSE <<>>

(* saved is a history: the table when each open scope was entered.         *)
PushScope(s) == [s EXCEPT !.declsSizeCtx = Append(@, Len(s.decls)),
                          !.saved = Append(@, s.symTable)]

(* getAppInfo is not for an operator that has been given its parameters.   *)
GetAppInfo(s, e) == Asserts(e.kind # "PARAMETERIZED", s)

(* The declaration made last is overloaded: its name goes back to what is  *)
(* before it in the vector of the term it denotes.                         *)
RevertOverload(s) ==
    LET n == Last(s.decls)
        e == IF n \in DOMAIN s.symTable THEN s.symTable[n] ELSE Null
        rest == Front(OverloadsOf(s, e))
        t == GetAppInfo(Asserts(n \in DOMAIN s.symTable /\ Len(OverloadsOf(s, e)) >= 2, s), e)
    IN  IF Failed(t) THEN t
        ELSE [t EXCEPT !.overloadedDecls = Front(@), !.overloads[e] = rest,
                       !.symTable[n] = Last(rest), !.overloading = @ \ {e}]

Undo(s) ==
    LET n == Last(s.decls)
        overloaded == s.overloadedDecls # <<>> /\ Last(s.overloadedDecls) = n
        t == IF overloaded THEN RevertOverload(s)
             ELSE [s EXCEPT !.symTable = [m \in DOMAIN @ \ {n} |-> @[m]]]
    IN  [t EXCEPT !.decls = Front(@)]

PopScope(s) ==
    LET lastSize == IF IsNested(s) THEN Last(s.declsSizeCtx) ELSE 0
        Body(t) == IF Len(t.decls) > lastSize THEN Undo(t) ELSE Stop(t)
    IN  IF IsNested(s)
        THEN Repeat([s EXCEPT !.declsSizeCtx = Front(@), !.saved = Front(@)], Body)
        ELSE Error(s)

PopScopes(s, n) == FoldLeft(LAMBDA t, i : PopScope(t), s, [i \in 1 .. n |-> i])

(* bind.  The vector of what a name denoted before is kept with the term   *)
(* it is bound to, after whatever that term has kept already; it is its    *)
(* own if the name denotes that term, and insert into itself is undefined. *)
(*                                                                         *)
(* Two histories.  overloading has the terms that an overloaded name is    *)
(* bound to.  tangled says that a vector was ever put to two uses: the     *)
(* term has one of another binding that is in force, or what the name      *)
(* denoted has one that is inserted into itself or left from a binding     *)
(* that is no longer in force.                                             *)
Bind(s, n, e) ==
    LET old == s.symTable[n]
        ov == OverloadsOf(s, old)
        carried == IF ov = <<>> THEN <<old>> ELSE ov
        bound == [s EXCEPT !.symTable = n :> e @@ @,
                           !.decls = IF IsNested(s) THEN Append(@, n) ELSE @]
    IN  IF n \notin DOMAIN s.symTable THEN bound
        ELSE [EndsIf(e = old /\ ov # <<>>, bound, "undefined")
                 EXCEPT !.overloads = e :> Append(OverloadsOf(s, e) \o carried, e) @@ @,
                        !.overloadedDecls = IF IsNested(s) THEN Append(@, n) ELSE @,
                        !.overloading = @ \cup {e},
                        !.tangled = \/ @ \/ e \in s.overloading
                                    \/ ov # <<>> /\ (e = old \/ Last(ov) # old)]

BindAll(s, bs) == FoldLeft(LAMBDA t, b : Bind(t, b[1], b[2]), s, bs)

(* State::getVar; a name may be bound to the null term and then is not.     *)
Lookup(s, n) == IF n \in DOMAIN s.symTable THEN s.symTable[n] ELSE Null

GetVar(s) == ErrorIf(Lookup(s, s.name) = Null, [s EXCEPT !.val = Lookup(s, s.name)])

MkSymbol(s, k, n, type) == [s EXCEPT !.val = Symbol(k, n, type, s.made), !.made = @ + 1]

(* markConstructorKind, which is asserted to be called once for a symbol.  *)
Mark(s, v, attr, cons) ==
    [Asserts(AttrOf(s.marks, v) = "NONE", s)
        EXCEPT !.marks = v :> [NoInfo EXCEPT !.attr = attr, !.cons = cons] @@ @]

(* A builtin operator applied to nothing: iterators out of range in mkExpr *)
(* or, for _, a false assertion.                                           *)
RECURSIVE AppliesNothing(_, _)
AppliesNothing(m, children) ==
    \/ children = <<>>
    \/ LET k == InfoOf(m, Operator(children[1])).kind
       IN  \/ k \in {"FUNCTION_TYPE", "PARAMETERIZED"} /\ Len(children) = 1
           \/ k = "APPLY" /\ AppliesNothing(m, Tail(children))

(* An operator whose nil terminator has parameters, which are inferred     *)
(* from an argument, has none: an assertion fails.                         *)
RECURSIVE InfersFromNothing(_, _)
InfersFromNothing(m, children) ==
    LET k == InfoOf(m, children[1]).kind
        unknown(op) == op.kind # "PARAMETERIZED" /\ InfoOf(m, op).cons.kind = "PARAMETERIZED"
    IN  \/ Len(children) = 1 /\ unknown(children[1])
        \/ Len(children) = 2 /\ k = "EVAL_NIL" /\ unknown(children[2])
           /\ HasNil(AttrOf(m, children[2]))
        \/ k = "APPLY" /\ InfersFromNothing(m, Tail(children))

(* The arguments whose attributes mkExpr asks for.                         *)
RECURSIVE AskedFor(_, _)
AskedFor(m, children) ==
    LET info == InfoOf(m, Operator(children[1]))
    IN  IF info.kind = "APPLY" THEN AskedFor(m, Tail(children))
        ELSE IF HasNil(info.attr) THEN Range(Tail(children)) ELSE {}

Apply(s, children) ==
    IF AppliesNothing(s.marks, children)
    THEN EndsIf(TRUE, s, "undefined")
    ELSE [Asserts(/\ ~InfersFromNothing(s.marks, children)
                  /\ \A e \in AskedFor(s.marks, children) : e.kind # "PARAMETERIZED", s)
             EXCEPT !.val = MkApply(s.marks, children)]

EnsureBound(s, t, vars) == ErrorIf(~(Variables(t) \subseteq vars \cup {Self, Conclusion}), s)

-----------------------------------------------------------------------------
(* Frames *)

Frame(ctx, nscopes, args) == [ctx |-> ctx, nscopes |-> nscopes, args |-> args]

PushFrame(s, ctx, nscopes, args) ==
    [s EXCEPT !.pstack = Append(@, Frame(ctx, nscopes, args)), !.val = Null]

TopFrame(s) == Last(s.pstack)

WithTop(s, f) == [s EXCEPT !.pstack = Append(Front(@), f)]

PopFrame(s) == PopScopes([s EXCEPT !.pstack = Front(@)], TopFrame(s).nscopes)

(* The term read last becomes an argument of the innermost frame.          *)
AddArgument(s) ==
    WithTop([s EXCEPT !.val = Null], [TopFrame(s) EXCEPT !.args = Append(@, s.val)])

RECURSIVE ParseExpr(_)

(* Parsed type and formula; the type checker refuses the null term.        *)
ParseFormula(s) == LET a == ParseExpr(s) IN ErrorIf(a.val = Null, a)

ParseType(s) == LET a == ParseFormula(s)
                IN  ErrorIf(IsGround(a.val) /\ IsEvaluatable(a.val, ListOps), a)

-----------------------------------------------------------------------------
(* Lists *)

AppendVal(s, before) == [s EXCEPT !.list = Append(before, s.val)]

(* parseExprList and parseTypeList.                                        *)
ListOf(s, Parse(_)) ==
    LET Body(t) == LET a == NextToken(t)
                   IN  IF Took(a, ")") THEN Stop(a)
                       ELSE AppendVal(Parse(Reinsert(a, a.tok)), t.list)
    IN  Repeat([EatToken(s, "(") EXCEPT !.list = <<>>], Body)

ParseExprList(s) == ListOf(s, ParseExpr)

ParseTypeList(s) == ListOf(s, ParseType)

ParseSymbolList(s) ==
    LET Body(t) == LET a == NextToken(t)
                       b == ParseSymbol(Reinsert(a, a.tok))
                   IN  IF Took(a, ")") THEN Stop(a) ELSE [b EXCEPT !.list = Append(@, b.name)]
    IN  Repeat([EatToken(s, "(") EXCEPT !.list = <<>>], Body)

(* Two terms and a closing parenthesis.                                    *)
RestOfPair(s) == LET a == ParseExpr(s)
                     b == ParseExpr(a)
                 IN  [EatToken(b, ")") EXCEPT !.val = Pair(a.val, b.val)]

ParseExprPair(s) == RestOfPair(EatToken(s, "("))

ParseExprPairList(s) ==
    LET Body(t) == LET a == EatTokenChoice(t, "(", ")")
                   IN  IF Took(a, ")") THEN Stop(a) ELSE AppendVal(RestOfPair(a), t.list)
    IN  Repeat([EatToken(s, "(") EXCEPT !.list = <<>>], Body)

-----------------------------------------------------------------------------
(* Attributes *)

(* In the order of the enumeration, which is that of an AttrMap.           *)
AttrOrder == <<"NONE", "VAR", "IMPLICIT", "REQUIRES", "TYPE", "SORRY", "LIST", "BINDER",
               "LET_BINDER", "OPAQUE", "SYNTAX", "RESTRICT", "RIGHT_ASSOC", "LEFT_ASSOC",
               "RIGHT_ASSOC_NIL", "LEFT_ASSOC_NIL", "CHAINABLE", "PAIRWISE">>

NoAttrs == [a \in Range(AttrOrder) |-> <<>>]

Has(attrs, a) == attrs[a] # <<>>

ConstructorKinds == {"LIST", "BINDER", "LET_BINDER", "RIGHT_ASSOC", "LEFT_ASSOC",
                     "RIGHT_ASSOC_NIL", "LEFT_ASSOC_NIL", "CHAINABLE", "PAIRWISE"}

(* The attributes read in each context: on a rule, a parameter, a          *)
(* constant, a definition and any other term.                              *)
Allowed(context) ==
    CASE context = "PROOF_RULE" -> {"SORRY"}
      [] context = "PARAM" -> {"LIST", "IMPLICIT"}
      [] context = "CONST" -> ConstructorKinds \ {"LIST"}
      [] context = "LAMBDA" -> {"TYPE"}
      [] context = "NONE" -> {"IMPLICIT", "OPAQUE", "VAR", "RESTRICT", "REQUIRES", "SYNTAX"}

(* :var names a parameter whose type is the annotated term, and binds it   *)
(* in a scope that is opened for the first one.                            *)
VarAttribute(s, e) ==
    LET a == ParseSymbol(ErrorIf(e = Null \/ Has(s.attrs, "VAR"), s))
        b == MkSymbol(a, "PARAM", a.name, e)
        c == IF b.pushed THEN b ELSE PushScope([b EXCEPT !.pushed = TRUE])
    IN  Bind(c, a.name, b.val)

AttributeValue(s, attr, e) ==
    CASE attr \in {"RIGHT_ASSOC_NIL", "LEFT_ASSOC_NIL", "CHAINABLE", "PAIRWISE", "BINDER",
                   "RESTRICT", "TYPE"} -> ParseExpr(s)
      [] attr \in {"LET_BINDER", "REQUIRES"} -> ParseExprPair(s)
      [] attr = "VAR" -> VarAttribute(s, e)
      [] attr = "SYNTAX" -> [ParseLiteralKind(s) EXCEPT !.val = Null]
      [] attr = "SORRY" -> [s EXCEPT !.sorry = @ \cup {e}, !.val = Null]
      [] OTHER -> [s EXCEPT !.val = Null]

ParseAttributeList(s, context, e) ==
    LET Collect(t, a, v) == [t EXCEPT !.attrs[a] = Append(@, v)]
        Body(t) ==
            LET a == EatTokenChoice(t, "KEYWORD", ")")
                attr == AttrOfKeyword[a.str]
                next == PeekToken(a)
            IN  IF Took(a, ")") THEN Stop(a)
                ELSE IF a.str \notin DOMAIN AttrOfKeyword
                THEN Collect(IF Kind(next.tok) \in {"KEYWORD", ")"} THEN next
                             ELSE ParseSymbolicExpr(next), "NONE", Null)
                ELSE IF attr \notin Allowed(context) THEN Error(a)
                ELSE LET v == AttributeValue(a, attr, e) IN Collect(v, attr, v.val)
        end == Repeat([s EXCEPT !.attrs = NoAttrs], Body)
    IN  [Reinsert(end, ")") EXCEPT !.val = e]

(* The overload that closes the scope of a variable at once.               *)
ParseAttributes(s, context, e) ==
    LET a == ParseAttributeList([s EXCEPT !.pushed = FALSE], context, e)
    IN  IF a.pushed THEN PopScope(a) ELSE a

(* processAttributeMap: the first attribute on how to build applications   *)
(* counts.  A constructor term with parameters is made PARAMETERIZED.      *)
ConstructorKind(attrs) ==
    LET kinds == SelectSeq(AttrOrder, LAMBDA a : a \in ConstructorKinds /\ Has(attrs, a))
    IN  IF kinds = <<>> THEN "NONE" ELSE Head(kinds)

ProcessAttributeMap(s, params) ==
    LET attr == ConstructorKind(s.attrs)
        cons == Head(s.attrs[attr])
    IN  IF attr = "NONE" THEN s
        ELSE IF IsGround(cons) THEN [s EXCEPT !.val = cons]
        ELSE [Asserts(params # <<>>, s) EXCEPT !.val = Parameterized(cons, params)]

-----------------------------------------------------------------------------
(* Lists that bind *)

(* One variable of a sorted variable list, after its parenthesis.  An      *)
(* implicit one is bound and is not on the list.                           *)
SortedVar(s, isLookup) ==
    LET a == ParseSymbol(s)
        type == ParseType(a)
        canonical == Symbol("VARIABLE", a.name, type.val, 0)
        fresh == MkSymbol(type, "PARAM", a.name, type.val)
        b == ParseAttributes(Bind(fresh, a.name, fresh.val), "PARAM", fresh.val)
        c == IF ConstructorKind(b.attrs) = "NONE" THEN b
             ELSE Mark(b, fresh.val, ConstructorKind(b.attrs), Null)
        v == IF isLookup THEN canonical ELSE fresh.val
        d == EatToken(IF isLookup THEN Bind(type, a.name, v) ELSE c, ")")
    IN  IF ~isLookup /\ Has(b.attrs, "IMPLICIT")
        THEN [d EXCEPT !.implicits = @ + 1]
        ELSE [d EXCEPT !.list = Append(@, v)]

ParseAndBindSortedVarList(s, isLookup) ==
    LET Body(t) == LET a == EatTokenChoice(t, "(", ")")
                   IN  IF Took(a, ")") THEN Stop(a) ELSE SortedVar(a, isLookup)
    IN  Repeat([EatToken(s, "(") EXCEPT !.list = <<>>, !.implicits = 0], Body)

(* The variables of a let binder are bound when all terms have been read.  *)
ParseAndBindLetList(s) ==
    LET Body(t) ==
            LET a == EatTokenChoice(t, "(", ")")
                b == ParseSymbol(a)
                c == ParseExpr(b)
                d == EatToken(c, ")")
                e == MkSymbol(ErrorIf(c.val = Null, d), "VARIABLE", b.name,
                              Node("EVAL_TYPE_OF", <<c.val>>))
            IN  IF Took(a, ")") THEN Stop(a)
                ELSE [e EXCEPT !.list = Append(@, Pair(e.val, c.val))]
        end == Repeat([EatToken(s, "(") EXCEPT !.list = <<>>], Body)
    IN  BindAll(end, [i \in DOMAIN end.list |->
                         <<end.list[i].args[1].name, end.list[i].args[1]>>])

-----------------------------------------------------------------------------
(* A term is opened, closed or read in one token *)

(* Faulty: the parenthesis is put back before the token after it is looked *)
(* at.                                                                     *)
AfterParenthesisSwapped(s) == PeekToken(Reinsert(s, "("))

(* Faulty: two tokens after the parenthesis are looked at.                 *)
AfterParenthesisFurther(s) ==
    LET a == NextToken(s)
        b == NextToken(a)
    IN  [Reinsert(Reinsert(Reinsert(b, b.tok), a.tok), "(") EXCEPT !.tok = a.tok]

(* The token after an opening parenthesis is looked at and both are put    *)
(* back, the one to be read first last.                                    *)
AfterParenthesis(s) == Reinsert(PeekToken(s), "(")

(* An application of a binder begins with a list of variables when two     *)
(* parentheses follow the operator.                                        *)
OpenApplication(s) ==
    LET hd == GetVar(s).val
        a == GetAppInfo(GetVar(s), hd)
        attr == AttrOf(a.marks, hd)
        b == NextToken(a)
        c == AfterParenthesis(b)
        bound == IF attr = "BINDER"
                 THEN ParseAndBindSortedVarList(PushScope(c), LookupVars)
                 ELSE ParseAndBindLetList(PushScope(c))
        list == IF attr = "BINDER" THEN MkBinderList(bound.marks, hd, bound.list)
                ELSE MkLetBinderList(bound.marks, hd, bound.list)
        plain(t) == PushFrame(t, "NEXT_ARG", 0, <<hd>>)
    IN  IF Failed(a) THEN a
        ELSE IF attr \notin {"BINDER", "LET_BINDER"} THEN plain(a)
        ELSE IF ~Took(b, "(") THEN plain(Reinsert(b, b.tok))
        ELSE IF ~Took(c, "(") THEN plain(c)
        ELSE IF Failed(bound) \/ bound.list = <<>> THEN Error(bound)
        ELSE PushFrame(bound, "NEXT_ARG", 1, <<hd, list>>)

(* The token after the opening parenthesis has been taken.                 *)
OpenTerm(s) ==
    LET vars == ParseAndBindSortedVarList(PushScope(s), FALSE)
        indexed == ParseSymbol(PushFrame(s, "NEXT_ARG", 0, <<>>))
    IN  CASE Kind(s.tok) \in {"let", "eo::define"} ->
               [PushFrame(s, "LET_NEXT_BIND", 0, <<>>)
                   EXCEPT !.lets = Append(@, <<>>), !.update = TRUE]
          [] Took(s, "eo::match") -> PushFrame(vars, "MATCH_HEAD", 1, <<Tuple(vars.list)>>)
          [] Took(s, "!") -> PushFrame(s, "TERM_ANNOTATE_BODY", 0, <<>>)
          [] Took(s, "(") -> OpenApplication(ErrorIf(indexed.name # "_", indexed))
          [] Took(s, "SYMBOL") -> OpenApplication(TokenStrToSymbol(s))
          [] OTHER -> UnexpectedToken(s)

(* The last frame is taken before it is asked whether there is one: when a  *)
(* term begins with the parenthesis, back() of an empty vector.            *)
CloseApplication(s) ==
    IF s.pstack = <<>> THEN EndsIf(TRUE, s, "unopened")
    ELSE IF TopFrame(s).ctx # "NEXT_ARG" THEN UnexpectedToken(s)
    ELSE PopFrame(Apply(s, TopFrame(s).args))

ReadTerm(s) ==
    LET a == NextToken(s)
    IN  CASE Took(a, "(") -> OpenTerm(NextToken(a))
          [] Took(a, ")") -> CloseApplication(a)
          [] Took(a, "SYMBOL") -> GetVar(TokenStrToSymbol(a))
          [] Took(a, "INTEGER_LITERAL") -> [a EXCEPT !.val = Numeral(NumeralOf[a.str])]
          [] Took(a, "STRING_LITERAL") -> [a EXCEPT !.val = Value("STRING", a.str, 0)]
          [] Took(a, "Type") -> [a EXCEPT !.val = TypeType]
          [] Took(a, "Bool") -> [a EXCEPT !.val = BoolType]
          [] OTHER -> UnexpectedToken(a)

-----------------------------------------------------------------------------
(* What the innermost frame does with the term that has just been read *)

(* Faulty: a binding is visible in the terms of the bindings after it.     *)
LetNextBindSequential(s) ==
    LET bs == Last(s.lets)
        n == Len(bs)
        closed == EatToken([s EXCEPT !.lets[Len(s.lets)][n][2] = s.val, !.val = Null], ")")
        a == IF s.val # Null
             THEN Bind(IF n = 1 THEN PushScope(closed) ELSE closed, bs[n][1], s.val)
             ELSE EatToken(s, "(")
        b == EatTokenChoice(a, "(", ")")
        c == ParseSymbol(b)
    IN  IF Took(b, "(")
        THEN [c EXCEPT !.lets[Len(s.lets)] = Append(@, <<c.name, Null>>)]
        ELSE WithTop([b EXCEPT !.lets = Front(@)],
                     [TopFrame(b) EXCEPT !.ctx = "LET_BODY", !.nscopes = IF n = 0 THEN @ ELSE @ + 1])

(* A binding is complete or, without a term, the list of bindings begins.  *)
(* They are all bound after the last one has been read.                    *)
LetNextBind(s) ==
    LET bs == Last(s.lets)
        a == IF s.val # Null
             THEN EatToken([s EXCEPT !.lets[Len(s.lets)][Len(bs)][2] = s.val, !.val = Null], ")")
             ELSE EatToken(s, "(")
        b == EatTokenChoice(a, "(", ")")
        c == ParseSymbol(b)
        body == WithTop([b EXCEPT !.lets = Front(@)],
                        [TopFrame(b) EXCEPT !.ctx = "LET_BODY", !.nscopes = @ + 1])
    IN  IF Took(b, "(")
        THEN [c EXCEPT !.lets[Len(s.lets)] = Append(@, <<c.name, Null>>)]
        ELSE BindAll(PushScope(body), Last(a.lets))

LetBody(s) == PopFrame(EatToken(s, ")"))

(* Faulty: the scope is not counted in the frame around the term.          *)
ScopeOfVarUncounted(s) == s

(* The scope of a :var lasts until the frame around the annotated term is  *)
(* closed.  When there is none, nobody closes it; leaks counts these.      *)
ScopeOfVar(s) ==
    IF ~s.pushed THEN s
    ELSE IF Len(s.pstack) > 1 THEN [s EXCEPT !.pstack[Len(s.pstack) - 1].nscopes = @ + 1]
    ELSE [s EXCEPT !.leaks = @ + 1]

TermAnnotateBody(s) ==
    LET a == ParseAttributeList([s EXCEPT !.pushed = FALSE], "NONE", s.val)
        has(attr) == Has(a.attrs, attr)
        quoted == IF has("VAR") THEN QuoteType(a.attrs["VAR"][1]) ELSE s.val
        shown == IF has("IMPLICIT") THEN Null ELSE quoted
        required == IF has("REQUIRES") THEN RequiresAll(a.attrs["REQUIRES"], shown) ELSE shown
        result == IF has("OPAQUE") THEN Node("OPAQUE_TYPE", <<required>>) ELSE required
        b == ErrorIf(\/ shown = Null /\ (has("REQUIRES") \/ has("OPAQUE"))
                     \/ has("OPAQUE") /\ required.kind = "EVAL_REQUIRES", ScopeOfVar(a))
    IN  PopFrame([EatToken(b, ")") EXCEPT !.val = result])

MatchHead(s) ==
    LET a == EatToken(AddArgument(s), "(")
    IN  WithTop([a EXCEPT !.update = TRUE], [TopFrame(a) EXCEPT !.ctx = "MATCH_NEXT_CASE"])

(* The variables of the cases that the match does not bind.                *)
Environment(vars, cases) == SetToSeq(VariablesIn(cases) \ vars)

(* A match becomes a program of its own, with the variables that come from *)
(* outside as further arguments, and an application of that program.       *)
MatchProgram(s) ==
    LET args == TopFrame(s).args
        vars == Range(args[1].args)
        cases == SubSeq(args, 3, Len(args))
        env == Environment(vars, cases)
        type == PlainFunctionType([i \in 1 .. 1 + Len(env) |-> AbstractType], AbstractType)
        a == MkSymbol(s, "PROGRAM_CONST", "_match_", type)
        wellBound(c) ==
            /\ Variables(c.args[1]) \subseteq vars \cup {Self, Conclusion}
            /\ Variables(c.args[2]) \cap vars \subseteq Variables(c.args[1])
        program == Node("PROGRAM",
                        [i \in DOMAIN cases |->
                            Pair(MkApply(s.marks, <<a.val, cases[i].args[1]>> \o env),
                                 cases[i].args[2])])
        b == ErrorIf(\E i \in DOMAIN cases : ~wellBound(cases[i]), a)
        c == Mark(b, a.val, "PROGRAM", program)
    IN  IF Len(args) <= 2 THEN Error(s)
        ELSE PopFrame([c EXCEPT !.val = MkApply(c.marks, <<a.val, args[2]>> \o env)])

(* A pattern or the result of the case that has been begun; then perhaps   *)
(* another case.                                                           *)
MatchNextCase(s) ==
    LET args == TopFrame(s).args
        begun == Len(args) > 2 /\ Last(args).kind # "TUPLE"
        paired == WithTop([s EXCEPT !.val = Null],
                          [TopFrame(s) EXCEPT !.args = Append(Front(@), Pair(Last(@), s.val))])
        a == IF s.val = Null THEN s ELSE EatToken(paired, ")")
        b == EatTokenChoice(a, ")", "(")
    IN  IF s.val # Null /\ ~begun THEN AddArgument(s)
        ELSE IF Took(b, "(") THEN b
        ELSE MatchProgram(EatToken(b, ")"))

UpdateContext(s) ==
    LET ctx == TopFrame(s).ctx
    IN  CASE ctx = "NEXT_ARG" -> AddArgument(s)
          [] ctx = "LET_NEXT_BIND" -> LetNextBind(s)
          [] ctx = "LET_BODY" -> LetBody(s)
          [] ctx = "TERM_ANNOTATE_BODY" -> TermAnnotateBody(s)
          [] ctx = "MATCH_HEAD" -> MatchHead(s)
          [] ctx = "MATCH_NEXT_CASE" -> MatchNextCase(s)

UpdateContexts(s) ==
    LET Body(t) == IF t.pstack # <<>> /\ (t.val # Null \/ t.update)
                   THEN UpdateContext([t EXCEPT !.update = FALSE])
                   ELSE Stop(t)
    IN  IF Failed(s) THEN s ELSE Repeat(s, Body)

(* The caller's local variables are its own again when the call returns.   *)
ReturnTo(s, r) ==
    [r EXCEPT !.pstack = s.pstack, !.lets = s.lets, !.update = s.update, !.attrs = s.attrs,
              !.pushed = s.pushed, !.list = s.list, !.implicits = s.implicits,
              !.binds = s.binds]

ParseExpr(s) ==
    LET Body(t) == LET a == UpdateContexts(ReadTerm(t)) IN [a EXCEPT !.more = a.pstack # <<>>]
        begin == [s EXCEPT !.pstack = <<>>, !.lets = <<>>, !.update = FALSE, !.val = Null]
    IN  IF Failed(s) THEN s ELSE ReturnTo(s, Repeat(begin, Body))

=============================================================================

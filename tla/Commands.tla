------------------------------ MODULE Commands ------------------------------
(***************************************************************************)
(* The commands that declare, define and assert, CmdParser                 *)
(* (src/cmd_parser.cpp), with the datatype definitions of ExprParser.      *)
(*                                                                         *)
(* A step of the program reads one command.  Each handler is an operator   *)
(* on the state of the parser, as in TermParser.tla.  The commands of      *)
(* proofs and files (assume, step, include, reference, reset, exit) are    *)
(* those of ProofChecker.tla, and so is what an assertion is used for.     *)
(*                                                                         *)
(* The input comes in pieces, each of one or more commands.  A command     *)
(* that meets the end of what there is ends the program, so a piece that   *)
(* breaks off is the end of the file.                                      *)
(***************************************************************************)
EXTENDS TermParser

CONSTANTS
    RuleSymTable,   \* d_ruleSymTable: proof rules have names of their own
    Oracles,        \* the names of oracle programs that exist
    Texts           \* bound of the model: Texts[n] has the nth pieces of input

VARIABLES
    input,          \* the tokens given that have not been read
    peeked,         \* d_peeked of the lexer
    pieces,         \* how many pieces of the input have been given
    symTable,       \* d_symTable: what names are bound to
    decls,          \* d_decls
    declsSizeCtx,   \* d_declsSizeCtx
    overloadedDecls,\* d_overloadedDecls
    overloads,      \* d_overloads in d_appData, where it is not empty
    rules,          \* d_ruleSymTable
    marks,          \* d_appData: attributes and constructor terms
    made,           \* how many symbols have been made
    literalTypes,   \* d_literalTypeRules
    sorry,          \* d_pfrSorry
    asserts,        \* the terms asserted
    outcome,        \* "ok" as long as the program runs
    saved,          \* history: the symbol table when each open scope was entered
    overloading,    \* history: the terms that overloaded names are bound to
    tangled,        \* history: the overloads of a term served two bindings
    leaks,          \* history: how many scopes were left open
    stale,          \* history: a text was taken for that of another token
    read            \* history: the tokens of the last command

tableVars == <<symTable, decls, declsSizeCtx, overloadedDecls, overloads, saved, overloading>>

commandVars == <<input, peeked, pieces, tableVars, rules, marks, made, literalTypes, sorry, asserts,
                outcome, leaks, stale, tangled, read>>

-----------------------------------------------------------------------------
(* Declarations of symbols *)

(* The opaque arguments a function type begins with, and the rest of it.   *)
RECURSIVE PeelOpaque(_)
PeelOpaque(t) ==
    IF t.kind = "FUNCTION_TYPE" /\ t.args[1].kind = "OPAQUE_TYPE"
    THEN LET below == PeelOpaque(t.args[2])
         IN  [args |-> t.args[1].args \o below.args, rest |-> below.rest,
              binary |-> Len(t.args) = 2 /\ below.binary]
    ELSE [args |-> <<>>, rest |-> t, binary |-> TRUE]

(* The symbol declared, marked with its attribute and not bound yet.       *)
NewSymbol(s, k, n, type, attr, cons) ==
    LET peeled == PeelOpaque(type)
        opaque == peeled.args # <<>>
        a == ErrorIf(opaque /\ attr # "NONE", Asserts(peeled.binary, s))
        b == MkSymbol(a, k, n, PlainFunctionType(peeled.args, peeled.rest))
    IN  IF opaque THEN Mark(b, b.val, "OPAQUE", Null)
        ELSE IF attr = "NONE" THEN b
        ELSE Mark(b, b.val, attr, cons)

BindSymbol(s, n) == Bind(s, n, s.val)

DeclareConst(s) ==
    LET a == ParseSymbol(s)
        t == ParseType(a)
        b == ProcessAttributeMap(ParseAttributes(t, "CONST", Null), <<>>)
    IN  BindSymbol(NewSymbol(b, "CONST", a.name, t.val, ConstructorKind(b.attrs), b.val), a.name)

DeclareFun(s) ==
    LET a == ParseSymbol(s)
        b == ParseTypeList(a)
        c == ParseType(b)
    IN  BindSymbol(NewSymbol(c, "CONST", a.name, FunctionType(b.list, c.val), "NONE", Null), a.name)

DeclareOracleFun(s) ==
    LET a == ParseSymbol(s)
        b == ParseTypeList(a)
        c == ParseType(b)
        d == ParseSymbol(c)
        e == NewSymbol(d, "ORACLE", a.name, PlainFunctionType(b.list, c.val), "ORACLE",
                       Value("STRING", d.name, 0))
    IN  BindSymbol(ErrorIf(d.name \notin Oracles, e), a.name)

(* The parameters are in scope until the symbol has been marked.           *)
DeclareParameterizedConst(s) ==
    LET a == ParseSymbol(s)
        b == ParseAndBindSortedVarList(PushScope(a), FALSE)
        t == ParseType(b)
        c == ProcessAttributeMap(ParseAttributes(t, "CONST", Null), b.list)
        d == NewSymbol(c, "CONST", a.name, t.val, ConstructorKind(c.attrs), c.val)
    IN  BindSymbol(PopScope(d), a.name)

DeclareSort(s) ==
    LET a == ParseSymbol(s)
        b == ParseIntegerNumeral(a)
    IN  BindSymbol(MkSymbol(b, "CONST", a.name, TypeConstantType(b.number)), a.name)

DeclareType(s) ==
    LET a == ParseSymbol(s)
        b == ParseTypeList(a)
    IN  BindSymbol(MkSymbol(b, "CONST", a.name, FunctionType(b.list, TypeType)), a.name)

(* A kind of literals has one type for good.                               *)
DeclareConsts(s) ==
    LET a == ParseLiteralKind(s)
        b == ParseType(a)
        known == b.literalTypes[a.name]
    IN  IF Failed(b) THEN b
        ELSE ErrorIf(known # Null /\ known # b.val, [b EXCEPT !.literalTypes[a.name] = b.val])

-----------------------------------------------------------------------------
(* Datatypes *)

(* What a datatype binds is collected and bound when its body is complete. *)
Selector(s, dt) ==
    LET a == ParseSymbol(s)
        t == ParseType(a)
        update == "update-" \o a.name
        sel == Symbol("CONST", a.name, FunctionType(<<dt>>, t.val), t.made)
        updater == Symbol("CONST", update, FunctionType(<<dt, t.val>>, dt), t.made + 1)
    IN  EatToken([t EXCEPT !.made = @ + 2, !.list = Append(@, sel),
                           !.binds = @ \o <<<<a.name, sel>>, <<update, updater>>>>], ")")

Constructor(s, dt) ==
    LET a == ParseSymbol(s)
        Body(t) == LET b == EatTokenChoice(t, "(", ")")
                   IN  IF Took(b, ")") THEN Stop(b) ELSE Selector(b, dt)
        c == Repeat([a EXCEPT !.list = <<>>], Body)
        types == [i \in DOMAIN c.list |-> c.list[i].type[1].args[2]]
        test == "is-" \o a.name
        cons == Symbol("CONST", a.name, FunctionType(types, dt), c.made)
        tester == Symbol("CONST", test, FunctionType(<<dt>>, BoolType), c.made + 1)
    IN  [c EXCEPT !.made = @ + 2,
                  !.constructors = Append(@, [of |-> c.bodies + 1, term |-> cons,
                                              selectors |-> c.list]),
                  !.binds = @ \o <<<<a.name, cons>>, <<test, tester>>>>]

ParseConstructorDefinitionList(s, dt) ==
    LET Body(t) == LET a == EatTokenChoice(t, "(", ")")
                   IN  IF Took(a, ")") THEN Stop(a) ELSE Constructor(a, dt)
    IN  Repeat(EatToken(s, "("), Body)

(* One datatype after the parenthesis of its definition.  If its number of *)
(* parameters is not known from before, it is bound only now: in the scope *)
(* of the parameters, if there are any.                                    *)
DatatypeDefinition(s, name, arities) ==
    LET i == s.bodies + 1
        a == NextToken(s)
        isPar == Took(a, "par")
        p == ParseSymbolList(PushScope(a))
        params == IF isPar
                  THEN [j \in DOMAIN p.list |-> Symbol("PARAM", p.list[j], TypeType, p.made + j)]
                  ELSE <<>>
        scoped == BindAll([ErrorIf(p.list = <<>>, p) EXCEPT !.made = @ + Len(params) + 1],
                          [j \in DOMAIN params |-> <<params[j].name, params[j]>>])
        b == IF isPar THEN scoped ELSE Reinsert(Reinsert(a, a.tok), "(")
        new == MkSymbol(b, "CONST", name, TypeConstantType(Len(params)))
        c == IF arities = <<>>
             THEN [Bind(new, name, new.val) EXCEPT !.datatypes = Append(@, new.val)]
             ELSE ErrorIf(arities[i] # Len(params), b)
        d == [ParseConstructorDefinitionList(c, Curry(<<c.datatypes[i]>> \o params))
                 EXCEPT !.bodies = i]
        e == IF isPar THEN PopScope(EatToken(d, ")")) ELSE d
    IN  IF Failed(c) THEN c ELSE [BindAll(e, e.binds) EXCEPT !.binds = <<>>]

(* Types whose number of parameters is known can occur in every body.      *)
ParseDatatypesDef(s, names, arities) ==
    LET Known(t, i) == LET a == MkSymbol(t, "CONST", names[i], TypeConstantType(arities[i]))
                       IN  [Bind(a, names[i], a.val) EXCEPT !.datatypes = Append(@, a.val)]
        begin == FoldLeft(Known, [s EXCEPT !.datatypes = <<>>, !.constructors = <<>>,
                                           !.binds = <<>>, !.bodies = 0],
                          [i \in DOMAIN arities |-> i])
        Body(t) == LET a == NextToken(t)
                   IN  IF ~Took(a, "(") THEN Stop(a)
                       ELSE IF t.bodies >= Len(names) THEN Error(a)
                       ELSE DatatypeDefinition(a, names[t.bodies + 1], arities)
        end == Repeat(begin, Body)
    IN  IF Len(end.datatypes) # Len(names) THEN UnexpectedToken(end)
        ELSE Reinsert(end, end.tok)

(* A datatype whose body is missing is not noticed and is not marked.      *)
MarkDatatypes(s, attr) ==
    LET Of(i) == SelectSeq(s.constructors, LAMBDA c : c.of = i)
        Terms(cs) == [j \in DOMAIN cs |-> cs[j].term]
        MarkType(t, i) == Mark(t, s.datatypes[i], attr, MkList(s.marks, Terms(Of(i))))
        MarkConstructor(t, c) ==
            Mark(t, c.term, "DATATYPE_CONSTRUCTOR", MkList(s.marks, c.selectors))
    IN  IF Failed(s) THEN s
        ELSE FoldLeft(MarkConstructor,
                      FoldLeft(MarkType, s, [i \in 1 .. s.bodies |-> i]), s.constructors)

DeclareDatatype(s, attr) ==
    LET a == ParseSymbol(s) IN MarkDatatypes(ParseDatatypesDef(a, <<a.name>>, <<>>), attr)

DeclareDatatypes(s, attr) ==
    LET Body(t) == LET a == EatTokenChoice(t, "(", ")")
                       b == ParseSymbol(a)
                       c == ParseIntegerNumeral(b)
                   IN  IF Took(a, ")") THEN Stop(a)
                       ELSE [EatToken(c, ")") EXCEPT !.list = Append(@, <<b.name, c.number>>)]
        a == Repeat([EatToken(s, "(") EXCEPT !.list = <<>>], Body)
        b == EatToken(ErrorIf(a.list = <<>>, a), "(")
        names == [i \in DOMAIN a.list |-> a.list[i][1]]
        arities == [i \in DOMAIN a.list |-> a.list[i][2]]
    IN  IF Failed(b) THEN b
        ELSE EatToken(MarkDatatypes(ParseDatatypesDef(b, names, arities), attr), ")")

-----------------------------------------------------------------------------
(* Rules and programs *)

(* bind of a proof rule.                                                   *)
BindRule(s, n) ==
    IF ~RuleSymTable THEN BindSymbol(s, n)
    ELSE [ErrorIf(n \in DOMAIN s.rules, Asserts(~IsNested(s), s))
             EXCEPT !.rules = n :> s.val @@ @]

(* An optional keyword, which may only be :ethos.                          *)
OptionalFormat(s) ==
    LET a == PeekToken(s)
        b == ParseKeyword(a)
    IN  IF Took(a, "KEYWORD") THEN ErrorIf(b.name # ":ethos", b) ELSE a

(* A part of a rule, if the keyword read last is the one it begins with,   *)
(* and the keyword after it.  The part is left in list.                    *)
Part(s, keyword, Parse(_)) ==
    IF ~Failed(s) /\ s.name = keyword
    THEN LET a == Parse(s) IN [ParseKeyword(a) EXCEPT !.list = a.list]
    ELSE [s EXCEPT !.list = <<>>]

OneTerm(s) == AppendVal(ParseExpr(s), <<>>)

TwoTerms(s) == LET a == OneTerm(s) IN AppendVal(ParseExpr(a), a.list)

DeclareRule(s) ==
    LET a == ParseSymbol(PushScope(s))
        vars == ParseAndBindSortedVarList(OptionalFormat(a), FALSE)
        assume == Part(ParseKeyword(vars), ":assumption", OneTerm)
        premises == Part(assume, ":premises", ParseExprList)
        combined == Part(premises, ":premise-list", TwoTerms)
        isList == assume.name = ":premise-list"
        args == Part(IF isList THEN combined ELSE premises, ":args", ParseExprList)
        inner == Bind(PushScope(args), "eo::conclusion", Conclusion)
        reqs == Part([inner EXCEPT !.name = args.name], ":requires", ParseExprPairList)
        b == IF args.name = ":requires" THEN PopScope(reqs) ELSE [args EXCEPT !.list = <<>>]
        c == IF b.name = ":conclusion" THEN ParseExpr(b)
             ELSE IF b.name = ":conclusion-given" THEN [b EXCEPT !.val = Conclusion]
             ELSE Error(b)
        proofs == IF isList THEN <<Head(combined.list)>> ELSE premises.list
        argTypes == [i \in DOMAIN args.list |-> QuoteType(args.list[i])]
                    \o [i \in DOMAIN proofs |-> ProofType(proofs[i])]
                    \o [i \in DOMAIN assume.list |-> QuoteType(assume.list[i])]
        ret == RequiresAll(b.list, ProofType(c.val))
        d == PopScope(EnsureBound(c, ret, VariablesIn(argTypes)))
        rule == MkSymbol(d, "PROOF_RULE", a.name, PlainFunctionType(argTypes, ret))
        e == BindRule(rule, a.name)
        f == IF isList THEN Mark(e, rule.val, "PREMISE_LIST", combined.list[2]) ELSE e
    IN  IF Failed(c) THEN c ELSE ParseAttributes(f, "PROOF_RULE", rule.val)

(* The program is bound while its body is read, so that it can call        *)
(* itself, and again when the scope of its parameters has been closed.     *)
Program(s) ==
    LET a == ParseSymbol(s)
        vars == ParseAndBindSortedVarList(PushScope(OptionalFormat(a)), FALSE)
        types == ParseTypeList(vars)
        ret == ParseType(types)
        type == PlainFunctionType(types.list, ret.val)
        prev == Lookup(ret, a.name)
        new == MkSymbol(ret, "PROGRAM_CONST", a.name, type)
        known == ErrorIf(\/ prev.kind # "PROGRAM_CONST"
                         \/ AttrOf(ret.marks, prev) = "PROGRAM"
                         \/ prev.type # <<type>>,
                         [ret EXCEPT !.val = prev])
        b == IF prev = Null THEN BindSymbol(new, a.name) ELSE known
        pvar == b.val
        next == PeekToken(b)
        body == ParseExprPairList(next)
        isCase(c) ==
            LET lhs == c.args[1]
            IN  /\ lhs.kind = "APPLY" /\ lhs.args[1] = pvar
                /\ Len(lhs.args) = Len(types.list) + 1
                /\ Variables(c.args[2]) \subseteq Variables(lhs) \cup {Self, Conclusion}
                /\ \A i \in DOMAIN lhs.args : ~IsEvaluatable(lhs.args[i], ListOps)
        defined == PopScope(ErrorIf(\/ body.list = <<>>
                                    \/ \E i \in DOMAIN body.list : ~isCase(body.list[i]), body))
        c == IF Took(next, ")") THEN PopScope(next)
             ELSE IF Failed(defined) THEN defined
             ELSE Mark(defined, pvar, "PROGRAM", Node("PROGRAM", body.list))
    IN  IF prev = Null /\ ~Failed(c) THEN Bind(c, a.name, pvar) ELSE c

-----------------------------------------------------------------------------
(* Definitions *)

DefineConst(s) ==
    LET a == ParseSymbol(s)
        b == ParseFormula(ParseType(a))
    IN  Bind(b, a.name, b.val)

Lambda(vars, t) == IF vars = <<>> THEN t ELSE Node("LAMBDA", <<Tuple(vars), t>>)

(* Faulty: the parameters that are not arguments stay in scope.            *)
ParametersAll(s) == ParseAndBindSortedVarList(PushScope(s), FALSE)

(* The scope of the parameters of a definition.  If some are implicit, it  *)
(* is closed and opened again with the explicit ones only.                 *)
Parameters(s) ==
    LET a == ParseAndBindSortedVarList(PushScope(s), FALSE)
    IN  IF a.implicits = 0 THEN a
        ELSE BindAll(PushScope(PopScope(a)),
                     [i \in DOMAIN a.list |-> <<a.list[i].name, a.list[i]>>])

Define(s) ==
    LET a == ParseSymbol(s)
        vars == Parameters(a)
        b == ParseExpr(vars)
        t == Lambda(vars.list, b.val)
    IN  ParseAttributes(Bind(PopScope(b), a.name, t), "LAMBDA", t)

DefineType(s) ==
    LET a == ParseSymbol(s)
        vars == Parameters(a)
        b == ParseFormula(vars)
    IN  Bind(PopScope(b), a.name, Lambda(vars.list, b.val))

(* For reference checking: a constant and the assertion that it equals the *)
(* body, for which the user must have defined = and perhaps lambda.        *)
DefineFun(s) ==
    LET a == ParseSymbol(s)
        vars == Parameters(a)
        ret == ParseType(vars)
        b == PopScope(ParseFormula(ret))
        eq == Lookup(b, "=")
        lambda == Lookup(b, "lambda")
        rhs == IF vars.list = <<>> THEN b.val
               ELSE MkApply(b.marks, <<lambda, MkBinderList(b.marks, lambda, vars.list), b.val>>)
        types == [i \in DOMAIN vars.list |-> vars.list[i].type[1]]
        usable == \/ vars.list = <<>>
                  \/ lambda # Null /\ lambda \in DOMAIN b.marks
        known == Asserts(usable, ErrorIf(eq = Null \/ (vars.list # <<>> /\ lambda = Null), b))
        c == MkSymbol(known, "CONST", a.name, PlainFunctionType(types, ret.val))
    IN  IF Failed(c) THEN c
        ELSE [Bind(c, a.name, c.val)
                 EXCEPT !.asserts = Append(@, MkApply(c.marks, <<eq, c.val, rhs>>))]

DefineSort(s) ==
    LET a == ParseSymbol(s)
        b == ParseSymbolList(a)
        params == [i \in DOMAIN b.list |-> Symbol("PARAM", b.list[i], TypeType, b.made + i)]
        c == BindAll(PushScope([b EXCEPT !.made = @ + Len(params) + 1]),
                     [i \in DOMAIN params |-> <<params[i].name, params[i]>>])
        t == ParseType(IF params = <<>> THEN b ELSE c)
    IN  Bind(IF params = <<>> THEN t ELSE PopScope(t), a.name, Lambda(params, t.val))

-----------------------------------------------------------------------------
(* The commands of ordinary inputs *)

Assertion(s) == LET a == ParseFormula(s) IN [a EXCEPT !.asserts = Append(@, a.val)]

Times(s) ==
    LET a == PeekToken(s)
    IN  IF Took(a, "INTEGER_LITERAL") THEN ParseIntegerNumeral(a) ELSE [a EXCEPT !.number = 1]

PushScopes(s) ==
    LET a == Times(s) IN FoldLeft(LAMBDA t, i : PushScope(t), a, [i \in 1 .. a.number |-> i])

(* A scope after the other is closed, until there is none.                 *)
PopEach(s) ==
    LET a == Times(s) IN PopScopes(a, a.number)

SetInfo(s) == ParseSymbolicExpr(ParseKeyword(s))

(* An option is looked at first; what it does is not modelled.             *)
SetOption(s) == ParseSymbolicExpr(PeekToken(ParseKeyword(s)))

Echo(s) == LET a == PeekToken(s) IN IF Took(a, "STRING_LITERAL") THEN NextToken(a) ELSE a

-----------------------------------------------------------------------------
(* Reading one command *)

Pieces == Texts

(* The tokens that are there, or a further piece of the input.             *)
Given == IF input # <<>> THEN {input}
         ELSE IF pieces < Len(Pieces) THEN Pieces[pieces + 1]
         ELSE {}

Begin(text) ==
    [input |-> text, peeked |-> peeked, tok |-> "", str |-> "", stale |-> stale,
     symTable |-> symTable, decls |-> decls, declsSizeCtx |-> declsSizeCtx,
     overloadedDecls |-> overloadedDecls, overloads |-> overloads, saved |-> saved,
     overloading |-> overloading, tangled |-> tangled, rules |-> rules, marks |-> marks, made |-> made,
     literalTypes |-> literalTypes, sorry |-> sorry, asserts |-> asserts,
     outcome |-> outcome, leaks |-> leaks,
     val |-> Null, name |-> "", number |-> 0, depth |-> 0, more |-> FALSE, list |-> <<>>,
     implicits |-> 0, attrs |-> NoAttrs, pushed |-> FALSE, pstack |-> <<>>, lets |-> <<>>,
     update |-> FALSE, binds |-> <<>>, datatypes |-> <<>>, constructors |-> <<>>, bodies |-> 0]

(* The parenthesis a command begins with and its name.                     *)
BeginCommand(text) == NextToken(EatTokenChoice(Begin(text), "(", "EOF"))

(* The program goes on from s; the program that ends keeps what it had.    *)
Becomes(text, s) ==
    /\ outcome' = s.outcome
    /\ leaks' = s.leaks
    /\ stale' = s.stale
    /\ tangled' = s.tangled
    /\ read' = SubSeq(text, 1, Len(text) - Len(s.input))
    /\ pieces' = IF input = <<>> THEN pieces + 1 ELSE pieces
    /\ IF Failed(s)
       THEN UNCHANGED <<input, peeked, tableVars, rules, marks, made, literalTypes, sorry, asserts>>
       ELSE /\ input' = s.input
            /\ peeked' = s.peeked
            /\ symTable' = s.symTable
            /\ decls' = s.decls
            /\ declsSizeCtx' = s.declsSizeCtx
            /\ overloadedDecls' = s.overloadedDecls
            /\ overloads' = s.overloads
            /\ saved' = s.saved
            /\ overloading' = s.overloading
            /\ rules' = s.rules
            /\ marks' = s.marks
            /\ made' = s.made
            /\ literalTypes' = s.literalTypes
            /\ sorry' = s.sorry
            /\ asserts' = s.asserts

(* The command called word: its handler, then the closing parenthesis.     *)
Reads(word, Handler(_)) ==
    /\ outcome = "ok"
    /\ \E text \in Given : \E s \in {BeginCommand(text)} :
          /\ ~Failed(s)
          /\ s.tok = word
          /\ \E t \in {EatToken(Handler(s), ")")} : Becomes(text, t)

CommandNames ==
    {"declare-const", "declare-fun", "declare-oracle-fun", "declare-parameterized-const",
     "declare-datatype", "declare-codatatype", "declare-datatypes", "declare-codatatypes",
     "declare-consts", "declare-rule", "declare-sort", "declare-type", "define-const", "define",
     "define-fun", "define-type", "define-sort", "echo", "program", "assert", "check-sat",
     "check-sat-assuming", "push", "pop", "set-logic", "set-info", "set-option"}

(* What is no command ends the program.                                    *)
Refuse ==
    /\ outcome = "ok"
    /\ \E text \in Given : \E s \in {BeginCommand(text)} :
          /\ Failed(s) \/ s.tok \notin CommandNames
          /\ Becomes(text, Error(s))

Init ==
    /\ input = <<>>
    /\ peeked = <<>>
    /\ pieces = 0
    /\ symTable = InitialBindings
    /\ decls = <<>>
    /\ declsSizeCtx = <<>>
    /\ overloadedDecls = <<>>
    /\ overloads = <<>>
    /\ saved = <<>>
    /\ overloading = {}
    /\ tangled = FALSE
    /\ rules = <<>>
    /\ marks = InitialMarks
    /\ made = 1
    /\ literalTypes = [k \in LiteralKinds |-> Null]
    /\ sorry = {}
    /\ asserts = <<>>
    /\ outcome = "ok"
    /\ leaks = 0
    /\ stale = FALSE
    /\ read = <<>>

Declare == \/ Reads("declare-const", DeclareConst)
           \/ Reads("declare-fun", DeclareFun)
           \/ Reads("declare-oracle-fun", DeclareOracleFun)
           \/ Reads("declare-parameterized-const", DeclareParameterizedConst)
           \/ Reads("declare-sort", DeclareSort)
           \/ Reads("declare-type", DeclareType)
           \/ Reads("declare-consts", DeclareConsts)
           \/ Reads("declare-rule", DeclareRule)
           \/ Reads("program", Program)

DeclareData == \/ Reads("declare-datatype", LAMBDA s : DeclareDatatype(s, "DATATYPE"))
               \/ Reads("declare-codatatype", LAMBDA s : DeclareDatatype(s, "CODATATYPE"))
               \/ Reads("declare-datatypes", LAMBDA s : DeclareDatatypes(s, "DATATYPE"))
               \/ Reads("declare-codatatypes", LAMBDA s : DeclareDatatypes(s, "CODATATYPE"))

DefineName == \/ Reads("define", Define)
              \/ Reads("define-const", DefineConst)
              \/ Reads("define-fun", DefineFun)
              \/ Reads("define-type", DefineType)
              \/ Reads("define-sort", DefineSort)

Ordinary == \/ Reads("assert", Assertion)
            \/ Reads("check-sat", LAMBDA s : s)
            \/ Reads("check-sat-assuming", ParseExprList)
            \/ Reads("push", PushScopes)
            \/ Reads("pop", PopEach)
            \/ Reads("set-logic", ParseSymbol)
            \/ Reads("set-info", SetInfo)
            \/ Reads("set-option", SetOption)
            \/ Reads("echo", Echo)

Next == Declare \/ DeclareData \/ DefineName \/ Ordinary \/ Refuse

Spec == Init /\ [][Next]_commandVars

=============================================================================

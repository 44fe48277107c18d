---------------------------- MODULE ParserProps ----------------------------
(***************************************************************************)
(* What the parser of terms and of declarations promises.                  *)
(***************************************************************************)
EXTENDS Commands

CONSTANTS
    Asts,     \* bound of the model: the terms whose text is asserted
    Whole     \* bound of the model: the texts that the grammar of commands has

-----------------------------------------------------------------------------
(* Terms as the grammar has them, what is written and what it means.       *)

Ast(op, name, binds, args) == [op |-> op, name |-> name, binds |-> binds, args |-> args]

Name(n) == Ast("symbol", n, <<>>, <<>>)
Applied(n, args) == Ast("apply", n, <<>>, args)
Let(binds, body) == Ast("let", "let", binds, <<body>>)
Binder(n, vars, body) == Ast("binder", n, vars, <<body>>)
LetBinder(n, binds, body) == Ast("let-binder", n, binds, <<body>>)
Named(n, type) == Ast("var", n, <<>>, <<type>>)

Parenthesized(s) == <<"(">> \o s \o <<")">>

RECURSIVE Text(_)
Text(a) ==
    LET args == FlattenSeq([i \in DOMAIN a.args |-> Text(a.args[i])])
        binds == FlattenSeq([i \in DOMAIN a.binds |->
                                Parenthesized(<<a.binds[i][1]>> \o Text(a.binds[i][2]))])
    IN  CASE a.op = "symbol" -> <<a.name>>
          [] a.op = "apply" -> Parenthesized(<<a.name>> \o args)
          [] a.op = "var" -> Parenthesized(<<"!">> \o args \o <<":var", a.name>>)
          [] OTHER -> Parenthesized(<<a.name>> \o Parenthesized(binds) \o args)

AssertOf(a) == Parenthesized(<<"assert">> \o Text(a))

Written == {<<AssertOf(a), a>> : a \in Asts}

(* The meaning of a in the environment e.  An argument :var x is visible   *)
(* in those after it, the bindings of a let in its body only, all at once, *)
(* and a variable of a binder from the next variable on.                   *)
RECURSIVE Meaning(_, _, _)
Meaning(m, e, a) ==
    LET VarOf(env, b) == Symbol("PARAM", b.name, Meaning(m, env, b.args[1]), 0)
        after[i \in 0 .. Len(a.args)] ==
            IF i = 0 THEN e
            ELSE IF a.args[i].op = "var"
            THEN a.args[i].name :> VarOf(after[i - 1], a.args[i]) @@ after[i - 1]
            ELSE after[i - 1]
        args == [i \in DOMAIN a.args |-> Meaning(m, after[i - 1], a.args[i])]
        body(env) == Meaning(m, env, a.args[1])
        bind(env, n, t) == n :> t @@ env
        names == {a.binds[i][1] : i \in DOMAIN a.binds}
        of(n) == Max({i \in DOMAIN a.binds : a.binds[i][1] = n})
        value(i) == Meaning(m, e, a.binds[i][2])
        sorted[i \in 0 .. Len(a.binds)] ==
            IF i = 0 THEN [env |-> e, vars |-> <<>>]
            ELSE LET before == sorted[i - 1]
                     v == Symbol("VARIABLE", a.binds[i][1],
                                 Meaning(m, before.env, a.binds[i][2]), 0)
                 IN  [env |-> bind(before.env, a.binds[i][1], v), vars |-> Append(before.vars, v)]
        typed(i) == Symbol("VARIABLE", a.binds[i][1], Node("EVAL_TYPE_OF", <<value(i)>>), 0)
        pairs == [i \in DOMAIN a.binds |-> Pair(typed(i), value(i))]
    IN  CASE a.op = "symbol" -> IF a.name = "Bool" THEN BoolType ELSE e[a.name]
          [] a.op = "apply" -> MkApply(m, <<e[a.name]>> \o args)
          [] a.op = "var" -> QuoteType(VarOf(e, a))
          [] a.op = "let" -> body([n \in names |-> value(of(n))] @@ e)
          [] a.op = "binder" ->
               MkApply(m, <<e[a.name], MkBinderList(m, e[a.name], sorted[Len(a.binds)].vars),
                            body(sorted[Len(a.binds)].env)>>)
          [] a.op = "let-binder" ->
               MkApply(m, <<e[a.name], MkLetBinderList(m, e[a.name], pairs),
                            body([n \in names |-> typed(of(n))] @@ e)>>)

(* Two symbols that are bound apart may have the same name and type; they  *)
(* are not told apart here.                                                *)
RECURSIVE WithoutIds(_)
WithoutIds(t) ==
    [t EXCEPT !.id = IF t.kind \in {"PARAM", "VARIABLE", "CONST"} THEN 0 ELSE @,
              !.type = [i \in DOMAIN @ |-> WithoutIds(@[i])],
              !.args = [i \in DOMAIN @ |-> WithoutIds(@[i])]]

ReadAs(w) ==
    /\ outcome' = "ok"
    /\ WithoutIds(Last(asserts')) = WithoutIds(Meaning(marks, symTable, w[2]))

(* A term is read as its grammar says: every name is the one of the        *)
(* innermost scope around its occurrence, when scopes are opened by let,   *)
(* binders, let binders and :var in any nesting and with the same names.   *)
(* The stack of frames of parseExpr and the undo logs of State compute     *)
(* what the recursive Meaning defines, unless bindings share a vector of   *)
(* overloads: then bind and popScope lose what the scope around had, and   *)
(* of (and (let ((x y)) x) (let ((y c)) true) y) the last y is read as x.  *)
ReadsAsWritten ==
    [][\A w \in Written : read' = w[1] /\ ~tangled' => ReadAs(w)]_commandVars

-----------------------------------------------------------------------------
(* Scopes *)

Opened(text) == {i \in 2 .. Len(text) : text[i - 1] = "("}

(* The names a command is there to bind.  Of the symbols of a datatype     *)
(* those in front of their own parentheses: its constructors and their     *)
(* selectors, not the parameters of par.                                   *)
Declares(text) ==
    LET heads == {text[i] : i \in {j \in Opened(text) : j > 3 /\ text[j - 2] # "par"}}
        members == heads \cup {text[3]}
    IN  CASE text[2] \in {"declare-datatype", "declare-codatatype", "declare-datatypes",
                          "declare-codatatypes"} ->
               members \cup {"is-" \o n : n \in members} \cup {"update-" \o n : n \in members}
          [] text[2] \in {"declare-const", "declare-fun", "declare-oracle-fun",
                          "declare-parameterized-const", "declare-sort", "declare-type",
                          "define", "define-const", "define-fun", "define-type", "define-sort",
                          "program"} -> {text[3]}
          [] OTHER -> {}

Same(env1, env2, names) ==
    \A n \in (DOMAIN env1 \cup DOMAIN env2) \ names :
        n \in DOMAIN env1 /\ n \in DOMAIN env2 /\ env1[n] = env2[n]

(* Whatever scopes a command opens for its parameters, its binders and     *)
(* :var, it has closed them when it ends: the scopes around it are those   *)
(* that were open, and only the names declared denote something else.      *)
(* push opens scopes and pop gives back the table that the scope it closes *)
(* was entered with, through the undo logs, unless a vector of overloads   *)
(* served two bindings.  A :var on a term that stands by itself leaves a   *)
(* scope open, which leaks counts.                                         *)
ScopesRestored ==
    [][outcome' = "ok" /\ leaks' = leaks /\ ~tangled' =>
          CASE read'[2] = "push" ->
                 /\ IsStrictPrefix(saved, saved')
                 /\ \A i \in Len(saved) + 1 .. Len(saved') : saved'[i] = symTable
                 /\ symTable' = symTable
            [] read'[2] = "pop" -> /\ IsStrictPrefix(saved', saved)
                                   /\ symTable' = saved[Len(saved') + 1]
            [] OTHER -> /\ saved' = saved /\ declsSizeCtx' = declsSizeCtx
                        /\ Same(symTable, symTable', Declares(read'))]_commandVars

-----------------------------------------------------------------------------
(* Assertions, the end of the input and the peeked tokens *)

Occurs(words) == \E i \in DOMAIN read : IsPrefix(words, SubSeq(read, i, Len(read)))

(* An oracle with an opaque argument and another one; a nil terminator     *)
(* that is no closed term for a symbol without parameters.                 *)
NotForeseen ==
    \/ read[2] = "declare-oracle-fun" /\ Occurs(<<":opaque", ")">>)
    \/ Occurs(<<":right-assoc-nil">>)

(* A rule is declared after push, or after :var has left a scope open.     *)
RuleInScope == read[2] = "declare-rule" /\ (declsSizeCtx # <<>> \/ leaks > 0)

(* The parameters of an operator are to be inferred from no argument.      *)
NothingToInferFrom ==
    \E t \in DOMAIN marks : /\ marks[t].cons.kind = "PARAMETERIZED"
                            /\ Occurs(<<t.name, ")">>)

(* The attributes of an operator that was given its parameters are asked   *)
(* for: it is the argument of a list operator, or bound to a name that is  *)
(* applied or reverted.                                                    *)
AskedWithParameters == Occurs(<<"(", "eo::_">>)

ListedAbort ==
    RuleInScope \/ NotForeseen \/ NothingToInferFrom \/ AskedWithParameters

(* No input makes an assertion of the program fail or leads it to          *)
(* undefined behaviour, but for those listed.  An assertion fails when a   *)
(* rule is declared while a scope is open, a declaration is one the code   *)
(* does not foresee, an operator with parameters is applied to nothing or, *)
(* with its parameters, is asked for its attributes, or popScope reverts a *)
(* name through a vector that served two bindings; this is also when bind  *)
(* inserts a vector into itself.  Iterators are out of range when a        *)
(* builtin operator is applied to nothing.  The frame that is not there is *)
(* taken for a parenthesis where a term should begin, which no text of the *)
(* grammar has.                                                            *)
NoAbort ==
    /\ outcome = "aborted" => ListedAbort \/ tangled
    /\ outcome = "undefined" =>
           tangled \/ \E n \in {"->", "_", "eo::_"} : Occurs(<<"(", n, ")">>)
    /\ outcome = "unopened" => ~\E text \in Whole : IsPrefix(read, text)

Depth(text, n) == Cardinality({i \in 1 .. n : text[i] = "("})
                  - Cardinality({i \in 1 .. n : text[i] = ")"})

(* Every command comes to an end, also on an input that breaks off, and    *)
(* one that is accepted has taken its own parentheses and nothing else.    *)
CommandsEnd ==
    /\ outcome # "diverges"
    /\ outcome = "ok" => /\ peeked = <<>>
                         /\ Depth(read, Len(read)) = 0
                         /\ \A n \in 1 .. Len(read) - 1 : Depth(read, n) > 0

(* A peeked token comes back without its text, which the lexer has only    *)
(* for the token it read last.  No name or keyword is taken from the text  *)
(* of another token.                                                       *)
TextsNotStale == ~stale

-----------------------------------------------------------------------------
(* Lists and closed terms *)

(* The operators declared by the last command or, at first, the builtin    *)
(* ones, if their nil terminator has no parameters.                        *)
NewListOperators ==
    {op \in DOMAIN marks : /\ HasNil(AttrOf(marks, op))
                           /\ marks[op].cons.kind # "PARAMETERIZED"
                           /\ IsGround(marks[op].cons)
                           /\ read = <<>> \/ (read[2] = "declare-const" /\ read[3] = op.name)}

SmallLists == UNION {[1 .. n -> {Numeral(0), Numeral(1)}] : n \in 0 .. 2}

ListOf2(op, s) == IF s = <<>> THEN InfoOf(marks, op).cons ELSE MkApply(marks, <<op>> \o s)

(* The operations on the applications of an operator with a nil terminator *)
(* are those on the sequence of its arguments.  For a left associative one *)
(* the outermost argument, the last, counts as the first of the list.  Its *)
(* concatenation is left out: the manual has the arguments of one list and *)
(* then those of the other, "left associative evaluation is defined        *)
(* analogously" (user_manual.md:847), and the code reverses the second.    *)
ListsAsSequences ==
    \A op \in NewListOperators :
        LET left == IsLeft(AttrOf(marks, op))
            Result(k, args) == MkExpr(marks, k, <<op>> \o args)
        IN  \A s \in SmallLists :
                LET list == ListOf2(op, s)
                    order == IF left THEN Reverse(s) ELSE s
                IN  /\ Result("EVAL_LIST_LENGTH", <<list>>) = Numeral(Len(s))
                    /\ \A i \in DOMAIN s :
                           Result("EVAL_LIST_NTH", <<list, Numeral(i - 1)>>) = order[i]
                    /\ \A x \in {Numeral(0), Numeral(1)} :
                           LET found == Result("EVAL_LIST_FIND", <<list, x>>)
                           IN  IF x \notin Range(s) THEN found = MinusOne
                               ELSE /\ order[found.id + 1] = x
                                    /\ \A i \in 1 .. found.id : order[i] # x
                    /\ ~left => \A x \in {Numeral(0), Numeral(1)} :
                           Result("EVAL_CONS", <<x, list>>) = ListOf2(op, <<x>> \o s)
                    /\ ~left => \A t \in SmallLists :
                           Result("EVAL_LIST_CONCAT", <<list, ListOf2(op, t)>>)
                               = ListOf2(op, s \o t)

RECURSIVE Free(_)
Free(t) == CASE t.kind = "PARAM" -> {t} \ {Self, Conclusion}
             [] t.kind = "LAMBDA" -> Free(t.args[2]) \ Range(t.args[1].args)
             [] OTHER -> UNION {Free(t.args[i]) : i \in DOMAIN t.args}

ClosedProgram(p) ==
    \A i \in DOMAIN p.args : Free(p.args[i].args[2]) \subseteq Free(p.args[i].args[1])

ClosedRule(t) ==
    t.kind = "FUNCTION_TYPE" =>
        Free(Last(t.args)) \subseteq UNION {Free(t.args[i]) : i \in 1 .. Len(t.args) - 1}

(* Unless a vector of overloads served two bindings, by which a name of a  *)
(* scope can outlive it, what can be named and what assert asserts has no  *)
(* parameters that nothing binds: not those of a definition that are no    *)
(* arguments, nor those of a match.  The result of a case of a program has *)
(* only parameters of its pattern and the conclusion of a rule only those  *)
(* of its arguments.  (The assertion that define-fun makes is open: the    *)
(* lambda in it is applied to a list of parameters, not of variables.)     *)
DefinitionsClosed ==
    leaks = 0 /\ ~tangled =>
        /\ \A n \in DOMAIN symTable \ {Self.name} : Free(symTable[n]) = {}
        /\ outcome = "ok" /\ Occurs(<<"assert">>) /\ ~Occurs(<<":var">>) =>
               Free(Last(asserts)) = {}
        /\ \A t \in DOMAIN marks :
               AttrOf(marks, t) = "PROGRAM" => ClosedProgram(marks[t].cons)
        /\ \A n \in DOMAIN rules : ClosedRule(rules[n].type[1])

=============================================================================

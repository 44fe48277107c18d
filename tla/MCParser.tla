------------------------------ MODULE MCParser ------------------------------
(***************************************************************************)
(* Inputs for the parser: a prelude of declarations, then every command of *)
(* a list, whole or with a token too many or too few, then every command   *)
(* of the list once more or an assertion of a term made from its grammar.  *)
(***************************************************************************)
EXTENDS ParserProps

Prelude ==
    << <<"(", "declare-type", "S", "(", ")", ")">>,
       <<"(", "declare-const", "c", "S", ")">>,
       <<"(", "declare-const", "x", "S", ")">>,
       <<"(", "declare-const", "y", "Bool", ")">>,
       <<"(", "declare-const", "f", "(", "->", "S", "S", ")", ")">>,
       <<"(", "declare-const", "and", "(", "->", "Bool", "Bool", "Bool", ")",
         ":right-assoc-nil", "true", ")">>,
       <<"(", "declare-const", "or", "(", "->", "Bool", "Bool", "Bool", ")",
         ":left-assoc-nil", "false", ")">>,
       <<"(", "declare-const", "=", "(", "->", "(", "!", "Type", ":var", "A",
         ":implicit", ")", "A", "A", "Bool", ")", ":chainable", "and", ")">>,
       <<"(", "declare-const", "forall", "(", "->", "eo::List", "Bool", "Bool", ")",
         ":binder", "eo::List::cons", ")">>,
       <<"(", "declare-const", "lambda", "(", "->", "eo::List", "S", "S", ")",
         ":binder", "eo::List::cons", ")">>,
       <<"(", "declare-const", "pair", "(", "->", "S", "S", "S", ")", ")">>,
       <<"(", "declare-const", "pairs", "(", "->", "S", "S", "S", ")",
         ":right-assoc-nil", "c", ")">>,
       <<"(", "declare-const", "blet", "(", "->", "S", "S", "S", ")", ":let-binder",
         "(", "pair", "pairs", ")", ")">> >>

(* Symbols: with arguments, opaque ones, parameters and attributes.        *)
Declarations ==
    { <<"(", "declare-fun", "g", "(", "S", "Bool", ")", "S", ")">>,
      <<"(", "declare-oracle-fun", "o", "(", "S", ")", "S", "oracle", ")">>,
      <<"(", "declare-oracle-fun", "o", "(", "S", ")", "S", "missing", ")">>,
      <<"(", "declare-oracle-fun", "o", "(", "(", "!", "S", ":opaque", ")", "S", ")",
        "S", "oracle", ")">>,
      <<"(", "declare-const", "h", "(", "->", "(", "!", "S", ":opaque", ")", "S", "S",
        ")", ")">>,
      <<"(", "declare-const", "h", "(", "->", "(", "!", "S", ":var", "v", ")", "(", "!",
        "S", ":requires", "(", "v", "c", ")", ")", "(", "!", "S", ":restrict", "v", ")",
        "S", ")", ")">>,
      <<"(", "declare-const", "n", "Bool", ":right-assoc-nil", "eo::self", ")">>,
      <<"(", "declare-const", "dis", "(", "->", "S", "S", "Bool", ")", ":pairwise",
        "and", ")">>,
      <<"(", "declare-parameterized-const", "k", "(", "(", "T", "Type", ")", "(", "z",
        "T", ")", ")", "(", "->", "T", "T", "T", ")", ":right-assoc-nil", "z", ")">>,
      <<"(", "declare-parameterized-const", "k", "(", "(", "T", "Type", ":implicit",
        ")", "(", "z", "T", ":list", ")", ")", "(", "->", "T", "T", "T", ")",
        ":left-assoc", ")">>,
      <<"(", "declare-parameterized-const", "k", "(", "(", "z", "S", ":implicit", ")",
        ")", "(", "->", "S", "S", "S", ")", ":right-assoc-nil", "z", ")">>,
      <<"(", "declare-sort", "P", "2", ")">>,
      <<"(", "declare-type", "Q", "(", "S", "S", ")", ")">>,
      <<"(", "declare-consts", "<numeral>", "S", ")">>,
      <<"(", "declare-consts", "<numeral>", "Bool", ")">>,
      <<"(", "declare-rule", "r", "(", "(", "z", "S", ")", ")", ":premises", "(", "(",
        "=", "z", "c", ")", ")", ":args", "(", "z", ")", ":conclusion", "(", "=", "z",
        "z", ")", ")">>,
      <<"(", "declare-rule", "r", ":ethos", "(", "(", "F", "Bool", ")", ")",
        ":assumption", "F", ":premise-list", "F", "and", ":requires", "(", "(",
        "eo::conclusion", "F", ")", ")", ":conclusion-given", ":sorry", ")">>,
      <<"(", "declare-rule", "r", "(", "(", "z", "S", ")", "(", "w", "S", ")", ")",
        ":args", "(", "z", ")", ":conclusion", "(", "=", "z", "w", ")", ")">> }

(* Datatypes: with parameters, nested, and one without a body.             *)
Datatypes ==
    { <<"(", "declare-datatype", "D", "(", "(", "nil", ")", "(", "cons", "(", "head",
        "S", ")", "(", "tail", "D", ")", ")", ")", ")">>,
      <<"(", "declare-codatatype", "D", "(", "par", "(", "X", ")", "(", "(", "leaf",
        ")", "(", "node", "(", "left", "(", "D", "X", ")", ")", "(", "value", "X", ")",
        ")", ")", ")", ")">>,
      <<"(", "declare-datatypes", "(", "(", "U", "0", ")", "(", "V", "1", ")", ")", "(",
        "(", "(", "u", "(", "toV", "(", "V", "U", ")", ")", ")", ")", "(", "par", "(",
        "X", ")", "(", "(", "v", "(", "toX", "X", ")", ")", ")", ")", ")", ")">>,
      <<"(", "declare-codatatypes", "(", "(", "U", "0", ")", "(", "V", "0", ")", ")",
        "(", "(", "(", "u", ")", ")", ")", ")">> }

(* Programs and definitions.                                               *)
Definitions ==
    { <<"(", "program", "p", "(", "(", "z", "S", ")", ")", "(", "S", ")", "S", "(", "(",
        "(", "p", "(", "f", "z", ")", ")", "(", "p", "z", ")", ")", "(", "(", "p", "c",
        ")", "c", ")", ")", ")">>,
      <<"(", "program", "p", "(", "(", "z", "S", ")", ")", "(", "S", ")", "S", ")">>,
      <<"(", "program", "p", "(", "(", "z", "S", ")", "(", "w", "S", ")", ")", "(", "S",
        ")", "S", "(", "(", "(", "p", "z", ")", "w", ")", ")", ")">>,
      <<"(", "program", "x", "(", "(", "z", "S", ")", ")", "(", "S", ")", "S", ")">>,
      <<"(", "define", "d", "(", "(", "T", "Type", ":implicit", ")", "(", "z", "T", ")",
        ")", "z", ")">>,
      <<"(", "define", "d", "(", "(", "T", "Type", ":implicit", ")", "(", "z", "T", ")",
        ")", "T", ")">>,
      <<"(", "define", "d", "(", "(", "z", "S", ")", ")", "(", "eo::match", "(", "(",
        "w", "S", ")", ")", "z", "(", "(", "(", "f", "w", ")", "w", ")", "(", "w", "(",
        "f", "z", ")", ")", ")", ")", ")">>,
      <<"(", "define", "d", "(", ")", "c", ":type", "S", ")">>,
      <<"(", "define", "d", "(", ")", "(", "!", "c", ":implicit", ")", ")">>,
      <<"(", "define", "d", "(", ")", "(", "!", "S", ":var", "v", ")", ")">>,
      <<"(", "define", "d", "(", ")", "(", "forall", "(", "(", "z", "(", "!", "S",
        ":var", "v", ")", ")", ")", "y", ")", ")">>,
      <<"(", "define-const", "e", "S", "(", "let", "(", "(", "x", "c", ")", ")", "(",
        "f", "x", ")", ")", ")">>,
      <<"(", "define-fun", "m", "(", "(", "z", "S", ")", ")", "Bool", "(", "=", "z",
        "c", ")", ")">>,
      <<"(", "define-fun", "m", "(", ")", "S", "c", ")">>,
      <<"(", "define-type", "N", "(", "(", "T", "Type", ")", ")", "(", "->", "T", "S",
        ")", ")">>,
      <<"(", "define-sort", "W", "(", "X", ")", "(", "->", "X", "S", ")", ")">>,
      <<"(", "define-sort", "W", "(", ")", "S", ")">> }

(* The other commands.                                                     *)
Others ==
    { <<"(", "assert", "d", ")">>,
      <<"(", "assert", "(", "d", "c", ")", ")">>,
      <<"(", "assert", "(", "->", ")", ")">>,
      <<"(", "assert", "(", "k", ")", ")">>,
      <<"(", "assert", "(", "_", "eo::nil", "k", ")", ")">>,
      <<"(", "assert", "(", "eo::list_len", "and", "(", "and", "y", "(", "=", "x", "c",
        "x", ")", ")", ")", ")">>,
      <<"(", "assert", "(", "eo::define", "(", "(", "x", "y", ")", ")", "(", "(", "_",
        "=", "x", ")", "y", ")", ")", ")">>,
      <<"(", "assert", "(", "and", "y", "(", "eo::_", "f", "c", ")", ")", ")">>,
      <<"(", "assert", "(", "eo::define", "(", "(", "x", "(", "eo::_", "f", "c", ")",
        ")", ")", "(", "x", "c", ")", ")", ")">>,
      <<"(", "echo", "\"text\"", ")">>,
      <<"(", "echo", ")">>,
      <<"(", "check-sat", ")">>,
      <<"(", "check-sat-assuming", "(", "y", "y", ")", ")">>,
      <<"(", "push", ")">>,
      <<"(", "push", "2", ")">>,
      <<"(", "pop", ")">>,
      <<"(", "set-logic", "ALL", ")">>,
      <<"(", "set-info", ":unknown", "(", "c", "\"text\"", ")", ")">>,
      <<"(", "set-option", ":unknown", "true", ")">> }

AllCommands == Declarations \cup Datatypes \cup Definitions \cup Others

(* A text with one token less, or one parenthesis more.                    *)
Damaged(text) ==
    {RemoveAt(text, i) : i \in DOMAIN text}
    \cup {InsertAt(text, i, p) : i \in 2 .. Len(text), p \in {"(", ")"}}

CheckSat == <<"(", "check-sat", ")">>

(* Names bound twice, as different terms, so that each scope shows: as the *)
(* terms of other names and as a term that no name has.                    *)
Leaves == {Name(n) : n \in {"c", "x", "y"}} \cup {Applied("f", <<Name("c")>>)}

Inner ==
    Leaves
    \cup {Let(<<<<"x", a>>>>, Name(n)) : a \in Leaves, n \in {"x", "y"}}
    \cup {Binder("forall", <<<<"x", Name(T)>>>>, Name("x")) : T \in {"S", "Bool"}}
    \cup {LetBinder("blet", <<<<"x", a>>>>, Name("x")) : a \in Leaves}
    \cup {Applied("->", <<Named("x", Name("S")), Name("x"), Name("y")>>)}

MCAsts ==
    {Let(<<<<"x", i>>, <<"y", Name("x")>>>>, j) : i \in Inner, j \in Inner}
    \cup {Let(<<<<"x", i>>, <<"y", Applied("f", <<Name("x")>>)>>>>, Name("y")) : i \in Leaves}
    \cup {Applied("and", <<i, j, Name("x")>>) : i \in Inner, j \in Inner}
    \cup {Applied("=", <<Named("x", i), j, Name("x")>>) : i \in Leaves, j \in Inner}
    \cup {Binder("forall", <<<<"y", i>>, <<"x", Name("y")>>>>, j) : i \in Leaves, j \in Inner}
    \cup {LetBinder("blet", <<<<"x", i>>, <<"y", Name("x")>>>>, j) : i \in Leaves, j \in Inner}
    \cup {Binder("forall", <<<<"x", Name("S")>>>>, j) : j \in Inner}
    \cup {Applied("and", <<Let(<<<<"x", i>>>>, Name("x")), Let(<<<<"y", j>>>>, Name("x")), Name("y")>>) :
              i \in Leaves, j \in Leaves}

MCWhole == Range(Prelude) \cup AllCommands \cup {AssertOf(a) : a \in MCAsts}

(* The assertions are made after the prelude and after every command.      *)
MCTexts ==
    [i \in DOMAIN Prelude |-> {Prelude[i]}]
    \o <<AllCommands \cup UNION {{d \o CheckSat : d \in Damaged(t)} : t \in AllCommands},
         AllCommands \cup {AssertOf(a) : a \in MCAsts}>>

=============================================================================

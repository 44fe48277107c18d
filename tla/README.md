# Verification of Ethos

Ethos is a checker for proofs in the Eunoia logical framework. It reads
signatures (declarations, programs and proof rules) and proof scripts, one
command at a time, and answers `correct` if it accepted every command, or
`incomplete` if a rule marked `:sorry` was used. This directory has TLA+
modules for the parts of it that carry state, configurations that check them
with TLC, and proofs that TLAPS checks.

What is worth verifying here is not concurrency: Ethos is one thread that reads
one input. It is that the answer `correct` rests on several pieces of state
that have to agree after every legal sequence of commands: a symbol table that
is undone by logs, one stack of scopes that serves four commands, a flag that
says whether assumptions are checked, and terms that are compared by address
while addresses are freed and used again. And it is that terms are equal up to
evaluation, which is done by a loop that is far from the definition it implements.

## 1. Inventory

Paths are those of `src/src/` unless said otherwise.

| Component | State | Operations | What makes it correct |
|---|---|---|---|
| Symbol table (`state.cpp`, `state.h`) | `d_symTable`, `d_ruleSymTable`, `d_decls`, `d_declsSizeCtx`, `d_overloadedDecls`, `AppInfo::d_overloads` of each expression | `bind`, `pushScope`, `popScope`, `reset`, `getVar`, `getOverloads` | closing a scope restores what every name denoted and may be overloaded with |
| Proof commands (`cmd_parser.cpp`) | `d_assumptions`, `d_assumptionsSizeCtx`, the scopes above, `d_isFinished` | `assume`, `assume-push`, `step`, `step-pop`, `push`, `pop`, `reset`, `exit` | a local assumption is discharged exactly when its scope closes, and nothing proved from it is visible afterwards |
| Files and references (`state.cpp`, `main.cpp`, `parser.cpp`) | `d_includes`, `d_hasReference`, `d_referenceNf`, `d_referenceAsserts`, the recursion of `includeFile` | `include`, `reference`, `assert` of a reference, options `--include`, `--reference` | after a reference was read, what is proved rests on its assertions |
| Response (`main.cpp`, `state.cpp`) | `d_rstats`, `d_pfrSorry` | `markProofRuleSorry`, `notifyStep`, the end of `main` | `incomplete` if, and only if, a `:sorry` rule was used |
| Expression store (`expr.cpp`, `expr.h`, `expr_trie.h`, `state.cpp`) | the heap of `ExprValue`, `d_rc`, `d_trie`, `d_typeCache`, `d_hashMap`, `d_appData`, `d_toDelete` | `mkExprInternal`, `mkSymbolInternal`, copying and destroying `Expr`, `markDeleted` | equal terms have equal addresses; nothing points to freed memory |
| Term construction (`state.cpp`) | none of its own; `d_appData` gives attributes | `mkExpr`, `mkFunctionType`, `mkRequires`, associativity, chaining, overloads | the term made is the one the attributes define |
| Evaluator (`type_checker.cpp`) | local to a call: `estack` with a context, a map of visited terms and a stack of terms to visit per frame, `evalTrie`, `keep` | `evaluate`, `match`, `evaluateProgramInternal` | the value is that of evaluation by recursion: first matching case, one branch of an `eo::ite`, no call made twice; a failed case leaves nothing bound |
| Type checker (`type_checker.cpp`) | `d_typeCache` | `getType`, `getTypeApp`, `checkArity`, literal and list operations | types are computed once and right |
| Literals (`literal.cpp`, `util/`) | none | arithmetic, bit-vector and string operations | right at the boundaries |
| Term parser (`expr_parser.cpp`) | a stack of frames, the scopes it opens, `let` lists | `parseExpr`, `parseAndBindSortedVarList`, `parseDatatypesDef`, `parseAttributeList` | a name means what the innermost scope around it says; every scope opened for a term is closed when it is complete |
| Declarations (`cmd_parser.cpp`) | what `markConstructorKind` and `bind` keep of each symbol | the `declare-`, `define-`, `program`, `declare-rule` and datatype commands | a command binds what it declares, and nothing else of it stays; definitions are closed |
| Lexer (`lexer.cpp`, `lexer.h`, `input.cpp`) | a block of the input, one saved character, the text of the token scanned last, its span, a stack of peeked tokens | `nextToken`, `peekToken`, `reinsertToken`, `tokenStr` | the tokens are the longest lexemes of the input, however it is buffered; a text is that of the token it is used for |
| Options, statistics, tracing, plugins, oracles, `plugins/cpp_compiler`, `contrib/drat_trim` | flags, counters, files | | support, or not part of `main` |

How they interact: `main` calls `State::includeFile` for every file, which runs
a `CmdParser` over it; a command calls the term parser, which calls the type
checker for every term it completes; all of them bind, open and close scopes
through `State`, and `include` or `reference` runs another `CmdParser` inside
the command. Handles (`Expr`) are held by all of them, and the last one that
goes away runs `markDeleted` at that very place. There are no threads, no
timeouts and no messages; any error ends the process.

The hard behaviour is therefore in **sequences of legal calls** (scopes opened
by one command and closed by another, reset in the middle, an include after a
reference), in **state that is kept elsewhere than one would look for it** (the
binding to return to is kept with the expression, not with the name), in
**addresses used as identities** after they were freed, and in **loops that
trigger themselves** (deleting an expression releases its type, which is deleted
within the same loop), and in **recursion made into a loop** (a term is met before
and after its children, and a call is left in the middle and taken up again). `PROJECT.json` lists the hazards line by line.

## 2. Plan

Written so far, in this order: the symbol table and its abstract environments;
the proof commands and files on top of those environments; the expression store
and its abstract map; the evaluator over small terms, with evaluation by
recursion to compare it to; the lexer with the values of literals, how they are
printed and the operators on them; the building of terms with the operations on
lists, the parser of terms on top of it, and the commands that declare and
define. Theorems: type correctness, the invariant of the undo logs, and the
refinement, for the symbol table; type correctness, the soundness of scopes and
the check against the reference for the proof commands; for the evaluator, that
its frames always have the values they look up, that what it returns is the
value of evaluation by recursion, and that no call is made twice; for the reader, the order and
the locations of tokens, that they are the longest lexemes, that what is printed is read
back and, of the operators on literals, the types of values, bit-vectors
modulo the power of their width, division and extract; for the store, that
counts are never too small and nothing dangles, that the trie is exact, and the
refinement.

To come, in this order:

1. `TypeChecker`: `getType`, which is a loop with marks as `evaluate` is, and
   `getTypeAppInternal`, which matches and evaluates; overload resolution, which
   reads what the symbol table keeps and tries types.
2. The composition of `Commands` with `ProofChecker`: the conclusion of a step as
   the instance of a rule that was declared, instead of a formula that is given.
3. `d_pfrSorry` and `d_hashMap` in the store, with the addresses of deleted rules.
4. Theorems: that each step of `match` keeps the substitutions that make the pattern
   the term.

## 3. The modules

| Module | What it is |
|---|---|
| `ScopedEnv` | abstract: a stack of environments; push copies, pop restores |
| `SymbolTable` | `State::bind`, `pushScope`, `popScope`, `reset` with the undo logs |
| `SymbolTableProps` | the mapping of the logs to environments; invariants |
| `SymbolTableProofs` | the proofs: any use; fresh symbols |
| `MCSymbolTable`, `MCSymbolTableHistory` | instances; the second adds a history of the table |
| `ProofChecker` | proof commands, files, references, `main` |
| `ProofCheckerProps` | what a run may answer, and the discipline under which it holds |
| `ProofCheckerProofs` | the proofs |
| `MCProofChecker` | instances |
| `ExprTrie` | `ExprTrie::get` and `remove`, as operators on a function from paths |
| `TermMap` | abstract: what `mkExprInternal` promises |
| `ExprStore` | expressions, counts, type cache, trie, `markDeleted` |
| `ExprStoreProps`, `MCExprStore` | properties; instances |
| `ExprStoreProofs` | the proofs: counts and references; the trie and the refinement |
| `EvalTerms` | terms, `match`, `evaluateProgramInternal`, some literal operators |
| `Evaluator` | the loop of `evaluate`, over any terms and any programs |
| `EvaluatorProps`, `MCEvaluator` | properties, and what evaluation by recursion is; signatures, calls and their evaluation |
| `EvaluatorProofs` | the proofs: frames; the value and the calls |
| `Literals` | literal values and the operations of `util/` on integers, bit-vectors, strings |
| `LiteralOps` | `Literal::evaluate`, `getLiteralOpType`, the arities of the operators |
| `Lexer` | characters to tokens, one character a step, and the calls of a client |
| `Reader` | a client: tokens become values, operators are applied, values are printed |
| `ReaderProps`, `MCReader` | properties; texts, values and operands |
| `LiteralProofs`, `ReaderProofs`, `LexemeProofs`, `TextProofs` | the proofs: numbers, bits and operators; tokens, places and results; lexemes; the texts of values |
| `Terms` | `State::mkExpr` and the operations on lists, over terms |
| `TermParser` | `ExprParser`: each function takes a state of the parser to the one it returns in |
| `Commands` | a step reads one command that declares, defines or asserts |
| `ParserProps`, `MCParser` | properties, with a grammar and its meaning; inputs |

Definitions marked "Faulty" in a module are variants of the definition that
follows, with a plausible mistake. They are not used by any specification; they
are there to show that the properties notice such a mistake (`mutants` of
`PROJECT.json`).

### Symbol table

`SymbolTable` has the maps and logs under the names of the code. `bind` is two
actions, because it is right for one kind of caller and not for the other:
`BindFresh` binds a symbol that `mkSymbol` has just made (declarations, `assume`,
`step`, parameters), `BindExisting` a term that exists (`let`, `define`,
`define-sort`, a parameter bound a second time). `BindRule` is the branch for
`d_ruleSymTable`. `PopScope` is `popScope` up to its loop, each iteration is
`RevertOverload`, `EraseBinding` or `RevertCrashes`, and `PopScopeReturns` what
follows the loop; nothing else is enabled in between. In the code the names are
dropped from `d_decls` by one `resize` after the loop; the model drops one per
iteration, which nothing in the loop can tell.

`Spec` allows everything; `FreshSpec` binds fresh symbols only and does not reset
while an overloaded declaration is in an open scope. Under it the logs are exact.
A name that is bound to the term it denotes already inserts a vector into itself
(`state.cpp:1140`), which is undefined; the model repeats the vector, as libstdc++ does.

### Proof commands and files

`ProofChecker` takes the symbol table as the stack of environments of
`ScopedEnv`: this is what `SymbolTable` implements under `FreshSpec`, and `assume`
and `step` bind fresh symbols only. What it says of the checker presumes that
the input does not bind existing terms in the way of section 6. The parser has no
such presumption: `let` binds existing terms, so `TermParser` has the logs.

A proof is represented by its basis, the assumptions it rests on that no
`step-pop` has discharged. The code has no such thing: the basis is what the
scopes are there to get right. Rules are taken to be sound. `Assume`,
`AssumePush`, `Step`, `StepPop`, `Push`, `Pop`, `Reset`, `Include`, `Reference`,
`ReferenceAssert` and `Exit` are the commands; `EndOfInput` is the return of
`includeFile` or of the loop of `main`; the actions under `Main` are options and
the input file or stream. The recursion of `includeFile` is the stack `parsers`.
`ParseError` is any command that is refused: the process ends. `EoAssertions`
says whether the build evaluates `Assert`.

The history variables of `ProofCheckerProps` record in which environment each
assumption scope was opened and how much was assumed before the reference was
read. `FreeSpec` leaves the commands free; `NestedSpec` makes `push` and `pop` nest
with `assume-push` and `step-pop`, and a `step-pop` close a scope of exactly one
assumption, which the code does not enforce (without `EoAssertions`);
`ValidatingSpec` also has no file included after the reference was read.

### Expression store

`ExprStore` models one kind of composite expression (each kind has a trie of its
own), with the numbers of children in `Arities`, and symbols. An expression is
its address. The handles in the rest of the program are counted by `held`; the
program may drop any of them whenever `markDeleted` is not running. `DeleteStep`
is an iteration of the loop of `markDeleted`, in the order of the code: the type
cache entry goes first, whose handle may put the type on `d_toDelete`; then the
trie; then the memory. The children keep their counts, because `free` does not run
the destructor of `ExprValue`: expressions below a deleted one are never freed.
The write of `ExprTrie::remove` to a node that it has just erased
(`expr_trie.h:66`) is undefined behaviour; the model has the outcome that it
changes nothing, which is what builds show.

### Evaluator

`evaluate` reduces applications of lambdas, computes the conclusions of rules and
runs the programs of a signature. It is two nested loops over a stack of frames.
`Evaluator` has an action for each way an iteration of the inner loop can go:
`Shortcut` and `Substitute` settle a term at once; `VisitChildren` marks it with null
in `d_visited` and pushes its children; when it is on top again, one of
`VisitedAlready`, `CallCached`, `CallShortCircuited`, `CallEntered`, `ChooseBranch`,
`BothBranches`, `Operate` and `Rebuild` applies. `CallEntered` pushes a frame (`newContext`
and the `break` of the code), `ChooseBranch` and `BothBranches` may push children only
(`canEvaluate`). `Return` is what the outer loop does after the inner one. The flags
themselves are not variables: each is false again wherever an action begins. The
pointer of a frame into the trie is the call itself, `nullptr` is `NoCall`. That a call has no answer
is entered in the trie too (`Null`): the value of `d_null` is the address of `s_null`,
which the test for `nullptr` does not tell from an answer.

Terms, `match`, the choice of a case and the operators are parameters of `Evaluator`, so
that the theorems are about any of them; `EvalTerms` defines them as the code does. A term
is a kind, a name and its children. Equality is that of addresses in the code, by
hash-consing. `mkExprInternal` over unchanged children is the same term, so the flag
`cchanged` is left out. Of the literal operators there are `eo::is_eq` and `eo::requires`, one
that looks at its arguments as terms and one that returns one of them; the others are functions
of values. An oracle is a partial function of its call (`Answers`).
`EvaluatorProps` says what evaluation by recursion is without saying how it is computed:
`Meaning` is one on a set of evaluations (each a term and a context) if it satisfies the
equations there (`Composed`) and the set has what each evaluation needs (`Needs`: the
children, of an `eo::ite` that is decided the condition and one branch, of a call the body
of the case chosen). `MCEvaluator` has `Evaluation`, the recursive definition that the
documents describe, with matching as search for a substitution, as `Meaning`. Its assumptions
have TLC check that this does satisfy the equations.

### Reader

`Lexer` is a machine whose step reads one character (`nextChar`): from the character
that was saved, from the block in the buffer, from the next block of the stream or, for
an interactive input, from the stream itself. `mode` says where in `computeNextToken`
it is. A character of a buffered input is a signed `char`, so that the byte 255 looks like
`EOF`; one that is interactive is not. Calls of a client are `NextToken`, `PeekToken` and
`ReinsertToken`; `TakePeeked` is `nextToken` when something was put back. A parser only
ever puts back the token it was handed last. `token` is `d_token`, the text of the token
that was *scanned* last, and not of the one that was handed out last. The histories
`produced` and `delivered` have the tokens made, with the span each was given, and those
the client holds.

`Reader` is the part of `parseExpr` that makes values of tokens, the options
`--normalize-...`, `Literal::evaluate` on the values and `Expr::printDebug`. Its inputs are
texts, the printed forms of values, or operands that an operator is applied to.
`Literals` and `LiteralOps` have numbers without bounds, as GMP has; indices and widths
that the code takes to `uint32_t` keep that width (`UintMax`), and lines and columns are
counted modulo theirs (`ColumnMax`). What a literal is read as, printed as and how its
escape sequences are resolved is modelled by what it does to characters, since properties
are about it.

### Parser of terms and commands

`Terms` builds applications as `mkExpr` does: an associative operator is applied to two
arguments at a time and ends in its nil terminator, a chainable one becomes a conjunction
of its neighbours, `:pairwise` one of all pairs, a binder takes a list of variables, an
argument marked `:list` is the tail itself, an operator with parameters has them inferred.
`d_appData` is a function from terms to an attribute and a constructor term.

`TermParser` has the functions of `ExprParser` as operators from states to states:
`parseExpr` with its stack of frames, where each frame says how many scopes to pop when
its term is closed, and the functions that read sorted variables, attributes, types, cases
of a match, datatypes and symbolic expressions, which call it recursively. Tokens are
represented by their text; the lexer's stack of peeked tokens is part of the state, and so
is whether a text was asked for that is not that of the token at hand (`stale`). An assertion
of the code that fails is the outcome `aborted`; undefined behaviour is `undefined`, or `unopened`
where the last frame of an empty stack is taken; a loop that
runs past the end of the input is `diverges`; a parse error ends the program. `Commands` has an
action per command (or group of them) on this state. The commands of proofs and files are
those of `ProofChecker`.

The symbol table is the one of `SymbolTable`, with its logs and the vectors of overloads kept
with the terms: `Bind`, `PushScope`, `PopScope` and, for an iteration of the loop of `popScope`, `Undo`
are `bind`, `pushScope` and `popScope`. A `let` binds existing terms, and nested scopes bind the
same variable, so the logs are not exact here. Three histories tell where they are not: `saved` has
the table that each open scope was entered with; `overloading` has the terms that an
overloaded name is bound to; `tangled` is set for good when a vector is put to a second use,
that is, when the term that is bound has the vector of a binding in force, or the vector that
it takes over belongs to a binding that is no longer in force, or is its own. The terms of an input are
never deleted in this model, so that a vector stays where it is.

The properties compare with definitions that are independent of the parser: `Meaning`
defines by recursion over a grammar what a term means in an environment, `Text` how it is
written; lists are compared with sequences. `ReadsAsWritten`, `ScopesRestored`, `NoAbort` and
`DefinitionsClosed` say nothing of an input once it is `tangled`: the code breaks them there, for the
reason that `let_alias` shows on the symbol table. Section 6 has the inputs.

## 4. What the runs check

Two runs have liveness properties. For the evaluator the fairness is `WF_vars(Next)`: the loop
runs on as long as there is a frame, since nothing in it waits. For the reader it is
`WF_vars(Scanning)`: `computeNextToken` is a loop that waits for the stream only; nothing
is assumed of the client, which need not call it again. In the parser a command is one step, and
that its loops end is a safety property of that step (`CommandsEnd`). Termination is
up to the user's programs; the run has programs for which evaluation by recursion
ends, and two of them only because a branch of `eo::ite` is not evaluated. The other
loops that the models contain shorten a list in every iteration.
Deadlock is not checked because the systems do stop: `ProofChecker` after an
answer or an error, `SymbolTable` after a failed assertion or when every symbol
of the instance was made, `ExprStore` when every address is in use for ever,
`Evaluator` when the value is returned, the reader at the end of its input, the parser at
the end of the pieces or after an error.

| Run | Shows | Instance |
|---|---|---|
| `scopes` | `FreshSpec`: `UndoExact`, and the logs implement the environments (`ImplementsScopedEnv`) | 2 names, 5 expressions, a rule, 2 scopes, 4 declarations |
| `scopes_any_use` | `Spec`: types, `CtxMonotone`, `DeclsBound` hold whatever is bound and reset, up to the point where `popScope` fails an assertion | 2 names, 2 expressions, a rule, 2 scopes, 3 declarations |
| `let_alias` | violation: a scope that binds existing terms is not undone | same |
| `proofs` | `ValidatingSpec`: `ProofsCovered`, `ScopesAligned`, `AssumptionsChecked`, `Validated` | 2 names, 2 formulas, 2 files, 2 assumptions, 3 of scopes and files |
| `step_pop_after_push` | violation, `FreeSpec`: a proof outlives its assumption | no files |
| `include_after_reference` | violation, `NestedSpec`: assumptions are no longer checked | 1 name, 2 files |
| `sharing` | one arity: `NoDangling`, `CountsCover`, `TrieExact`, and the trie implements the map (`ImplementsTermMap`) | 4 addresses, arity 2, 2 handles each, counts to 3 |
| `mixed_arity` | violation: two arities under one kind, two expressions with the same children | 4 addresses, arities 1 and 2 |
| `evaluate` | `ResultRight`: the value is that of evaluation by recursion; `Terminates`; `FramesAligned`, `TrieKept`, `InterpretedOnce` | 57 calls, 4 programs, an oracle, terms of height up to 9 |
| `reader` | `TokensAsSpecified`, `LocationRight`, `DeliveredInOrder`, `ScanEnds`: tokens, their kinds, places and order, and that the scanner ends; `PrintedReadsBack`, `StringsRoundTrip`: values and texts; `ExtractSelects`, `DivisionRecomposes`, `BitVectorsWrap`, `ValueHasOpType`: operators | texts up to 3 of 12 characters, 4 of 6, and 24 long ones; blocks of 2; 2 tokens put back; values of width up to 4 |
| `parser` | `ReadsAsWritten`, `ScopesRestored`, `TextsNotStale`, `CommandsEnd`, `NoAbort`: terms and scopes; `ListsAsSequences`, `DefinitionsClosed`: what was declared | 13 declarations, then any of 58 commands, whole or damaged, then any command or an assertion of a generated term |
| `ground_call` | violation: a case that is a call without parameters is not evaluated | a program of 2 cases, 6 calls |

Why the bounds are enough to be of interest. For the symbol table, two names are
what it takes to mix histories; four declarations in two nested scopes cover a
name declared in the global scope, in both nested ones, and twice in one, next to
another one; five expressions let every declaration be distinct. For the proof
commands, three scopes hold an assumption scope inside another with a `push`
around or within; two assumptions are one at level zero and one local, or two
nested; with a file in use there are two scopes and with both there is one, which
is enough for a reference and an include in any order. For the store, four
addresses allow a term, a term with it as child, their children and the use of
a freed address again; arity 2 has terms with a repeated child and tries that
branch at either level. For the evaluator there are nine terms in six contexts:
empty ones, partial ones, one that maps a parameter to a term with a parameter;
calls that share their arguments (`fib`), recursion that a condition ends (`mem`),
patterns with a variable twice and a second case tried after the first bound
something (`same`), calls that no case answers and that are met twice, a program
as argument, stuck conditions, terms on the stack twice, a malformed `eo::ite`. The
evaluator is deterministic once it is called, so the calls are what varies.
For the reader, the twelve characters have one of each class that
`computeNextToken` tells apart; three of them make every token with what precedes and
follows it, and all but a few transitions need no more; the long texts are for those
(fractions, escapes, keywords, reserved words, bytes that are no ASCII, a byte 255 in each
kind of token). Blocks of two
characters let every token straddle the end of one, at any of its characters. Lines and
columns wrap at 16, which the long texts reach. Widths 0, 1, 2 and 4 with indices from -1
to 5 have every boundary of `eo::extract`. For the parser, each command is damaged at each
place by leaving out a token or by a parenthesis more, so that every function meets the end
of input and a wrong token at each of its tokens; the terms of the assertions nest two
scopes of every two kinds, over names that are bound before as something else; every
command that was accepted is followed by every other. About one state in seven is
`tangled`: what the properties say of the others includes lets that bind a term to one
name only, lets that follow each other, and names that three scopes bind.
Bounds are constraints of the MC modules; everything else is symmetric in names,
expressions, files and addresses.

## 5. What is proved

For every number of names, expressions, rules, formulas, files and for inputs of
any length:

* `TypeCorrect` and `ScopesNest` (`SymbolTableProofs`): `TypeOK` and `CtxMonotone`
  hold of `Spec`, without any discipline. `CtxMonotone` is inductive as it is
  once the clause about `lastSize` is there, which links it to the loop.
* `UndoLogsExact`: `FreshSpec => []UndoExact`. The code compares
  only names (`d_overloadedDecls.back() == d_decls.back()`), and this is right
  because `d_overloadedDecls` is *exactly* the sublist of the declarations that
  found their name bound (`OverloadedIsSublist`). To maintain that one needs the
  rank of a declaration in the overload list of its name (`RanksPositive`), that
  the members of a list have its prefixes as their own (`ChainsArePrefixes`), that
  lists of different names are disjoint (`ChainsDisjoint`, where freshness is
  used), and that what was not made has no list (`ChainsMade`). The asserts of
  `popScope` are consequences (`NoCrash`).
* `UndoLogsImplementScopes`: `FreshSpec =>
  Abstract!EnvSpec`. The mapping takes, for each open scope, the prefix of each
  overload list that is left when the declarations after the mark of the scope
  are discounted. Every iteration of the loop of `popScope` is a stutter.
* `CheckerTypeCorrect` (`ProofCheckerProofs`): `Spec => []TypeOK`, for the proof commands
  without any discipline. Types alone are not inductive, because `step-pop` cuts
  `d_assumptions` to a recorded size: `SizesOrdered` says that the sizes are ordered
  and point into it.
* `AssumptionScopesAlign` and `NothingEscapes`: `NestedSpec => []ScopesAligned` and
  `NestedSpec => []ProofsCovered`: if scopes nest, nothing proved from a local
  assumption outlives its scope, and what rests on a `:sorry` rule makes the answer
  incomplete. The invariant, `ScopeInv`, is about every environment of the stack and
  not only the current one: the environment at depth `k` rests on the assumptions
  that will be left when everything opened above `k` is closed. That each assumption
  scope has an environment of its own (`ScopesAligned`) is what makes the assumption
  that `step-pop` discharges the only one the closed environment had more.
* `ReferenceIsChecked` and `ProofsValidated`: `ValidatingSpec => []AssumptionsChecked` and
  `ValidatingSpec => []Validated`. The invariant `CheckInv` adds that the reference is not
  forgotten once the check is on, and that a run judged correct used no `:sorry` rule;
  the first is where the discipline of including nothing after a reference is used.
  `Validated` follows from both invariants together.

* `DeclaredNamesBound` (`SymbolTableProofs`): `Spec => []DeclsBound`, whatever is bound
  and reset, fresh or not. The invariant, `BoundInv`, is the part of the undo logs that
  survives the reuse of symbols: there is an order-preserving map from the declarations
  that found their name bound onto a tail of `d_overloadedDecls` (`Logged`), so that
  `popScope` erases a name only with its first declaration.
* `TokensInOrder` and `LocationsRight` (`ReaderProofs`): `Spec => []DeliveredInOrder` and
  `Spec => []LocationRight`, for any bytes, blocks of any size and any number of tokens
  put back. The invariant, `LexInv`, says where in the text the reader is: the buffer
  has what follows in the text and a saved character is the one read last (`StreamInv`), so
  none is lost or read twice at the end of a block; the end of the span is the location of
  that place (`PlaceInv`) until the end of the input has been read, which is counted as a
  column each time it is, and after which no token begins; the start of the span is the
  location of the token's first character as long as the token is read (`TokenInv`).
  For the order, nothing is put back while a token is read (`OrderInv`). The step to a
  location counts newlines by the theorems about finite sets, and lines and columns
  modulo the width of their type.
* `LongestLexemes` (`LexemeProofs`): `Spec => []TokensAsSpecified`, for any text, read by
  character or in blocks of any size. What a lexeme is says nothing of how it is found:
  `IsLexeme` is a set of texts. So the first half is about texts: what a lexeme goes on with
  that is longer than a given piece (`LongerHash`, `LongerKeyword`, `LongerNumber`,
  `LongerQuoted`); for a string literal, whose quotes are counted from the left, that a text
  which goes on is one or not regardless of the piece that was read (`OpenString`,
  `QuoteSeen`). The second is the scanner. The invariant, `LexemeInv`, needs the place of
  the next character, which is in the buffer, in the stream or saved (`At`); that between
  tokens nothing but blanks and comments was passed since the last one, unless that one
  took the end of the input with it (`Passed`); that within a token what
  was read is the text from its first character on (`Inside`) and has the form of its mode
  (`Grammar`). A token is then the longest lexeme because the form is one and the next
  character is none a longer lexeme could have. It is used for a byte 255 as for any other:
  in a buffered input it is taken for the end (`EndAt`), since it is read as a signed
  character. That a token has the kind of its lexeme (`IsOfKind`) follows from the mode it was
  made in, by the marks that `Grammar` says a number of this mode has. That an error is an error
  and an end an end is part of the theorem as well: they are reported only where the text leaves
  nothing else (`ErrorAsSpecified`, and the clauses of `AsSpecified` about the end).
* `DivisionIsEuclidean` (`LiteralProofs`): for all integers and any divisor but zero, quotient and
  remainder recompose the dividend, and the remainder is not negative and smaller than the divisor.
* `ValuesAreTyped`, `BitVectorsStayBelow`, `DivisionsRecompose` and `ExtractsSelect`
  (`ReaderProofs`): `Spec => []ValueHasOpType`, `[]BitVectorsWrap`, `[]DivisionRecomposes` and
  `[]ExtractSelects`, for operands of any kind and number, bit-vectors of any width and
  strings of any length. The invariant, `ReaderInv`, adds to `LexInv` that an input without
  characters gives nothing but its end (`NothingToRead`), so that the operands are never
  taken for tokens to put back, and that the result is that of the operator on the operands
  that are still there (`ResultInv`). The rest is about `Literal::evaluate`
  (`LiteralProofs`). That numbers and bits agree rests on lemmas about powers of two and
  quotients (`LowerBits`, `UpperBits`, `ComplementBits`, `BitBelow`, `BitAbove`), that a sum
  of the first powers of two is all ones (`SumOfPowers`, for the quotient by zero) and that
  the loop over the arguments unfolds (`FoldUnfolds`). Sums of sets and folds of
  sequences are recursive functions over subsets: the functions are shown to exist on the
  subsets of each size by induction on the size (`SumsUpTo`, `FoldsUpTo`). That an extract
  whose upper index is the width has a bit more is left out by the property, but not its
  width and type, which the others state.
* `StringsAreReadBack` (`TextProofs`): `Spec => []StringsRoundTrip`: the text that is printed
  for a string value is converted to that value again, for strings of any length. It rests on
  `RoundTrip`, `ToInternal(ToText(s)) = s` for every sequence of code points, which is about two
  loops that walk through different texts. `ToText` lays pieces out one after the other, a
  character or an escape sequence (`LaidOut`, from the fold of `FlattenSeq`); `ToInternal` goes
  on from each place by what it found there (`GoesOn`); where a piece begins, it finds this
  piece and no other (`ReadsPiece`), since the braces leave room for nothing longer. That the
  digits within the braces are the code point again is `DigitsFacts`: `Number` undoes `Digits`,
  in any base up to 16. The invariant, `StringsInv`, says that every string at hand has code
  points: those the parser makes of a literal (`LiteralStrung`), and those operators make, of numbers and
  bit-vectors too (`EvaluatedStrung`). To keep it when a token is put back, one needs that at
  most one token that was handed out has no value yet.
* `PrintedIsReadBack` (`TextProofs`): `Spec => []PrintedReadsBack`: every value that
  `Expr::printDebug` prints, but for the exceptions that `ReadsBack` lists, is read as that value by
  the lexer and the parser, in blocks of any size and whatever is peeked at and put back. The
  first half is about texts (`PrintedReads`): what is printed of each kind of value is one
  lexeme, of the one kind whose reading gives the value back (`ReadAs`). It takes the numbers
  read from digits that were written (`NumeralReads`, `RationalReads`, `BinaryReads`,
  `HexadecimalReads`), what is between bars or quotes (`QuotedReads`, `QuotedIsString`) and when
  a symbol needs no bars (`SimpleReads`). The second half is about the reader, and has the
  longest lexemes to rest on: an input that is one lexeme gives this token first, then the end,
  and no error (`FirstToken`, `SecondToken`, `NoErrorFound`). The invariant, `PrintedInv`, relates
  what was made, read and handed out: until there is a value, no token but the first was made,
  so that `d_token`, which the parser takes the text from, still is that of the token it holds.
* `StoreTypes`, `CountsNeverTooSmall` and `NothingDangles` (`ExprStoreProofs`): `Spec =>
  []TypeOK`, `Spec => []CountsCover` and `Spec => []NoDangling`, for any addresses and
  any numbers of children, several under one kind included. The invariant,
  `StoreInv`, ties them together, since none is inductive alone: that no
  count is too small makes an expression with count zero one that nothing refers to
  (`DeletedUnreferenced`), which is why freeing it leaves nothing dangling; that
  nothing dangles is why an address that is used again has no references yet
  (`Unreferenced`), and why counts are right from the start. The type of the expression
  that is deleted has a reference (`TypeReferenced`), so it waits for the first time when
  that was the last one (`QueueInv`). An entry of the trie is alive and has the children it
  is found under (`TrieSound`), so the address that is freed is at one entry at most.
* `TrieIsExact`, `TermsAreShared` and `StoreImplementsTermMap` (`ExprStoreProofs`): `Spec =>
  []TrieExact`, `Spec => []Shared` and `Spec => ImplementsTermMap`, under the hypothesis
  `OneArity`, that the expressions of a kind have the same number of children,
  whichever it is. It is needed: `mixed_arity` is the counterexample without
  it. `TrieInv` adds to `StoreInv` that each expression with children is at the end of a
  way that is whole. The lemma that matters is `RemoveKeeps`, about `ExprTrie::remove`:
  if the way to another expression had an erased node, the two ways would part below
  the place where `remove` cuts, at a node with two children, and `remove` cuts
  below the last such node.
* `EvaluatorTypes`, `EvaluatorFrames` and `EvaluatorKeeps` (`EvaluatorProofs`): `Spec =>
  []TypeOK`, `Spec => []FramesAligned` and `Spec => []TrieKept`, for any programs,
  oracles and terms. The loop of `evaluate` looks up the values of the children of
  a term with an iterator that it asserts is not at the end (`type_checker.cpp:742`).
  The invariant that makes this right, `FrameInv`, says two things of each frame. A
  term marked as visited (an entry with no value yet) has each child that it needs
  valued or above it on the stack (`ValuedAbove`). And it is itself on the stack
  with nothing but smaller terms above it: so no child of the term at hand can be
  one that is in progress below, and a term that the stack has twice is finished
  when it is met again. `StackInv` adds that each frame but the last waits
  for exactly one call, the one the frame above it was made for, and `Kept` that a
  remembered answer stays as it was.
* `EvaluatorResult`: `Spec => []ResultRight`: what `evaluate` returns is
  the value by recursion, of any term in any context in a set `D` of evaluations that
  `Meaning` is defined on (`DefinedOn`, which is `IsEvaluation` of `D` with the input
  in it). The invariant, `Right`, says that what a frame has for a term is the term's meaning
  in the context of that frame, and that what the trie has for a call is the meaning of the
  body of its case in the context of the match (`Answer`); which call the value of a frame is
  for follows from `FramesAligned`. So the order in which the loop meets terms, the
  marks, the trie and the cut of an `eo::ite` cannot be told from the value. The shortcuts can:
  a term that is ground and not evaluatable, or without parameters bound in the context, is
  taken as it is. For a term this needs that the flags of `ExprValue` are right about it
  (`SoundTerms`); for the body of a case it needs that the body does not evaluate
  further (`FinalCases`), which the code does not ensure: `ground_call` is the
  counterexample, and the one hypothesis it does not satisfy.
* `InterpretedAtMostOnce`: `HSpec => []InterpretedOnce` where evaluation by recursion has a rank
  (`IsRank`), that is, where it ends. The ranks of what the frames evaluate fall from
  each to the next (`Ranked`), so that a call in progress is never met again; one that was
  answered is in the trie. `OnlySelfCallsRepeat` is what is left of this without the
  assumption that anything ends: the step after which a call has been interpreted twice
  for the first time is one that enters a call that is being answered.

The proofs assume what the modules assume of their constants (`SymbolTableAssumption`,
`CheckerAssumption`, `ExprStoreAssumption`, `LexerAssumption`, `InputsAreBytes`, that a
text is a sequence of bytes and what is printed a literal or a symbol, and `OperandsAreValues`, that operands are literals as their
classes keep them: a bit-vector is below the power of its width), and `OneArity` where it is named. Those about
the evaluator have two hypotheses more, which their statements name: `WellTyped`,
that the operations on terms give terms, and `WellFounded`, that there is a size
under which a child is smaller than its parent, which is true of terms since they
are finite. Those about the value name `DefinedOn`, `SoundTerms`, `FinalCases` and
`IsRank` as well; TLC evaluates these for the signatures, terms and contexts of the runs
(`EvaluationByRecursion` and `CasesFinal` of `MCEvaluator`), so they hold of the calls
that are checked, `FinalCases` not of those of `ground_call`.

Recursive functions (`Digits`, `ToInternal`, `Unescape`, and the folds) are choices of a function
that satisfies an equation; that there is one is shown first, by induction over the part of
the domain where it is defined (`DigitsExist`, `GoesOnExists`, `FlattenExists`).

Induction over numbers and over the size of a finite set is by well-foundedness of `<` on
the naturals (`Inductive` of `LiteralProofs`), since the library's theorems of induction
take an operator as a parameter.

Model-checked only: the parser of terms and the commands (`ReadsAsWritten`, `ScopesRestored`,
`NoAbort`, `CommandsEnd`, `TextsNotStale`, `ListsAsSequences`, `DefinitionsClosed`), whose
definitions are recursive operators, and the first three and the last of them until a vector of
overloads served two bindings (`tangled`); and `Terminates` and `ScanEnds`, which are about liveness.

## 6. Where the program and its documents disagree

Checked by runs of their own:

* `let_alias`: `bind` appends to the overload list of the expression that is bound
  (`state.cpp:1133`), so `let` or `define` of one term for two shadowed names mixes
  the histories of the names; one of them keeps the meaning of the scope. In terms this
  shows as follows (`tangled` in `TermParser`). What one let leaves in a vector a later one
  carries: in `(and (let ((x y)) x) (let ((y c)) true) y)` the last `y` is read as `x`, and the
  input is answered `correct`, while the manual says that `eo::define` is used "analogously to
  `let` binders in other languages" (`user_manual.md:87`). And a vector may be short when its
  binding ends, where a comment says that "we always have at least 2 overloads"
  (`state.cpp:241`): `(let ((y c)) (and (let ((x y)) true) (let ((y f)) true)))` fails this assertion
  or, without assertions, crashes.
* `step_pop_after_push`: `step-pop` closes the innermost scope even if `push` opened
  it; a local assumption remains usable at level zero.
* `include_after_reference`: `includeFile` assigns `d_hasReference` for each file
  and never restores it (`state.cpp:301`); the main file after `--reference` turns the
  check off.
* `mixed_arity`: `ExprTrie::remove` prunes the path to an expression with what is
  above or below it. Kinds with several arities are the function types of programs
  (made flat), tuples and applications of programs.
* `ground_call`: `evaluate` returns a term that is ground, or whose parameters have no
  value, as it stands (`type_checker.cpp:738`), and a program case whose body is such
  a call, as `(flip false)`, gives the call and not its value.

Reproduced with the program, and part of the models, without runs of their own:

* `reset` keeps `d_overloadedDecls` (`state.cpp:193`): after a reset in a scope that
  overloads a name, a later `popScope` fails its assertion or crashes
  (`RevertCrashes`). It keeps `d_ruleSymTable` as well, so that a rule cannot be
  declared again, while the manual says that it "removes all declarations and
  definitions" (`user_manual.md:123`). It clears the builtin symbols too, which the
  models do not have.
* `declare-rule` after `push` fails an assertion (`state.cpp:1111`) or, without
  assertions, binds the rule for good (`BindRule` in any scope).
* `assume` within an assumption scope makes `step-pop` fail an assertion
  (`cmd_parser.cpp:847`, `StepPopAborts`), or close a scope of two assumptions and
  discharge one (`StepPop` without `EoAssertions`).
* `exit` ends the innermost file only (`Exit`, `EndOfInput`); the manual says that
  the checker terminates (`user_manual.md:121`).
* The end of the standard input does not look at open assumptions, that of a file
  does (`EndOfInput`).
* A comment says that `keep` "includes the terms that appear in the above trie"
  (`type_checker.cpp:590`). The answer of a call that needs no frame is stored without
  being kept (`type_checker.cpp:742`). The body of a program case is held by the program; the
  answer of an oracle is held by nothing but the terms it becomes part of. `TrieKept` says it
  as the code has it; that references are counted is not part of `Evaluator`.
* With `--no-rule-sym-table`, `d_pfrSorry` has addresses of rules that were deleted,
  and a new rule at such an address counts as marked: the answer is `incomplete`
  where it should be `correct`. Not part of the model of the store.

Of the lexer, the literals and printing (`Lexer`, `Literals`, `LiteralOps`, `Reader`):

* The character after a keyword of one letter is lost (`lexer.cpp`, the call of
  `parseNonEmptyCharList` for keywords): `:x)` reads no parenthesis (`KeywordSecond`, and
  `EndOf` in `ReaderProps`).
* A byte 255 in a file ends it (`EndAt`). `#b` and `#x` without digits and `-/5` end the
  program by an exception of GMP's constructors that nothing catches (`Fatal`).
* Not read back as what was printed: strings with a quote, which is not doubled; reserved
  words and signed numerals as symbols, which get no bars; symbols with a bar or a backslash,
  which become underscores; symbols with a byte 255, in a file; hexadecimals with leading zeroes; bit-vectors of width zero;
  decimals, which are printed as annotated fractions, `(! 1/2 :decimal)` (`ReadsBack`).
* `eo::extract` takes two arguments by `checkArity` and reads three (`literal.cpp:346`,
  undefined behaviour, `UndefinedLiteral`); of a bit-vector with the upper index at the
  width it makes a bit more, as the assertion of `BitVector::extract` is compiled out.
* `eo::zdiv` of numerals is Euclidean (`Integer::euclidianQR`, one branch of which cannot be
  reached), as `integer.h:105` says: one divided by minus two is zero, where the manual has "the
  integer division (floor)" (`user_manual.md:694`), minus one. They agree on positive divisors, and
  `DivisionRecomposes` says of the others only what holds of either.
* `eo::zdiv` and `eo::zmod` applied to bit-vectors have the type of numerals;
  `eo::gt` has no type (`ValueHasOpType`). Code point 196608 is accepted, one more than
  there are; characters of a string that are not printable are dropped.
* The comment on the members of `BitVector` says "no overflows: 2^d_size < d_value"
  (`bitvector.h:125`), the wrong way around (`IsValue`, `BitVectorsWrap`).

Of the parser and the commands (`Terms`, `TermParser`, `Commands`):

* `(declare-rule ...)` while a scope is open, a `:var` on a term that stands by itself
  (`expr_parser.cpp:468`), which opens a scope that nothing closes (`leaks`).
* `declare-oracle-fun` with an opaque argument and another one (`cmd_parser.cpp:184`),
  `:right-assoc-nil` with a terminator that is no closed term on a symbol without parameters
  and an operator with an inferred terminator that is applied to nothing (`type_checker.cpp:1553`) fail
  assertions; the last one in any build. `(->)`, `(_)` and `(eo::_)` access arguments that
  are not there (`NoAbort` lists these).
* `define-fun` with arguments asserts an equation of a lambda over parameters, while an
  `assume` binds variables: it matches no assumption (`DefineFun`).
* A datatype with a `par` binds its name in the scope of the parameters, which is popped
  with it; `declare-datatypes` with fewer bodies than names is accepted.
* A parenthesis that closes nothing makes the loop of `parseSymbolicExpr` wrap its counter
  around and read on into the next command; the counter returns to zero at a matching one.
* Of a left associative operator `eo::list_concat` appends the arguments of the second list in
  reverse (`type_checker.cpp:1330`): `(or a b)` and `(or p q)` give `(or a b q p)`, where the
  manual has "`(f t11 ... t1n t21 ... t2m)`" and says that "left associative evaluation is
  defined analogously" (`user_manual.md:859`, `847`). `ListsAsSequences` leaves this case out.
* A parenthesis where a term should begin takes the last frame of an empty stack before it is
  asked whether there is one (`expr_parser.cpp:262`); builds then report a parse error (`unopened`).
* Nested binders of the same variable, and a `define` of a name as what it denotes, insert a vector
  into itself (`state.cpp:1140`, `undefined`); builds with libstdc++ repeat it, and restore the name.
* `getAppInfo` asserts that it is not asked for an operator with its parameters
  (`state.cpp:1361`), and is: `(and y (eo::_ f c))` asks for the attributes of its arguments, and a
  name that was bound to `(eo::_ f c)` for those of its term when it is applied or its scope
  ends (`AskedWithParameters`).

## 7. What is not modelled, and why

* Types: `getType`, `getTypeAppInternal` and the choice among overloads. `TermParser` takes a
  term that has a type, or none is needed; where the type decides what is read (arity of
  a type, types of literals) it is modelled. The models of proofs and evaluation take a
  term as a value and a command as one that the parser accepted or refused.
* In the evaluator: the literal operators other than `eo::ite`, which stand for one
  strict operation whose result is a function of its arguments; program applications that the
  compiler plugin takes over; the process that an oracle runs, which is a function
  of the call.
* In the parser: the values of literal tokens and of operators, which `Reader` has; the
  signature of a plugin; which overload is chosen, of which the lists are kept; what a `let` leaves in
  such a list and `mkExpr` then tries as an overload (`state.cpp:664`); positions of errors.
* Options are constants or variables where they matter (`RuleSymTable`, `LookupVars`,
  `LexLet`, `normalize`). Statistics are counters that are printed; the one that matters
  is `incomplete`. Oracles run external programs.
* Plugins are told of each operation and `main` installs none; the C++ compiler is
  a plugin that writes code from a signature.
* Paths of files are not resolved: a file is the canonical path that `d_includes`
  has. A file that does not exist is a parse error.
* In the store: literals, which are never deleted; `d_appData` (of which the entries of terms that
  are no symbols outlive them), `d_hashMap` and `d_pfrSorry`; flags of expressions.

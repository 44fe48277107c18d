---------------------------- MODULE SymbolTable ----------------------------
(***************************************************************************)
(* The scoped symbol table of class State (src/state.cpp): bind, pushScope,*)
(* popScope and reset.                                                     *)
(*                                                                         *)
(* The table keeps no environment per scope.  It has one map d_symTable    *)
(* and three undo logs: d_decls (the names bound in a nested scope, in     *)
(* order), d_declsSizeCtx (the length of d_decls when each open scope was  *)
(* entered) and d_overloadedDecls (the names among d_decls that were bound *)
(* already).  What an overloaded name denoted before is not in the logs:   *)
(* it is read back from d_overloads, a vector kept with the *expression*   *)
(* the name is bound to.                                                   *)
(*                                                                         *)
(* Callers reach bind in two ways, kept apart here because the undo logs   *)
(* do not treat them alike: with a symbol just made by mkSymbol            *)
(* (BindFresh) or with a term that exists already (BindExisting: let,      *)
(* define, define-sort, canonical bound variables).                        *)
(***************************************************************************)
EXTENDS Naturals, Sequences, FiniteSets

CONSTANTS Names,         \* the names the input uses
          Exprs,         \* symbols and terms that names are bound to
          Rules,         \* the proof rules (Kind::PROOF_RULE)
          RuleSymTable,  \* the option d_ruleSymTable
          Null           \* d_null

ASSUME SymbolTableAssumption == /\ Null \notin Exprs \cup Rules
                                /\ Exprs \cap Rules = {}
                                /\ RuleSymTable \in BOOLEAN

VARIABLES
    symTable,         \* d_symTable; Null where the map has no entry
    ruleSymTable,     \* d_ruleSymTable
    overloads,        \* d_appData[e].d_overloads of each expression
    decls,            \* d_decls
    declsSizeCtx,     \* d_declsSizeCtx
    overloadedDecls,  \* d_overloadedDecls
    popping,          \* popScope is in its loop
    lastSize,         \* the local variable of popScope
    made,             \* the expressions made by mkSymbol so far
    crashed           \* an Assert of popScope was false

vars == <<symTable, ruleSymTable, overloads, decls, declsSizeCtx,
          overloadedDecls, popping, lastSize, made, crashed>>

undoLogs == <<decls, declsSizeCtx, overloadedDecls>>

Bindable == Exprs \cup Rules

Unbound == [n \in Names |-> Null]

LastOf(s) == s[Len(s)]

FrontOf(s) == SubSeq(s, 1, Len(s) - 1)

TypeOK ==
    /\ symTable \in [Names -> Bindable \cup {Null}]
    /\ ruleSymTable \in [Names -> Rules \cup {Null}]
    /\ overloads \in [Bindable -> Seq(Bindable)]
    /\ decls \in Seq(Names)
    /\ declsSizeCtx \in Seq(Nat)
    /\ overloadedDecls \in Seq(Names)
    /\ popping \in BOOLEAN
    /\ lastSize \in Nat
    /\ made \subseteq Bindable
    /\ crashed \in BOOLEAN

Init ==
    /\ symTable = Unbound
    /\ ruleSymTable = Unbound
    /\ overloads = [e \in Bindable |-> <<>>]
    /\ decls = <<>>
    /\ declsSizeCtx = <<>>
    /\ overloadedDecls = <<>>
    /\ popping = FALSE
    /\ lastSize = 0
    /\ made = {}
    /\ crashed = FALSE

(* popScope runs to its end before the caller does anything else.          *)
Ready == ~popping /\ ~crashed

-----------------------------------------------------------------------------
(* Binding *)

Nested == declsSizeCtx # <<>>

(* The overloads that a name bound to e passes on: its own vector, or e    *)
(* alone when the name is overloaded for the first time.                   *)
OverloadsOf(e) == IF overloads[e] = <<>> THEN <<e>> ELSE overloads[e]

(* Faulty: the name is looked up with operator[], so that an unbound one   *)
(* counts as overloaded, by the null expression.                           *)
BindSymbolUnfound(n, e) ==
    LET old == symTable[n]
    IN  /\ overloads' = [overloads EXCEPT
                            ![e] = Append(@ \o IF old = Null THEN <<old>> ELSE OverloadsOf(old), e)]
        /\ overloadedDecls' = IF Nested THEN Append(overloadedDecls, n) ELSE overloadedDecls
        /\ symTable' = [symTable EXCEPT ![n] = e]
        /\ decls' = IF Nested THEN Append(decls, n) ELSE decls
        /\ UNCHANGED <<ruleSymTable, declsSizeCtx, popping, lastSize, crashed>>

(* Faulty: an overload in the global scope is logged as well.              *)
BindSymbolLogsGlobal(n, e) ==
    LET old == symTable[n]
    IN  /\ overloads' = IF old = Null
                        THEN overloads
                        ELSE [overloads EXCEPT ![e] = Append(@ \o OverloadsOf(old), e)]
        /\ overloadedDecls' = IF old # Null THEN Append(overloadedDecls, n) ELSE overloadedDecls
        /\ symTable' = [symTable EXCEPT ![n] = e]
        /\ decls' = IF Nested THEN Append(decls, n) ELSE decls
        /\ UNCHANGED <<ruleSymTable, declsSizeCtx, popping, lastSize, crashed>>

(* The part of bind that uses d_symTable.  The new vector is appended to   *)
(* whatever e has kept from an earlier binding.  If the name denotes e     *)
(* already, a vector is inserted into itself, which is undefined: here it  *)
(* is repeated, as builds with libstdc++ have it.                          *)
BindSymbol(n, e) ==
    LET old == symTable[n]
    IN  /\ overloads' = IF old = Null
                        THEN overloads
                        ELSE [overloads EXCEPT ![e] = Append(@ \o OverloadsOf(old), e)]
        /\ overloadedDecls' = IF old # Null /\ Nested
                              THEN Append(overloadedDecls, n)
                              ELSE overloadedDecls
        /\ symTable' = [symTable EXCEPT ![n] = e]
        /\ decls' = IF Nested THEN Append(decls, n) ELSE decls
        /\ UNCHANGED <<ruleSymTable, declsSizeCtx, popping, lastSize, crashed>>

(* declare-const, declare-rule without the rule table, assume, step,       *)
(* program, declare-datatype and parameters bind a symbol that mkSymbol    *)
(* has just allocated.                                                     *)
BindFresh(n, e) ==
    /\ Ready
    /\ e \in (IF RuleSymTable THEN Exprs ELSE Bindable) \ made
    /\ made' = made \cup {e}
    /\ BindSymbol(n, e)

(* let, define and define-sort bind a term that exists; a define with      *)
(* implicit parameters and a binder bind a parameter a second time.        *)
BindExisting(n, e) ==
    /\ Ready
    /\ e \in made \cap Exprs
    /\ BindSymbol(n, e)
    /\ UNCHANGED made

(* declare-rule with the rule table.  bind returns false, and the command  *)
(* stops the program, when the name has a rule already.  A release build   *)
(* does so in any scope; only a debug build asserts that it is the global. *)
BindRule(n, r) ==
    /\ Ready
    /\ RuleSymTable
    /\ r \in Rules \ made
    /\ ruleSymTable[n] = Null
    /\ made' = made \cup {r}
    /\ ruleSymTable' = [ruleSymTable EXCEPT ![n] = r]
    /\ UNCHANGED <<symTable, overloads, undoLogs, popping, lastSize, crashed>>

-----------------------------------------------------------------------------
(* Scopes *)

PushScope ==
    /\ Ready
    /\ declsSizeCtx' = Append(declsSizeCtx, Len(decls))
    /\ UNCHANGED <<symTable, ruleSymTable, overloads, decls, overloadedDecls,
                   popping, lastSize, made, crashed>>

(* popScope up to its loop.  With no open scope it is EO_FATAL: the        *)
(* program ends, which is the absence of a step.                           *)
PopScope ==
    /\ Ready
    /\ Nested
    /\ lastSize' = LastOf(declsSizeCtx)
    /\ declsSizeCtx' = FrontOf(declsSizeCtx)
    /\ popping' = TRUE
    /\ UNCHANGED <<symTable, ruleSymTable, overloads, decls, overloadedDecls,
                   made, crashed>>

(* One iteration of the loop is one step; decls loses its last name in the *)
(* iteration that handles it and not in the resize after the loop, which   *)
(* nothing in the loop can tell.                                           *)
LoopRuns == popping /\ ~crashed /\ Len(decls) > lastSize

(* Faulty: the oldest overloaded declaration is looked at.                 *)
OldestOverloaded == /\ overloadedDecls # <<>>
                    /\ Head(overloadedDecls) = LastOf(decls)

WasOverloaded == /\ overloadedDecls # <<>>
                 /\ LastOf(overloadedDecls) = LastOf(decls)

(* its != end, ai != nullptr and ai->d_overloads.size() >= 2 *)
RevertAsserts == LET e == symTable[LastOf(decls)]
                 IN  e # Null /\ Len(overloads[e]) >= 2

(* Faulty: the name goes back to its oldest binding.                       *)
RevertToOldest ==
    /\ LoopRuns
    /\ WasOverloaded
    /\ RevertAsserts
    /\ LET n == LastOf(decls)
           e == symTable[n]
           rest == FrontOf(overloads[e])
       IN  /\ overloads' = [overloads EXCEPT ![e] = rest]
           /\ symTable' = [symTable EXCEPT ![n] = Head(rest)]
    /\ overloadedDecls' = FrontOf(overloadedDecls)
    /\ decls' = FrontOf(decls)
    /\ UNCHANGED <<ruleSymTable, declsSizeCtx, popping, lastSize, made, crashed>>

RevertOverload ==
    /\ LoopRuns
    /\ WasOverloaded
    /\ RevertAsserts
    /\ LET n == LastOf(decls)
           e == symTable[n]
           rest == FrontOf(overloads[e])
       IN  /\ overloads' = [overloads EXCEPT ![e] = rest]
           /\ symTable' = [symTable EXCEPT ![n] = LastOf(rest)]
    /\ overloadedDecls' = FrontOf(overloadedDecls)
    /\ decls' = FrontOf(decls)
    /\ UNCHANGED <<ruleSymTable, declsSizeCtx, popping, lastSize, made, crashed>>

EraseBinding ==
    /\ LoopRuns
    /\ ~WasOverloaded
    /\ symTable' = [symTable EXCEPT ![LastOf(decls)] = Null]
    /\ decls' = FrontOf(decls)
    /\ UNCHANGED <<ruleSymTable, overloads, declsSizeCtx, overloadedDecls,
                   popping, lastSize, made, crashed>>

(* A false Assert aborts a debug build; in a release build the next line   *)
(* reads through a null pointer or takes back() of an empty vector.        *)
RevertCrashes ==
    /\ LoopRuns
    /\ WasOverloaded
    /\ ~RevertAsserts
    /\ crashed' = TRUE
    /\ UNCHANGED <<symTable, ruleSymTable, overloads, undoLogs, popping,
                   lastSize, made>>

PopScopeReturns ==
    /\ popping /\ ~crashed
    /\ Len(decls) <= lastSize
    /\ decls' = SubSeq(decls, 1, lastSize)
    /\ popping' = FALSE
    /\ lastSize' = 0
    /\ UNCHANGED <<symTable, ruleSymTable, overloads, declsSizeCtx,
                   overloadedDecls, made, crashed>>

(* Faulty: the open scopes are forgotten but not closed.                   *)
ResetKeepsContext ==
    /\ Ready
    /\ symTable' = Unbound
    /\ decls' = <<>>
    /\ UNCHANGED <<ruleSymTable, overloads, declsSizeCtx, overloadedDecls, popping,
                   lastSize, made, crashed>>

(* State::reset, the command (reset).  It clears d_symTable, d_decls and   *)
(* d_declsSizeCtx, and nothing else of what is modelled here.              *)
Reset ==
    /\ Ready
    /\ symTable' = Unbound
    /\ decls' = <<>>
    /\ declsSizeCtx' = <<>>
    /\ UNCHANGED <<ruleSymTable, overloads, overloadedDecls, popping,
                   lastSize, made, crashed>>

-----------------------------------------------------------------------------
(* Specifications *)

PopLoop == RevertOverload \/ EraseBinding \/ RevertCrashes \/ PopScopeReturns

(* What every command and every term of the input can do.                  *)
Next ==
    \/ \E n \in Names : \/ \E e \in Bindable : BindFresh(n, e) \/ BindExisting(n, e)
                        \/ \E r \in Rules : BindRule(n, r)
    \/ PushScope
    \/ PopScope
    \/ PopLoop
    \/ Reset

Spec == Init /\ [][Next]_vars

(* The discipline under which the undo logs are exact: only symbols fresh  *)
(* from mkSymbol are bound, and reset is not used while an overloaded      *)
(* declaration is in an open scope.                                        *)
FreshNext ==
    \/ \E n \in Names : \/ \E e \in Bindable : BindFresh(n, e)
                        \/ \E r \in Rules : BindRule(n, r)
    \/ PushScope
    \/ PopScope
    \/ PopLoop
    \/ overloadedDecls = <<>> /\ Reset

FreshSpec == Init /\ [][FreshNext]_vars

=============================================================================

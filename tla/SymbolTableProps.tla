-------------------------- MODULE SymbolTableProps --------------------------
(***************************************************************************)
(* What the symbol table must satisfy, and the abstract environments its   *)
(* undo logs stand for.                                                    *)
(***************************************************************************)
EXTENDS SymbolTable

(* How many of the names in s after position i are n.                      *)
CountIn(s, n, i) == Cardinality({k \in (i + 1) .. Len(s) : s[k] = n})

Count(n, i) == CountIn(decls, n, i)

(* The bindings of n that can still be reverted to, oldest first.          *)
Chain(n) == IF symTable[n] = Null THEN <<>> ELSE OverloadsOf(symTable[n])

(* The declarations visible in each open environment, the global one       *)
(* first.  While popScope runs, its scope is closed already.               *)
Marks == Append(declsSizeCtx, IF popping THEN lastSize ELSE Len(decls))

(* The chain of n as it was when the environment of a mark was current.    *)
ChainAt(n, mark) == SubSeq(Chain(n), 1, Len(Chain(n)) - Count(n, mark))

EnvsBar == [k \in 1 .. Len(Marks) |-> [n \in Names |-> ChainAt(n, Marks[k])]]

Abstract == INSTANCE ScopedEnv WITH Exprs <- Bindable, envs <- EnvsBar

(* Opening, binding and closing scopes acts on the current environment     *)
(* alone: whatever a scope bound or shadowed, popScope restores every name *)
(* and every overload list of the enclosing one, and no iteration of its   *)
(* loop disturbs an environment that stays open.                           *)
ImplementsScopedEnv == Abstract!EnvSpec

-----------------------------------------------------------------------------

(* d_declsSizeCtx grows and never points past d_decls, not even while      *)
(* popScope shrinks it, so popScope never unbinds a name of an enclosing   *)
(* scope and its resize never lengthens d_decls.                           *)
CtxMonotone ==
    /\ \A i, j \in 1 .. Len(declsSizeCtx) : i <= j => declsSizeCtx[i] <= declsSizeCtx[j]
    /\ \A i \in 1 .. Len(declsSizeCtx) : declsSizeCtx[i] <= Len(decls)
    /\ popping => /\ lastSize <= Len(decls)
                  /\ \A i \in 1 .. Len(declsSizeCtx) : declsSizeCtx[i] <= lastSize

(* A name with a declaration in an open scope is bound: the iterator its   *)
(* of popScope is never end().                                             *)
DeclsBound == \A i \in 1 .. Len(decls) : symTable[decls[i]] # Null

(* Where in the chain of its name the i-th declaration stands.             *)
Rank(i) == Len(Chain(decls[i])) - Count(decls[i], i)

(* The declarations that found their name bound.                           *)
OverloadedAt == {i \in 1 .. Len(decls) : Rank(i) >= 2}

(* s lists the elements of t at the positions in S, in their order.        *)
SublistAt(s, t, S) ==
    \E at \in [1 .. Len(s) -> 1 .. Len(t)] :
        /\ \A j, k \in 1 .. Len(s) : j < k => at[j] < at[k]
        /\ \A j \in 1 .. Len(s) : s[j] = t[at[j]]
        /\ S = {at[j] : j \in 1 .. Len(s)}

(* "The list of declared symbols that were overloaded when they were       *)
(* bound.  This is a sublist of d_decls" (state.h): d_overloadedDecls      *)
(* lists exactly the declarations that shadow a binding, in the order of   *)
(* d_decls.  popScope, which compares names only, relies on it to revert   *)
(* the right ones.                                                         *)
OverloadedIsSublist == SublistAt(overloadedDecls, decls, OverloadedAt)

(* The overload list of a bound name ends with what the name denotes, and  *)
(* its members carry the prefixes of the list as their own lists.          *)
ChainsArePrefixes ==
    \A n \in Names : \A k \in 1 .. Len(Chain(n)) :
        /\ k = Len(Chain(n)) => Chain(n)[k] = symTable[n]
        /\ overloads[Chain(n)[k]] = IF k = 1 THEN <<>> ELSE SubSeq(Chain(n), 1, k)

(* No expression is in the overload lists of two names: reverting one name *)
(* cannot change what another can revert to.                               *)
ChainsDisjoint ==
    \A m, n \in Names : m # n =>
        \A i \in 1 .. Len(Chain(m)), j \in 1 .. Len(Chain(n)) : Chain(m)[i] # Chain(n)[j]

(* What is in a list was made, and what is not made has no list yet.       *)
ChainsMade ==
    /\ \A n \in Names : Chain(n) \in Seq(made)
    /\ \A e \in Bindable \ made : overloads[e] = <<>>

(* Every open declaration is a binding of its name, a different one.       *)
RanksPositive == \A i \in 1 .. Len(decls) : Rank(i) >= 1

(* The global environment has no declarations to undo.                     *)
GlobalMark == Marks[1] = 0

(* The asserts of popScope hold: what is reverted was overloaded.          *)
NoCrash == ~crashed

(* The invariant that makes the undo logs exact under the discipline of    *)
(* FreshSpec.                                                              *)
UndoExact ==
    /\ GlobalMark
    /\ ChainsMade
    /\ ChainsArePrefixes
    /\ ChainsDisjoint
    /\ RanksPositive
    /\ OverloadedIsSublist
    /\ NoCrash

=============================================================================
